---------------------------- MODULE UnitsProofs ----------------------------
(***************************************************************************)
(* Proofs about the small machines: Wal, Workers, Metrics, Shard, Client,  *)
(* Snapshots and Locks.                                                    *)
(*                                                                         *)
(* The write-ahead log is read back, for any entries, any length of the    *)
(* log and any number of torn writes and damaged units: decode inverts     *)
(* encode, the reader finds each whole entry where the writer put it, and  *)
(* behind the damage no unit is the checksum of all that is before it.     *)
(***************************************************************************)
EXTENDS Wal, Workers, Metrics, Shard, Client, Snapshots, Locks, Recursion, TLAPS

-----------------------------------------------------------------------------
(* The write-ahead log: units and encoded entries.                         *)

\* What a file is made of: numbers and sums of numbers.
DataUnits == {<<n>> : n \in Nat}
Sums == {Checksum(u) : u \in Seq(DataUnits)}
Units == DataUnits \cup Sums

LEMMA UnitFacts ==
  /\ \A u \in DataUnits : Len(u) = 1 /\ u[1] \in Nat
  /\ \A u \in Sums : Len(u) = 2 /\ u[1] \in Nat /\ u[2] \in Seq(DataUnits)
  /\ \A u : Len(Checksum(u)) = 2 /\ Checksum(u)[2] = u
  /\ \A u \in Units : u[1] \in Nat
<1>1. \A u \in DataUnits : Len(u) = 1 /\ u[1] \in Nat
  BY DEF DataUnits
<1>2. \A u : Len(Checksum(u)) = 2 /\ Checksum(u)[2] = u /\ Checksum(u)[1] \in Nat
  BY WalConstants DEF Checksum
<1>3. \A u \in Sums : Len(u) = 2 /\ u[1] \in Nat /\ u[2] \in Seq(DataUnits)
  BY <1>2 DEF Sums
<1> QED  BY <1>1, <1>2, <1>3 DEF Units

\* Sequences with the same elements are the same.
LEMMA SameSequence ==
  ASSUME NEW S, NEW s \in Seq(S), NEW t \in Seq(S), Len(s) = Len(t),
         \A i \in 1 .. Len(s) : s[i] = t[i]
  PROVE  s = t
  OBVIOUS

\* One sequence of numbers behind another one.
IsJoin(r, s, t) ==
  /\ r \in Seq(DataUnits) /\ Len(r) = Len(s) + Len(t)
  /\ \A i \in 1 .. Len(s) : r[i] = s[i]
  /\ \A i \in 1 .. Len(t) : r[Len(s) + i] = t[i]

LEMMA Joined == \A s, t \in Seq(DataUnits) : IsJoin(s \o t, s, t)
  BY DEF IsJoin

\* A part of a sequence.
LEMMA PartFacts ==
  ASSUME NEW S, NEW s \in Seq(S), NEW a \in 1 .. Len(s) + 1, NEW n \in 0 .. Len(s),
         a + n - 1 <= Len(s)
  PROVE  /\ SubSeq(s, a, a + n - 1) \in Seq(S) /\ Len(SubSeq(s, a, a + n - 1)) = n
         /\ \A i \in 1 .. n : SubSeq(s, a, a + n - 1)[i] = s[a + i - 1]
  OBVIOUS

LEMMA SamePart ==
  ASSUME NEW S, NEW s \in Seq(S), NEW t \in Seq(S), NEW a \in Nat, NEW b \in Nat,
         a >= 1, a - 1 <= b, b <= Len(s), b <= Len(t), \A k \in a .. b : s[k] = t[k]
  PROVE  SubSeq(s, a, b) = SubSeq(t, a, b)
  OBVIOUS

LEMMA FieldFacts ==
  ASSUME NEW b \in Seq(Nat)
  PROVE  /\ Len(b) \in Nat
         /\ Field(b) \in Seq(DataUnits) /\ Len(Field(b)) = Len(b) + 1
         /\ Field(b)[1] = <<Len(b)>>
         /\ \A i \in 1 .. Len(b) : Field(b)[1 + i] = <<b[i]>>
<1> DEFINE h == <<<<Len(b)>>>>
           t == [i \in DOMAIN b |-> <<b[i]>>]
<1>1. Len(b) \in Nat /\ DOMAIN b = 1 .. Len(b)
  OBVIOUS
<1>2. h \in Seq(DataUnits) /\ Len(h) = 1 /\ h[1] = <<Len(b)>>
  <2>1. <<Len(b)>> \in DataUnits
    BY <1>1 DEF DataUnits
  <2> QED  BY <2>1
<1>3. t \in Seq(DataUnits) /\ Len(t) = Len(b) /\ \A i \in 1 .. Len(b) : t[i] = <<b[i]>>
  <2>1. \A i \in 1 .. Len(b) : <<b[i]>> \in DataUnits
    BY DEF DataUnits
  <2> QED  BY <1>1, <2>1
<1>4. Field(b) = h \o t
  BY DEF Field
<1> HIDE DEF h, t
<1>5. IsJoin(Field(b), h, t)
  BY <1>2, <1>3, <1>4, Joined
<1>6. Field(b) \in Seq(DataUnits) /\ Len(Field(b)) = Len(b) + 1 /\ Field(b)[1] = <<Len(b)>>
  BY <1>1, <1>2, <1>3, <1>5 DEF IsJoin
<1>7. \A i \in 1 .. Len(b) : Field(b)[1 + i] = <<b[i]>>
  BY <1>1, <1>2, <1>3, <1>5 DEF IsJoin
<1> QED  BY <1>1, <1>6, <1>7

\* An entry on disk: the type, the fields, and the sum of all units before it.
EncodedAs(E, e) ==
  LET c == Len(e.collection)
      i == Len(e.id)
      p == Len(e.payload)
  IN  /\ E \in Seq(Units) /\ Len(E) = c + i + p + 5
      /\ c \in Nat /\ i \in Nat /\ p \in Nat
      /\ \A k \in 1 .. Len(E) - 1 : E[k] \in DataUnits
      /\ SubSeq(E, 1, Len(E) - 1) \in Seq(DataUnits)
      /\ E[Len(E)] = Checksum(SubSeq(E, 1, Len(E) - 1))
      /\ E[1] = <<e.type>>
      /\ E[2] = <<c>> /\ \A k \in 1 .. c : E[2 + k] = <<e.collection[k]>>
      /\ E[3 + c] = <<i>> /\ \A k \in 1 .. i : E[3 + c + k] = <<e.id[k]>>
      /\ E[4 + c + i] = <<p>> /\ \A k \in 1 .. p : E[4 + c + i + k] = <<e.payload[k]>>

LEMMA EntryTyped ==
  ASSUME NEW e \in WalEntries
  PROVE  /\ e.type \in EntryTypes /\ e.type \in Nat
         /\ e.collection \in Seq(Nat) /\ e.id \in Seq(Nat) /\ e.payload \in Seq(Nat)
         /\ e = [type |-> e.type, collection |-> e.collection, id |-> e.id,
                 payload |-> e.payload]
<1>1. e \in [type : EntryTypes, collection : Seq(Nat), id : Seq(Nat), payload : Seq(Nat)]
  BY WalConstants
<1>2. e.type \in EntryTypes /\ e.collection \in Seq(Nat) /\ e.id \in Seq(Nat)
      /\ e.payload \in Seq(Nat)
  BY <1>1
<1>3. e = [type |-> e.type, collection |-> e.collection, id |-> e.id, payload |-> e.payload]
  BY <1>1
<1>4. EntryTypes \subseteq Nat
  BY DEF EntryTypes, TypeInsert, TypeUpdate, TypeDelete
<1> QED  BY <1>2, <1>3, <1>4

LEMMA Encoded == \A e \in WalEntries : EncodedAs(Encode(e), e)
<1> SUFFICES ASSUME NEW e \in WalEntries PROVE EncodedAs(Encode(e), e)
  OBVIOUS
<1> DEFINE c == Len(e.collection)
           i == Len(e.id)
           p == Len(e.payload)
           A == <<<<e.type>>>>
           F == Field(e.collection)
           G == Field(e.id)
           H == Field(e.payload)
           B == A \o F
           C == B \o G
           D == C \o H
           E == Append(D, Checksum(D))
<1>1. Encode(e) = E
  BY DEF Encode
<1>2. A \in Seq(DataUnits) /\ Len(A) = 1 /\ A[1] = <<e.type>>
  <2>1. <<e.type>> \in DataUnits
    BY EntryTyped DEF DataUnits
  <2> QED  BY <2>1
<1>3. /\ c \in Nat /\ F \in Seq(DataUnits) /\ Len(F) = c + 1 /\ F[1] = <<c>>
      /\ \A k \in 1 .. c : F[1 + k] = <<e.collection[k]>>
  BY EntryTyped, FieldFacts
<1>4. /\ i \in Nat /\ G \in Seq(DataUnits) /\ Len(G) = i + 1 /\ G[1] = <<i>>
      /\ \A k \in 1 .. i : G[1 + k] = <<e.id[k]>>
  BY EntryTyped, FieldFacts
<1>5. /\ p \in Nat /\ H \in Seq(DataUnits) /\ Len(H) = p + 1 /\ H[1] = <<p>>
      /\ \A k \in 1 .. p : H[1 + k] = <<e.payload[k]>>
  BY EntryTyped, FieldFacts
<1> HIDE DEF A, F, G, H, c, i, p
<1>6. /\ B \in Seq(DataUnits) /\ Len(B) = c + 2 /\ B[1] = <<e.type>> /\ B[2] = <<c>>
      /\ \A k \in 1 .. c : B[2 + k] = <<e.collection[k]>>
  <2>1. /\ B \in Seq(DataUnits) /\ Len(B) = 1 + (c + 1)
        /\ \A k \in 1 .. 1 : B[k] = A[k]
        /\ \A k \in 1 .. c + 1 : B[1 + k] = F[k]
    <3>1. A \in Seq(DataUnits) /\ F \in Seq(DataUnits) /\ Len(A) = 1 /\ Len(F) = c + 1
      BY <1>2, <1>3
    <3>2. IsJoin(B, A, F)
      BY <3>1, Joined
    <3> HIDE DEF B
    <3> QED  BY <3>1, <3>2 DEF IsJoin
  <2> HIDE DEF B
  <2>2. B[1] = A[1] /\ B[1 + 1] = F[1]
    BY <1>3, <2>1
  <2>3. ASSUME NEW k \in 1 .. c PROVE B[2 + k] = F[1 + k]
    <3>1. 1 + k \in 1 .. c + 1 /\ 1 + (1 + k) = 2 + k
      BY <1>3
    <3>2. B[1 + (1 + k)] = F[1 + k]
      BY <2>1, <3>1
    <3> QED  BY <3>1, <3>2
  <2>4. B[1] = <<e.type>> /\ B[2] = <<c>>
    BY <1>2, <1>3, <2>2
  <2>5. Len(B) = c + 2 /\ B \in Seq(DataUnits)
    BY <1>3, <2>1
  <2>6. \A k \in 1 .. c : B[2 + k] = <<e.collection[k]>>
    BY <1>3, <2>3
  <2> QED  BY <2>4, <2>5, <2>6
<1> HIDE DEF B
<1>7. /\ C \in Seq(DataUnits) /\ Len(C) = c + i + 3
      /\ \A k \in 1 .. c + 2 : C[k] = B[k]
      /\ C[3 + c] = <<i>> /\ \A k \in 1 .. i : C[3 + c + k] = <<e.id[k]>>
  <2>1. /\ C \in Seq(DataUnits) /\ Len(C) = (c + 2) + (i + 1)
        /\ \A k \in 1 .. c + 2 : C[k] = B[k]
        /\ \A k \in 1 .. i + 1 : C[(c + 2) + k] = G[k]
    <3>1. B \in Seq(DataUnits) /\ G \in Seq(DataUnits) /\ Len(B) = c + 2 /\ Len(G) = i + 1
      BY <1>4, <1>6
    <3>2. IsJoin(C, B, G)
      BY <3>1, Joined
    <3> HIDE DEF C
    <3> QED  BY <3>1, <3>2 DEF IsJoin
  <2> HIDE DEF C
  <2>2. C[(c + 2) + 1] = G[1] /\ (c + 2) + 1 = 3 + c
    BY <1>3, <1>4, <2>1
  <2>3. ASSUME NEW k \in 1 .. i PROVE C[3 + c + k] = G[1 + k]
    <3>1. 1 + k \in 1 .. i + 1 /\ (c + 2) + (1 + k) = 3 + c + k
      BY <1>3, <1>4
    <3>2. C[(c + 2) + (1 + k)] = G[1 + k]
      BY <2>1, <3>1
    <3> QED  BY <3>1, <3>2
  <2> QED  BY <1>3, <1>4, <2>1, <2>2, <2>3
<1> HIDE DEF C
<1>8. /\ D \in Seq(DataUnits) /\ Len(D) = c + i + p + 4
      /\ \A k \in 1 .. c + i + 3 : D[k] = C[k]
      /\ D[4 + c + i] = <<p>> /\ \A k \in 1 .. p : D[4 + c + i + k] = <<e.payload[k]>>
  <2>1. /\ D \in Seq(DataUnits) /\ Len(D) = (c + i + 3) + (p + 1)
        /\ \A k \in 1 .. c + i + 3 : D[k] = C[k]
        /\ \A k \in 1 .. p + 1 : D[(c + i + 3) + k] = H[k]
    <3>1. C \in Seq(DataUnits) /\ H \in Seq(DataUnits) /\ Len(C) = c + i + 3 /\ Len(H) = p + 1
      BY <1>5, <1>7
    <3>2. IsJoin(D, C, H)
      BY <3>1, Joined
    <3> HIDE DEF D
    <3> QED  BY <3>1, <3>2 DEF IsJoin
  <2> HIDE DEF D
  <2>2. D[(c + i + 3) + 1] = H[1] /\ (c + i + 3) + 1 = 4 + c + i
    BY <1>3, <1>4, <1>5, <2>1
  <2>3. ASSUME NEW k \in 1 .. p PROVE D[4 + c + i + k] = H[1 + k]
    <3>1. 1 + k \in 1 .. p + 1 /\ (c + i + 3) + (1 + k) = 4 + c + i + k
      BY <1>3, <1>4, <1>5
    <3>2. D[(c + i + 3) + (1 + k)] = H[1 + k]
      BY <2>1, <3>1
    <3> QED  BY <3>1, <3>2
  <2> QED  BY <1>3, <1>4, <1>5, <2>1, <2>2, <2>3
<1> HIDE DEF D
<1>9. /\ E \in Seq(Units) /\ Len(E) = Len(D) + 1 /\ \A k \in 1 .. Len(D) : E[k] = D[k]
      /\ E[Len(D) + 1] = Checksum(D)
  <2>1. D \in Seq(Units) /\ Checksum(D) \in Units
    BY <1>8 DEF Units, Sums
  <2> QED  BY <2>1
<1> HIDE DEF E
<1>10. Len(D) \in Nat /\ Len(E) - 1 = Len(D)
  BY <1>8, <1>9
<1>11. SubSeq(E, 1, Len(D)) = D
  <2>1. D \in Seq(Units)
    BY <1>8 DEF Units
  <2>2. /\ SubSeq(E, 1, 1 + Len(D) - 1) \in Seq(Units)
        /\ Len(SubSeq(E, 1, 1 + Len(D) - 1)) = Len(D)
        /\ \A k \in 1 .. Len(D) : SubSeq(E, 1, 1 + Len(D) - 1)[k] = E[1 + k - 1]
    BY <1>9, <1>10, PartFacts
  <2>3. 1 + Len(D) - 1 = Len(D) /\ \A k \in 1 .. Len(D) : 1 + k - 1 = k
    BY <1>10
  <2>4. \A k \in 1 .. Len(D) : SubSeq(E, 1, Len(D))[k] = D[k]
    BY <1>9, <2>2, <2>3
  <2> QED  BY <2>1, <2>2, <2>3, <2>4, SameSequence
<1>12. /\ 1 \in 1 .. c + 2 /\ 2 \in 1 .. c + 2 /\ \A k \in 1 .. c : 2 + k \in 1 .. c + 2
       /\ \A k \in 1 .. c + 2 : k \in 1 .. c + i + 3 /\ k \in 1 .. Len(D)
       /\ 3 + c \in 1 .. c + i + 3 /\ \A k \in 1 .. i : 3 + c + k \in 1 .. c + i + 3
       /\ \A k \in 1 .. c + i + 3 : k \in 1 .. Len(D)
       /\ 4 + c + i \in 1 .. Len(D) /\ \A k \in 1 .. p : 4 + c + i + k \in 1 .. Len(D)
  BY <1>3, <1>4, <1>5, <1>8
<1>13. E[1] = <<e.type>> /\ E[2] = <<c>> /\ \A k \in 1 .. c : E[2 + k] = <<e.collection[k]>>
  BY <1>6, <1>7, <1>8, <1>9, <1>12
<1>14. E[3 + c] = <<i>> /\ \A k \in 1 .. i : E[3 + c + k] = <<e.id[k]>>
  BY <1>7, <1>8, <1>9, <1>12
<1>15. E[4 + c + i] = <<p>> /\ \A k \in 1 .. p : E[4 + c + i + k] = <<e.payload[k]>>
  BY <1>8, <1>9, <1>12
<1>16. Len(E) = c + i + p + 5 /\ \A k \in 1 .. Len(D) : E[k] \in DataUnits
  <2>1. Len(E) = c + i + p + 5
    BY <1>3, <1>4, <1>5, <1>8, <1>9
  <2>2. \A k \in 1 .. Len(D) : D[k] \in DataUnits
    <3>1. D \in Seq(DataUnits)
      BY <1>8
    <3> QED  BY <3>1
  <2> QED  BY <1>9, <2>1, <2>2
<1>17. E[Len(E)] = Checksum(D)
  BY <1>9
<1>18. EncodedAs(E, e)
  BY <1>3, <1>4, <1>5, <1>8, <1>9, <1>10, <1>11, <1>13, <1>14, <1>15, <1>16, <1>17
  DEF EncodedAs, c, i, p
<1> QED  BY <1>1, <1>18

-----------------------------------------------------------------------------
(* Reading an entry.                                                       *)

\* Where the checksum of an entry is that begins at pos, if it is there.
SumAt(file, pos) ==
  FieldAt(file, FieldAt(file, FieldAt(file, pos + 1).next).next).next

\* The three lengths lie in the file, and the checksum.
EntryFits(file, pos) ==
  /\ FieldFits(file, pos + 1)
  /\ FieldFits(file, FieldAt(file, pos + 1).next)
  /\ FieldFits(file, FieldAt(file, FieldAt(file, pos + 1).next).next)
  /\ SumAt(file, pos) <= Len(file)

LEMMA SizeIs ==
  ASSUME NEW file, NEW pos
  PROVE  SizeAt(file, pos) = IF EntryFits(file, pos) THEN SumAt(file, pos) - pos + 1 ELSE 0
  BY DEF SizeAt, EntryFits, SumAt

LEMMA DecodeIs ==
  ASSUME NEW units, Len(units) >= 5, units[1][1] \in EntryTypes, EntryFits(units, 1),
         NEW sum, sum = SumAt(units, 1)
  PROVE  /\ units[sum] # Checksum(SubSeq(units, 1, sum - 1)) =>
              Decode(units) = [result |-> "corrupted"]
         /\ units[sum] = Checksum(SubSeq(units, 1, sum - 1)) =>
              Decode(units) =
                [result |-> "entry",
                 entry  |-> [type       |-> units[1][1],
                             collection |-> FieldAt(units, 2).bytes,
                             id         |-> FieldAt(units, FieldAt(units, 2).next).bytes,
                             payload    |-> FieldAt(units, FieldAt(units,
                                              FieldAt(units, 2).next).next).bytes]]
<1>1. 1 + 1 = 2
  OBVIOUS
<1>2. ~(Len(units) < 5)
  <2>1. Len(units) >= 5
    OBVIOUS
  <2> QED  BY <2>1
<1> QED  BY <1>1, <1>2 DEF Decode, EntryFits, SumAt

\* The places of the lengths and of the checksum, by the lengths before them.
LEMMA SumPlace ==
  ASSUME NEW file, NEW pos \in Nat, NEW c \in Nat, NEW i \in Nat, NEW p \in Nat,
         file[pos + 1][1] = c, file[pos + c + 2][1] = i, file[pos + c + i + 3][1] = p
  PROVE  /\ FieldAt(file, pos + 1).next = pos + c + 2
         /\ FieldAt(file, pos + c + 2).next = pos + c + i + 3
         /\ FieldAt(file, pos + c + i + 3).next = pos + c + i + p + 4
         /\ SumAt(file, pos) = pos + c + i + p + 4
         /\ EntryFits(file, pos) <=> /\ pos + 1 <= Len(file) /\ pos + 1 + c <= Len(file)
                                     /\ pos + c + 2 <= Len(file)
                                     /\ pos + c + 2 + i <= Len(file)
                                     /\ pos + c + i + 3 <= Len(file)
                                     /\ pos + c + i + 3 + p <= Len(file)
                                     /\ pos + c + i + p + 4 <= Len(file)
<1>1. FieldAt(file, pos + 1).next = pos + c + 2
  BY DEF FieldAt
<1>2. FieldAt(file, pos + c + 2).next = pos + c + i + 3
  BY DEF FieldAt
<1>3. FieldAt(file, pos + c + i + 3).next = pos + c + i + p + 4
  BY DEF FieldAt
<1>4. SumAt(file, pos) = pos + c + i + p + 4
  BY <1>1, <1>2, <1>3 DEF SumAt
<1> QED  BY <1>1, <1>2, <1>3, <1>4 DEF EntryFits, FieldFits

\* An entry that fits the file has three lengths.
LEMMA Lengths ==
  ASSUME NEW file \in Seq(Units), NEW pos \in 1 .. Len(file), EntryFits(file, pos)
  PROVE  \E c, i, p \in Nat :
           /\ file[pos + 1][1] = c /\ file[pos + c + 2][1] = i
           /\ file[pos + c + i + 3][1] = p
           /\ pos + c + i + p + 4 <= Len(file)
<1> DEFINE c == file[pos + 1][1]
           i == file[pos + c + 2][1]
           p == file[pos + c + i + 3][1]
<1>0. Len(file) \in Nat /\ \A k \in 1 .. Len(file) : file[k][1] \in Nat
  BY UnitFacts
<1>1. pos + 1 <= Len(file)
  BY DEF EntryFits, FieldFits
<1>2. c \in Nat
  BY <1>0, <1>1
<1>3. FieldAt(file, pos + 1).next = pos + c + 2
  <2>1. file[pos + 1][1] = c
    BY DEF c
  <2> HIDE DEF c
  <2> QED  BY <1>2, <2>1 DEF FieldAt
<1>4. pos + c + 2 <= Len(file)
  BY <1>3 DEF EntryFits, FieldFits
<1> HIDE DEF c
<1>5. i \in Nat
  <2>1. pos + c + 2 \in 1 .. Len(file)
    BY <1>0, <1>2, <1>4
  <2> QED  BY <1>0, <2>1
<1>6. FieldAt(file, pos + c + 2).next = pos + c + i + 3
  BY <1>2, <1>5 DEF FieldAt
<1>7. pos + c + i + 3 <= Len(file)
  BY <1>3, <1>6 DEF EntryFits, FieldFits
<1> HIDE DEF i
<1>8. p \in Nat
  <2>1. pos + c + i + 3 \in 1 .. Len(file)
    BY <1>0, <1>2, <1>5, <1>7
  <2> QED  BY <1>0, <2>1
<1>9. FieldAt(file, pos + c + i + 3).next = pos + c + i + p + 4
  BY <1>2, <1>5, <1>8 DEF FieldAt
<1>10. pos + c + i + p + 4 <= Len(file)
  BY <1>3, <1>6, <1>9 DEF EntryFits, SumAt
<1> QED  BY <1>2, <1>5, <1>8, <1>10 DEF c, i, p

\* The slice that the reader hands to decode is one whole entry by its lengths:
\* only the checksum, its last unit, can be wrong.
LEMMA Decoded ==
  ASSUME NEW file \in Seq(Units), NEW pos \in 1 .. Len(file),
         file[pos][1] \in EntryTypes, SizeAt(file, pos) # 0
  PROVE  LET n == SizeAt(file, pos)
             d == Decode(SubSeq(file, pos, pos + n - 1))
         IN  /\ n \in Nat /\ n >= 5 /\ pos + n - 1 <= Len(file)
             /\ d.result \in {"entry", "corrupted"}
             /\ d.result = "entry" =>
                  file[pos + n - 1] = Checksum(SubSeq(file, pos, pos + n - 2))
<1>1. EntryFits(file, pos) /\ SizeAt(file, pos) = SumAt(file, pos) - pos + 1
  BY SizeIs
<1>2. PICK c, i, p \in Nat :
        /\ file[pos + 1][1] = c /\ file[pos + c + 2][1] = i
        /\ file[pos + c + i + 3][1] = p
        /\ pos + c + i + p + 4 <= Len(file)
  BY <1>1, Lengths
<1>3. Len(file) \in Nat /\ pos \in Nat
  OBVIOUS
<1>4. SumAt(file, pos) = pos + c + i + p + 4
  BY <1>2, <1>3, SumPlace
<1> DEFINE n == c + i + p + 5
           s == SubSeq(file, pos, pos + n - 1)
<1>5. n \in 5 .. Len(file) /\ pos + n - 1 <= Len(file) /\ SizeAt(file, pos) = n
  <2>1. pos >= 1 /\ pos + c + i + p + 4 <= Len(file)
    BY <1>2
  <2>2. n \in 5 .. Len(file) /\ pos + n - 1 <= Len(file)
    BY <1>3, <2>1
  <2>3. SizeAt(file, pos) = n
    <3>1. SizeAt(file, pos) = pos + c + i + p + 4 - pos + 1
      BY <1>1, <1>4
    <3> QED  BY <1>3, <3>1
  <2> QED  BY <2>2, <2>3
<1>6. s \in Seq(Units) /\ Len(s) = n /\ \A k \in 1 .. n : s[k] = file[pos + k - 1]
  <2> HIDE DEF n
  <2>1. pos \in 1 .. Len(file) + 1 /\ n \in 0 .. Len(file)
    BY <1>3, <1>5
  <2> QED  BY <1>5, <2>1, PartFacts
<1>7. s[1] = file[pos] /\ s[2] = file[pos + 1] /\ s[1 + c + 2] = file[pos + c + 2]
      /\ s[1 + c + i + 3] = file[pos + c + i + 3] /\ s[n] = file[pos + n - 1]
  <2> HIDE DEF s
  <2>1. /\ 1 \in 1 .. n /\ pos + 1 - 1 = pos
        /\ 2 \in 1 .. n /\ pos + 2 - 1 = pos + 1
        /\ 1 + c + 2 \in 1 .. n /\ pos + (1 + c + 2) - 1 = pos + c + 2
        /\ 1 + c + i + 3 \in 1 .. n /\ pos + (1 + c + i + 3) - 1 = pos + c + i + 3
        /\ n \in 1 .. n
    BY <1>3
  <2> QED  BY <1>6, <2>1
<1> HIDE DEF s
<1>8. s[1 + 1][1] = c /\ s[1 + c + 2][1] = i /\ s[1 + c + i + 3][1] = p
  BY <1>2, <1>7
<1>9. /\ SumAt(s, 1) = 1 + c + i + p + 4
      /\ EntryFits(s, 1) <=> /\ 1 + 1 <= Len(s) /\ 1 + 1 + c <= Len(s)
                             /\ 1 + c + 2 <= Len(s) /\ 1 + c + 2 + i <= Len(s)
                             /\ 1 + c + i + 3 <= Len(s) /\ 1 + c + i + 3 + p <= Len(s)
                             /\ 1 + c + i + p + 4 <= Len(s)
  BY <1>8, SumPlace
<1>10. SumAt(s, 1) = n /\ EntryFits(s, 1) /\ Len(s) >= 5
  <2>1. Len(s) = c + i + p + 5
    BY <1>6
  <2>2. SumAt(s, 1) = n
    BY <1>9
  <2>3. EntryFits(s, 1)
    BY <1>9, <2>1
  <2> QED  BY <2>1, <2>2, <2>3
<1>11. s[1][1] \in EntryTypes
  BY <1>7
<1>12. SubSeq(s, 1, n - 1) = SubSeq(file, pos, pos + n - 2)
  <2> HIDE DEF n
  <2>1. /\ SubSeq(s, 1, 1 + (n - 1) - 1) \in Seq(Units)
        /\ Len(SubSeq(s, 1, 1 + (n - 1) - 1)) = n - 1
        /\ \A k \in 1 .. n - 1 : SubSeq(s, 1, 1 + (n - 1) - 1)[k] = s[1 + k - 1]
    <3>1. 1 \in 1 .. Len(s) + 1 /\ n - 1 \in 0 .. Len(s) /\ 1 + (n - 1) - 1 <= Len(s)
      BY <1>5, <1>6
    <3> QED  BY <1>6, <3>1, PartFacts
  <2>2. /\ SubSeq(file, pos, pos + (n - 1) - 1) \in Seq(Units)
        /\ Len(SubSeq(file, pos, pos + (n - 1) - 1)) = n - 1
        /\ \A k \in 1 .. n - 1 : SubSeq(file, pos, pos + (n - 1) - 1)[k] = file[pos + k - 1]
    <3>1. pos \in 1 .. Len(file) + 1 /\ n - 1 \in 0 .. Len(file)
          /\ pos + (n - 1) - 1 <= Len(file)
      BY <1>3, <1>5
    <3> QED  BY <3>1, PartFacts
  <2>3. 1 + (n - 1) - 1 = n - 1 /\ pos + (n - 1) - 1 = pos + n - 2
    BY <1>3, <1>5
  <2>4. \A k \in 1 .. n - 1 : k \in 1 .. n /\ 1 + k - 1 = k
    BY <1>5
  <2>5. ASSUME NEW k \in 1 .. n - 1
        PROVE  SubSeq(s, 1, n - 1)[k] = SubSeq(file, pos, pos + n - 2)[k]
    <3>1. SubSeq(s, 1, n - 1)[k] = s[1 + k - 1] /\ s[1 + k - 1] = s[k]
      BY <2>1, <2>3, <2>4
    <3>2. SubSeq(file, pos, pos + n - 2)[k] = file[pos + k - 1]
      BY <2>2, <2>3
    <3>3. s[k] = file[pos + k - 1]
      BY <1>6, <2>4
    <3> QED  BY <3>1, <3>2, <3>3
  <2> QED  BY <2>1, <2>2, <2>3, <2>5, SameSequence
<1> HIDE DEF n
<1>13. /\ s[n] # Checksum(SubSeq(s, 1, n - 1)) => Decode(s).result = "corrupted"
       /\ s[n] = Checksum(SubSeq(s, 1, n - 1)) => Decode(s).result = "entry"
  BY <1>10, <1>11, DecodeIs
<1>14. /\ Decode(s).result \in {"entry", "corrupted"}
       /\ Decode(s).result = "entry" => s[n] = Checksum(SubSeq(s, 1, n - 1))
  BY <1>13
<1>15. Decode(s).result = "entry" =>
         file[pos + n - 1] = Checksum(SubSeq(file, pos, pos + n - 2))
  BY <1>7, <1>12, <1>14
<1>16. n \in Nat /\ n >= 5
  BY <1>5
<1> QED  BY <1>5, <1>14, <1>15, <1>16 DEF s

\* An entry with fields of c, i and p bytes fits in the file at pos.
HasLengths(file, pos, c, i, p) ==
  /\ file[pos + 1][1] = c /\ file[pos + c + 2][1] = i /\ file[pos + c + i + 3][1] = p
  /\ Len(file) \in Nat /\ pos + c + i + p + 4 <= Len(file)

LEMMA LengthsFit ==
  ASSUME NEW file, NEW pos \in Nat, NEW c \in Nat, NEW i \in Nat, NEW p \in Nat,
         HasLengths(file, pos, c, i, p)
  PROVE  EntryFits(file, pos) /\ SizeAt(file, pos) = c + i + p + 5
<1>1. /\ file[pos + 1][1] = c /\ file[pos + c + 2][1] = i
      /\ file[pos + c + i + 3][1] = p
      /\ Len(file) \in Nat /\ pos + c + i + p + 4 <= Len(file)
  BY DEF HasLengths
<1>2. FieldAt(file, pos + 1).next = pos + c + 2
  BY <1>1 DEF FieldAt
<1>3. FieldAt(file, pos + c + 2).next = pos + c + i + 3
  BY <1>1 DEF FieldAt
<1>4. FieldAt(file, pos + c + i + 3).next = pos + c + i + p + 4
  BY <1>1 DEF FieldAt
<1>5. SumAt(file, pos) = pos + c + i + p + 4
  BY <1>2, <1>3, <1>4 DEF SumAt
<1>6. EntryFits(file, pos)
  BY <1>1, <1>2, <1>3, <1>4, <1>5 DEF EntryFits, FieldFits
<1>7. SizeAt(file, pos) = pos + c + i + p + 4 - pos + 1
  BY <1>5, <1>6, SizeIs
<1> QED  BY <1>6, <1>7

LEMMA SeqEta ==
  ASSUME NEW S, NEW s \in Seq(S), NEW n, n = Len(s)
  PROVE  s = [k \in 1 .. n |-> s[k]]
  OBVIOUS

\* decode is the inverse of encode.
LEMMA EncodedDecodes ==
  ASSUME NEW e \in WalEntries
  PROVE  Decode(Encode(e)) = [result |-> "entry", entry |-> e]
<1> DEFINE E == Encode(e)
<1>1. EncodedAs(E, e)
  BY Encoded
<1>a. PICK c, i, p \in Nat : c = Len(e.collection) /\ i = Len(e.id) /\ p = Len(e.payload)
  BY <1>1 DEF EncodedAs
<1> DEFINE n == c + i + p + 5
<1> HIDE DEF E
<1>2. /\ E \in Seq(Units) /\ Len(E) = n
      /\ E[n] = Checksum(SubSeq(E, 1, n - 1))
      /\ E[1] = <<e.type>>
      /\ E[2] = <<c>> /\ \A k \in 1 .. c : E[2 + k] = <<e.collection[k]>>
      /\ E[3 + c] = <<i>> /\ \A k \in 1 .. i : E[3 + c + k] = <<e.id[k]>>
      /\ E[4 + c + i] = <<p>> /\ \A k \in 1 .. p : E[4 + c + i + k] = <<e.payload[k]>>
  BY <1>1, <1>a DEF EncodedAs
<1>7. /\ E[1 + 1][1] = c /\ E[1 + c + 2][1] = i /\ E[1 + c + i + 3][1] = p
  <2>1. 1 + 1 = 2 /\ 1 + c + 2 = 3 + c /\ 1 + c + i + 3 = 4 + c + i
    OBVIOUS
  <2>2. E[2][1] = c /\ E[3 + c][1] = i /\ E[4 + c + i][1] = p
    BY <1>2
  <2> QED  BY <2>1, <2>2
<1>8. /\ FieldAt(E, 1 + 1).next = 1 + c + 2
      /\ FieldAt(E, 1 + c + 2).next = 1 + c + i + 3
      /\ SumAt(E, 1) = 1 + c + i + p + 4
  BY <1>7, SumPlace
<1>9. SumAt(E, 1) = n /\ EntryFits(E, 1) /\ Len(E) >= 5
  <2>1. Len(E) = c + i + p + 5 /\ Len(E) \in Nat /\ 1 + c + i + p + 4 <= Len(E)
    BY <1>2
  <2>2. SumAt(E, 1) = n
    BY <1>8
  <2>3. EntryFits(E, 1)
    BY <1>7, <2>1, LengthsFit DEF HasLengths
  <2> QED  BY <2>1, <2>2, <2>3
<1>10. FieldAt(E, 2).next = 3 + c /\ FieldAt(E, 3 + c).next = 4 + c + i
  <2>1. 1 + 1 = 2 /\ 1 + c + 2 = 3 + c /\ 1 + c + i + 3 = 4 + c + i
    BY <1>2
  <2> QED  BY <1>8, <2>1
<1>11. e.type \in EntryTypes
  BY EntryTyped
<1>12. /\ FieldAt(E, 2).bytes = e.collection
       /\ FieldAt(E, 3 + c).bytes = e.id
       /\ FieldAt(E, 4 + c + i).bytes = e.payload
  <2>1. e.collection \in Seq(Nat) /\ e.id \in Seq(Nat) /\ e.payload \in Seq(Nat)
    BY EntryTyped
  <2>2. /\ e.collection = [k \in 1 .. c |-> e.collection[k]]
        /\ e.id = [k \in 1 .. i |-> e.id[k]]
        /\ e.payload = [k \in 1 .. p |-> e.payload[k]]
    BY <1>a, <2>1, SeqEta
  <2>3. FieldAt(E, 2).bytes = [k \in 1 .. c |-> e.collection[k]]
    <3>1. FieldAt(E, 2).bytes = [k \in 1 .. E[2][1] |-> E[2 + k][1]]
      BY DEF FieldAt
    <3>2. E[2][1] = c /\ \A k \in 1 .. c : E[2 + k][1] = e.collection[k]
      BY <1>2
    <3> QED  BY <3>1, <3>2
  <2>4. FieldAt(E, 3 + c).bytes = [k \in 1 .. i |-> e.id[k]]
    <3>1. FieldAt(E, 3 + c).bytes = [k \in 1 .. E[3 + c][1] |-> E[3 + c + k][1]]
      BY DEF FieldAt
    <3>2. E[3 + c][1] = i /\ \A k \in 1 .. i : E[3 + c + k][1] = e.id[k]
      BY <1>2
    <3> QED  BY <3>1, <3>2
  <2>5. FieldAt(E, 4 + c + i).bytes = [k \in 1 .. p |-> e.payload[k]]
    <3>1. FieldAt(E, 4 + c + i).bytes
            = [k \in 1 .. E[4 + c + i][1] |-> E[4 + c + i + k][1]]
      BY DEF FieldAt
    <3>2. E[4 + c + i][1] = p /\ \A k \in 1 .. p : E[4 + c + i + k][1] = e.payload[k]
      BY <1>2
    <3> QED  BY <3>1, <3>2
  <2> QED  BY <2>2, <2>3, <2>4, <2>5
<1>13. Decode(E) = [result |-> "entry",
                    entry  |-> [type |-> E[1][1], collection |-> e.collection,
                                id |-> e.id, payload |-> e.payload]]
  <2>1. E[1][1] \in EntryTypes /\ E[1][1] = e.type
    BY <1>2, <1>11
  <2>2. E[n] = Checksum(SubSeq(E, 1, n - 1))
    BY <1>2
  <2> HIDE DEF n
  <2>3. Decode(E) = [result |-> "entry",
                     entry  |-> [type       |-> E[1][1],
                                 collection |-> FieldAt(E, 2).bytes,
                                 id         |-> FieldAt(E, FieldAt(E, 2).next).bytes,
                                 payload    |-> FieldAt(E, FieldAt(E,
                                                  FieldAt(E, 2).next).next).bytes]]
    BY <1>9, <2>1, <2>2, DecodeIs
  <2> QED  BY <1>10, <1>12, <2>3
<1> QED
  <2>1. E[1][1] = e.type
    BY <1>2
  <2>2. e = [type |-> e.type, collection |-> e.collection, id |-> e.id, payload |-> e.payload]
    BY EntryTyped
  <2> QED  BY <1>13, <2>1, <2>2 DEF E

\* The units of s stand in the file from pos on.
IsAt(file, pos, s) ==
  /\ pos + Len(s) - 1 <= Len(file)
  /\ \A k \in 1 .. Len(s) : file[pos + k - 1] = s[k]

\* A whole entry in the file is read as that entry.
LEMMA WholeEntry ==
  ASSUME NEW file \in Seq(Units), NEW pos \in 1 .. Len(file), NEW e \in WalEntries,
         IsAt(file, pos, Encode(e))
  PROVE  /\ Len(Encode(e)) \in Nat /\ Len(Encode(e)) >= 5
         /\ file[pos][1] \in EntryTypes
         /\ SizeAt(file, pos) = Len(Encode(e))
         /\ Decode(SubSeq(file, pos, pos + Len(Encode(e)) - 1)) =
              [result |-> "entry", entry |-> e]
<1> DEFINE E == Encode(e)
<1>1. EncodedAs(E, e)
  BY Encoded
<1>a. PICK c, i, p \in Nat : c = Len(e.collection) /\ i = Len(e.id) /\ p = Len(e.payload)
  BY <1>1 DEF EncodedAs
<1> DEFINE n == c + i + p + 5
<1> HIDE DEF E
<1>2. /\ E \in Seq(Units) /\ Len(E) = n
      /\ E[1] = <<e.type>> /\ E[2] = <<c>> /\ E[3 + c] = <<i>> /\ E[4 + c + i] = <<p>>
  BY <1>1, <1>a DEF EncodedAs
<1>3. Len(file) \in Nat /\ pos \in Nat /\ pos + n - 1 <= Len(file)
      /\ \A k \in 1 .. n : file[pos + k - 1] = E[k]
  <2>1. Len(file) \in Nat /\ pos \in Nat
    OBVIOUS
  <2>2. Len(Encode(e)) = n
    BY <1>2 DEF E
  <2> HIDE DEF n
  <2> QED  BY <2>1, <2>2 DEF E, IsAt
<1>4. SubSeq(file, pos, pos + n - 1) = E
  <2>1. pos \in 1 .. Len(file) + 1 /\ n \in 0 .. Len(file)
    BY <1>2, <1>3
  <2> HIDE DEF n
  <2>2. /\ SubSeq(file, pos, pos + n - 1) \in Seq(Units)
        /\ Len(SubSeq(file, pos, pos + n - 1)) = n
        /\ \A k \in 1 .. n : SubSeq(file, pos, pos + n - 1)[k] = file[pos + k - 1]
    BY <1>3, <2>1, PartFacts
  <2> QED  BY <1>2, <1>3, <2>2, SameSequence
<1>5. file[pos][1] = e.type /\ file[pos + 1][1] = c /\ file[pos + c + 2][1] = i
      /\ file[pos + c + i + 3][1] = p
  <2>1. /\ 1 \in 1 .. n /\ pos + 1 - 1 = pos
        /\ 2 \in 1 .. n /\ pos + 2 - 1 = pos + 1
        /\ 3 + c \in 1 .. n /\ pos + (3 + c) - 1 = pos + c + 2
        /\ 4 + c + i \in 1 .. n /\ pos + (4 + c + i) - 1 = pos + c + i + 3
    BY <1>2, <1>3
  <2>2. file[pos] = E[1] /\ file[pos + 1] = E[2] /\ file[pos + c + 2] = E[3 + c]
        /\ file[pos + c + i + 3] = E[4 + c + i]
    BY <1>3, <2>1
  <2> QED  BY <1>2, <2>2
<1>6. SizeAt(file, pos) = n
  <2>1. pos + c + i + p + 4 <= Len(file) /\ Len(file) \in Nat /\ pos \in Nat
    BY <1>3
  <2>2. HasLengths(file, pos, c, i, p)
    BY <1>5, <2>1 DEF HasLengths
  <2> QED  BY <2>1, <2>2, LengthsFit
<1>7. Decode(E) = [result |-> "entry", entry |-> e] /\ Len(Encode(e)) = n /\ Encode(e) = E
  BY <1>2, EncodedDecodes DEF E
<1>8. e.type \in EntryTypes /\ n >= 5 /\ n \in Nat
  BY EntryTyped
<1> HIDE DEF n
<1> QED  BY <1>4, <1>5, <1>6, <1>7, <1>8

-----------------------------------------------------------------------------
(* How many units the first entries take.                                  *)

LEMMA EncodedLength == \A e \in WalEntries : Len(Encode(e)) \in Nat /\ Len(Encode(e)) >= 5
<1> SUFFICES ASSUME NEW e \in WalEntries PROVE Len(Encode(e)) \in Nat /\ Len(Encode(e)) >= 5
  OBVIOUS
<1>1. PICK c, i, p \in Nat : Len(Encode(e)) = c + i + p + 5
  BY Encoded DEF EncodedAs
<1> QED  BY <1>1

LEMMA UnitsSteps ==
  ASSUME NEW w \in Seq(WalEntries)
  PROVE  /\ UnitsOf(w, 0) = 0
         /\ \A k \in 1 .. Len(w) : UnitsOf(w, k) = UnitsOf(w, k - 1) + Len(Encode(w[k]))
         /\ \A k \in 0 .. Len(w) : UnitsOf(w, k) \in Nat
<1> DEFINE N == Len(w)
           L(n) == Len(Encode(w[n]))
           turnAt == [n \in 1 .. N |-> [u \in Nat |-> u + L(n)]]
           Good(f) == f = [n \in 0 .. N |-> IF n = 0 THEN 0 ELSE f[n - 1] + Len(Encode(w[n]))]
           k == CHOOSE f : Good(f)
<1>1. N \in Nat /\ \A n \in 1 .. N : L(n) \in Nat
  BY EncodedLength
<1>2. \A n : UnitsOf(w, n) = k[n]
  BY DEF UnitsOf
<1>3. \A f : Good(f) <=> f = [n \in 0 .. N |-> IF n = 0 THEN 0 ELSE f[n - 1] + L(n)]
  OBVIOUS
<1> HIDE DEF N, L, Good
<1>4. turnAt \in [1 .. N -> [Nat -> Nat]] /\ \A n \in 1 .. N, u \in Nat : turnAt[n][u] = u + L(n)
  BY <1>1
<1>5. \E f : Good(f)
  <2> HIDE DEF turnAt
  <2>1. IsRecursion(N, Nat, 0, turnAt)
    BY <1>1, <1>4 DEF IsRecursion
  <2>2. PICK f : SolvesRecursion(f, N, Nat, 0, turnAt)
    BY <2>1, RecursionSolved
  <2>3. f \in [0 .. N -> Nat] /\ f[0] = 0 /\ \A n \in 1 .. N : f[n] = turnAt[n][f[n - 1]]
    BY <2>2 DEF SolvesRecursion
  <2>4. \A n \in 1 .. N : f[n - 1] \in Nat
    BY <1>1, <2>3
  <2>5. \A n \in 1 .. N : f[n] = f[n - 1] + L(n)
    BY <1>4, <2>3, <2>4
  <2>6. f = [n \in 0 .. N |-> IF n = 0 THEN 0 ELSE f[n - 1] + L(n)]
    BY <1>1, <2>3, <2>5
  <2> QED  BY <1>3, <2>6
<1>6. Good(k)
  BY <1>5
<1> HIDE DEF k
<1>7. k[0] = 0 /\ \A n \in 1 .. N : k[n] = k[n - 1] + L(n)
  BY <1>1, <1>3, <1>6
<1>8. \A n \in 0 .. N : k[n] \in Nat
  <2> DEFINE T == {n \in 0 .. N : k[n] \in Nat}
  <2>1. 0 \in T
    BY <1>1, <1>7
  <2>2. \A n \in 0 .. N : n < N /\ n \in T => n + 1 \in T
    <3> SUFFICES ASSUME NEW n \in 0 .. N, n < N, k[n] \in Nat
                 PROVE  k[n + 1] \in Nat
      BY <1>1
    <3>1. n + 1 \in 1 .. N /\ (n + 1) - 1 = n
      BY <1>1
    <3>2. k[n + 1] = k[n] + L(n + 1) /\ L(n + 1) \in Nat
      BY <1>1, <1>7, <3>1
    <3> QED  BY <3>2
  <2> HIDE DEF T
  <2>3. \A n \in 0 .. N : n \in T
    BY <1>1, <2>1, <2>2, InductionUpTo
  <2> QED  BY <2>3 DEF T
<1> QED  BY <1>2, <1>7, <1>8 DEF N, L

\* They take more, the more there are, and lists that begin alike agree.
LEMMA UnitsGrow ==
  ASSUME NEW w \in Seq(WalEntries), NEW j \in 0 .. Len(w)
  PROVE  \A k \in j .. Len(w) : UnitsOf(w, j) + (k - j) <= UnitsOf(w, k)
<1> DEFINE N == Len(w) - j
           T == {n \in 0 .. N : UnitsOf(w, j) + n <= UnitsOf(w, j + n)}
<1>1. N \in Nat /\ Len(w) \in Nat /\ j \in Nat
  OBVIOUS
<1>2. 0 \in T
  <2>1. UnitsOf(w, j) \in Nat /\ j + 0 = j
    BY UnitsSteps
  <2> QED  BY <1>1, <2>1
<1>3. \A n \in 0 .. N : n < N /\ n \in T => n + 1 \in T
  <2> SUFFICES ASSUME NEW n \in 0 .. N, n < N, UnitsOf(w, j) + n <= UnitsOf(w, j + n)
               PROVE  UnitsOf(w, j) + (n + 1) <= UnitsOf(w, j + (n + 1))
    BY <1>1
  <2> DEFINE m == j + (n + 1)
  <2>1. m \in 1 .. Len(w) /\ m - 1 = j + n /\ j + n \in 0 .. Len(w)
    BY <1>1
  <2> HIDE DEF m
  <2>2. UnitsOf(w, m) = UnitsOf(w, j + n) + Len(Encode(w[m]))
    BY <2>1, UnitsSteps
  <2>3. w[m] \in WalEntries
    BY <2>1
  <2>4. Len(Encode(w[m])) \in Nat /\ Len(Encode(w[m])) >= 5
    BY <2>3, EncodedLength
  <2>5. UnitsOf(w, j) \in Nat /\ UnitsOf(w, j + n) \in Nat
    BY <2>1, UnitsSteps
  <2>6. UnitsOf(w, j) + (n + 1) <= UnitsOf(w, m)
    BY <2>2, <2>4, <2>5
  <2> QED  BY <2>6 DEF m
<1> HIDE DEF T
<1>4. \A n \in 0 .. N : n \in T
  <2> HIDE DEF N
  <2> QED  BY <1>1, <1>2, <1>3, InductionUpTo
<1>5. ASSUME NEW k \in j .. Len(w)
      PROVE  UnitsOf(w, j) + (k - j) <= UnitsOf(w, k)
  <2>1. k - j \in 0 .. N /\ j + (k - j) = k
    BY <1>1
  <2> QED  BY <1>4, <2>1 DEF T
<1> QED  BY <1>5

LEMMA UnitsAgree ==
  ASSUME NEW v \in Seq(WalEntries), NEW w \in Seq(WalEntries), NEW m \in Nat,
         m <= Len(v), m <= Len(w), \A k \in 1 .. m : v[k] = w[k]
  PROVE  \A k \in 0 .. m : UnitsOf(v, k) = UnitsOf(w, k)
<1> DEFINE T == {n \in 0 .. m : UnitsOf(v, n) = UnitsOf(w, n)}
<1>1. 0 \in T
  BY UnitsSteps
<1>2. \A n \in 0 .. m : n < m /\ n \in T => n + 1 \in T
  <2> SUFFICES ASSUME NEW n \in 0 .. m, n < m, UnitsOf(v, n) = UnitsOf(w, n)
               PROVE  UnitsOf(v, n + 1) = UnitsOf(w, n + 1)
    OBVIOUS
  <2>1. n + 1 \in 1 .. Len(v) /\ n + 1 \in 1 .. Len(w) /\ (n + 1) - 1 = n
    OBVIOUS
  <2>2. v[n + 1] = w[n + 1]
    OBVIOUS
  <2>3. UnitsOf(v, n + 1) = UnitsOf(v, n) + Len(Encode(v[n + 1]))
    BY <2>1, UnitsSteps
  <2>4. UnitsOf(w, n + 1) = UnitsOf(w, n) + Len(Encode(w[n + 1]))
    BY <2>1, UnitsSteps
  <2> QED  BY <2>2, <2>3, <2>4
<1> HIDE DEF T
<1>3. \A n \in 0 .. m : n \in T
  BY <1>1, <1>2, InductionUpTo
<1> QED  BY <1>3 DEF T

\* Every unit of the first entries is in one of them.
LEMMA Located ==
  ASSUME NEW w \in Seq(WalEntries), NEW j \in 1 .. UnitsOf(w, Len(w))
  PROVE  \E k \in 1 .. Len(w) : UnitsOf(w, k - 1) < j /\ j <= UnitsOf(w, k)
<1> DEFINE N == Len(w)
           Found(n) == \E k \in 1 .. n : UnitsOf(w, k - 1) < j /\ j <= UnitsOf(w, k)
           T == {n \in 0 .. N : j <= UnitsOf(w, n) => Found(n)}
<1>1. N \in Nat /\ UnitsOf(w, 0) = 0 /\ \A n \in 0 .. N : UnitsOf(w, n) \in Nat
  BY UnitsSteps
<1>2. 0 \in T
  BY <1>1
<1>3. \A n \in 0 .. N : n < N /\ n \in T => n + 1 \in T
  <2> SUFFICES ASSUME NEW n \in 0 .. N, n < N, j <= UnitsOf(w, n) => Found(n),
                      j <= UnitsOf(w, n + 1)
               PROVE  Found(n + 1)
    BY <1>1
  <2>1. CASE j <= UnitsOf(w, n)
    <3>1. PICK k \in 1 .. n : UnitsOf(w, k - 1) < j /\ j <= UnitsOf(w, k)
      BY <2>1
    <3>2. k \in 1 .. (n + 1)
      OBVIOUS
    <3> QED  BY <3>1, <3>2
  <2>2. CASE ~(j <= UnitsOf(w, n))
    <3>1. UnitsOf(w, n) < j
      BY <1>1, <2>2
    <3>2. (n + 1) - 1 = n /\ n + 1 \in 1 .. (n + 1)
      OBVIOUS
    <3> QED  BY <3>1, <3>2
  <2> QED  BY <2>1, <2>2
<1> HIDE DEF T
<1>4. N \in T
  <2> HIDE DEF N
  <2>1. \A n \in 0 .. N : n \in T
    BY <1>1, <1>2, <1>3, InductionUpTo
  <2> QED  BY <1>1, <2>1
<1> QED  BY <1>1, <1>4 DEF T

-----------------------------------------------------------------------------
(* The turns of the reader.                                                *)

\* What decode makes of a part of the file, and where the reader can be.
Read(file) == {Decode(SubSeq(file, a, b)).entry : a \in Nat, b \in Int}
\* What it can report: see Decoded for why decode never panics.
Results == {"reading", "ok", "error"}
Readers(file) == [pos : Nat \ {0}, entries : Seq(Read(file)), result : Results]
ReaderStart == [pos |-> 1, entries |-> <<>>, result |-> "reading"]

LEMMA ReadNextType ==
  ASSUME NEW file \in Seq(Units), NEW r \in Readers(file)
  PROVE  ReadNext(file, r) \in Readers(file)
<1> DEFINE size == SizeAt(file, r.pos)
           d == Decode(SubSeq(file, r.pos, r.pos + size - 1))
<1>1. r.pos \in Nat /\ r.pos >= 1 /\ r.entries \in Seq(Read(file)) /\ Len(file) \in Nat
      /\ r = [pos |-> r.pos, entries |-> r.entries, result |-> r.result]
      /\ r.result \in Results /\ {"ok", "error"} \subseteq Results
  BY DEF Readers, Results
<1>2. CASE r.result # "reading"
  BY <1>2 DEF ReadNext
<1>3. CASE r.result = "reading" /\ r.pos > Len(file)
  <2>1. ReadNext(file, r) = [r EXCEPT !.result = "ok"]
    BY <1>3 DEF ReadNext
  <2> QED  BY <1>1, <2>1 DEF Readers
<1>4. CASE /\ r.result = "reading" /\ ~(r.pos > Len(file))
           /\ file[r.pos][1] \notin EntryTypes \/ size = 0
  <2>1. ReadNext(file, r) = [r EXCEPT !.result = "error", !.entries = <<>>]
    BY <1>4 DEF ReadNext
  <2>2. <<>> \in Seq(Read(file))
    OBVIOUS
  <2>3. ReadNext(file, r) = [pos |-> r.pos, entries |-> <<>>, result |-> "error"]
    BY <1>1, <2>1
  <2> QED  BY <1>1, <2>2, <2>3 DEF Readers
<1>5. CASE /\ r.result = "reading" /\ ~(r.pos > Len(file))
           /\ file[r.pos][1] \in EntryTypes /\ size # 0
  <2>1. r.pos \in 1 .. Len(file)
    BY <1>1, <1>5
  <2>2. size \in Nat /\ d.result \in {"entry", "corrupted"}
    BY <1>5, <2>1, Decoded
  <2>3. d.entry \in Read(file)
    <3>1. r.pos \in Nat /\ r.pos + size - 1 \in Int
      BY <1>1, <2>2
    <3> QED  BY <3>1 DEF Read
  <2>4. ReadNext(file, r) =
          CASE d.result = "entry" ->
                  [r EXCEPT !.pos = r.pos + size, !.entries = Append(r.entries, d.entry)]
             [] d.result = "corrupted" -> [r EXCEPT !.result = "ok"]
             [] OTHER -> [r EXCEPT !.result = d.result, !.entries = <<>>]
    BY <1>5 DEF ReadNext
  <2> HIDE DEF d, size
  <2>5. CASE d.result = "entry"
    <3>1. ReadNext(file, r)
            = [r EXCEPT !.pos = r.pos + size, !.entries = Append(r.entries, d.entry)]
      BY <2>4, <2>5
    <3>2. r.pos + size \in Nat \ {0} /\ Append(r.entries, d.entry) \in Seq(Read(file))
      BY <1>1, <2>2, <2>3
    <3> QED  BY <3>1, <3>2 DEF Readers
  <2>6. CASE d.result = "corrupted"
    <3>1. ReadNext(file, r) = [r EXCEPT !.result = "ok"]
      BY <2>4, <2>6
    <3> QED  BY <1>1, <3>1 DEF Readers
  <2> QED  BY <2>2, <2>5, <2>6
<1> QED  BY <1>2, <1>3, <1>4, <1>5

\* A run of the reader.
ReadRun(f, file) ==
  /\ f[Len(file) + 1] = ReadAll(file)
  /\ f[0] = ReaderStart
  /\ \A n \in 1 .. Len(file) + 1 : f[n] = ReadNext(file, f[n - 1])

LEMMA ReadSteps ==
  ASSUME NEW file \in Seq(Units)
  PROVE  \E f : ReadRun(f, file)
<1> DEFINE N == Len(file) + 1
           V == Readers(file)
           turn == [r \in V |-> ReadNext(file, r)]
           turnAt == [n \in 1 .. N |-> turn]
           Good(f) == f = [n \in 0 .. Len(file) + 1 |->
                             IF n = 0 THEN [pos |-> 1, entries |-> <<>>, result |-> "reading"]
                             ELSE ReadNext(file, f[n - 1])]
           k == CHOOSE f : Good(f)
<1>1. N \in Nat /\ ReaderStart \in V /\ N = Len(file) + 1
  <2>1. "reading" \in Results /\ 1 \in Nat \ {0} /\ <<>> \in Seq(Read(file))
    BY DEF Results
  <2> QED  BY <2>1 DEF ReaderStart, Readers
<1>2. ReadAll(file) = k[N]
  BY DEF ReadAll
<1>3. \A f : Good(f)
        <=> f = [n \in 0 .. N |-> IF n = 0 THEN ReaderStart ELSE ReadNext(file, f[n - 1])]
  BY DEF ReaderStart
<1>4. turn \in [V -> V] /\ \A r \in V : turn[r] = ReadNext(file, r)
  BY ReadNextType
<1> HIDE DEF N, V, turn, Good
<1>5. \E f : Good(f)
  <2>1. turnAt \in [1 .. N -> [V -> V]] /\ \A n \in 1 .. N : turnAt[n] = turn
    BY <1>4
  <2> HIDE DEF turnAt
  <2>2. IsRecursion(N, V, ReaderStart, turnAt)
    BY <1>1, <2>1 DEF IsRecursion
  <2>3. PICK f : SolvesRecursion(f, N, V, ReaderStart, turnAt)
    BY <2>2, RecursionSolved
  <2>4. f \in [0 .. N -> V] /\ f[0] = ReaderStart /\ \A n \in 1 .. N : f[n] = turnAt[n][f[n - 1]]
    BY <2>3 DEF SolvesRecursion
  <2>5. \A n \in 1 .. N : f[n - 1] \in V
    BY <1>1, <2>4
  <2>6. \A n \in 1 .. N : f[n] = ReadNext(file, f[n - 1])
    BY <1>4, <2>1, <2>4, <2>5
  <2>7. f = [n \in 0 .. N |-> IF n = 0 THEN ReaderStart ELSE ReadNext(file, f[n - 1])]
    BY <1>1, <2>4, <2>6
  <2> QED  BY <1>3, <2>7
<1>6. Good(k)
  BY <1>5
<1> HIDE DEF k
<1>7. k[0] = ReaderStart /\ \A n \in 1 .. N : k[n] = ReadNext(file, k[n - 1])
  BY <1>1, <1>3, <1>6
<1> QED  BY <1>1, <1>2, <1>7 DEF ReadRun

-----------------------------------------------------------------------------
(* A log whose first entries are whole, and behind them nothing that can be *)
(* read.                                                                   *)

\* The entries w stand at the beginning of the file.
WholeIn(file, w) ==
  \A k \in 1 .. Len(w) : IsAt(file, UnitsOf(w, k - 1) + 1, Encode(w[k]))

\* Behind the first q units no unit is the checksum of what is before it.
Unreadable(file, q) ==
  \A j \in q + 1 .. Len(file) :
    \/ Len(file[j]) = 1
    \/ Len(file[j][2]) < j - q - 1
    \/ Len(file[j][2]) = j - q - 1 /\ file[j][2] # SubSeq(file, q + 1, j - 1)

\* Where the reader is when it has read k of the entries.
HasRead(w, k) ==
  [pos |-> UnitsOf(w, k) + 1, entries |-> SubSeq(w, 1, k), result |-> "reading"]

LEMMA ReadsOne ==
  ASSUME NEW file \in Seq(Units), NEW w \in Seq(WalEntries), WholeIn(file, w),
         NEW k \in 1 .. Len(w)
  PROVE  ReadNext(file, HasRead(w, k - 1)) = HasRead(w, k)
<1> DEFINE r == HasRead(w, k - 1)
           e == w[k]
           size == Len(Encode(e))
<1>1. e \in WalEntries /\ Len(w) \in Nat
  OBVIOUS
<1>2. /\ UnitsOf(w, k - 1) \in Nat
      /\ UnitsOf(w, k) = UnitsOf(w, k - 1) + size
      /\ size \in Nat /\ size >= 5
  <2>1. k - 1 \in 0 .. Len(w)
    OBVIOUS
  <2> QED  BY <1>1, <2>1, UnitsSteps, EncodedLength
<1>3. r.pos = UnitsOf(w, k - 1) + 1 /\ r.entries = SubSeq(w, 1, k - 1) /\ r.result = "reading"
  BY DEF HasRead
<1>4. IsAt(file, r.pos, Encode(e))
  BY <1>3 DEF WholeIn
<1>5. r.pos \in 1 .. Len(file)
  <2>1. r.pos + size - 1 <= Len(file) /\ Len(file) \in Nat /\ r.pos \in Nat /\ r.pos >= 1
    BY <1>2, <1>3, <1>4 DEF IsAt
  <2> QED  BY <1>2, <2>1
<1>6. /\ file[r.pos][1] \in EntryTypes /\ SizeAt(file, r.pos) = size
      /\ Decode(SubSeq(file, r.pos, r.pos + size - 1)) = [result |-> "entry", entry |-> e]
  BY <1>1, <1>4, <1>5, WholeEntry
<1>7. ReadNext(file, r) = [r EXCEPT !.pos = r.pos + size, !.entries = Append(r.entries, e)]
  <2> DEFINE d == Decode(SubSeq(file, r.pos, r.pos + size - 1))
  <2>1. d.result = "entry" /\ d.entry = e
    BY <1>6
  <2>2. ~(r.pos > Len(file)) /\ size # 0
    BY <1>2, <1>5
  <2> HIDE DEF r, e, size
  <2>3. ReadNext(file, r) =
          CASE d.result = "entry" ->
                  [r EXCEPT !.pos = r.pos + size, !.entries = Append(r.entries, d.entry)]
             [] d.result = "corrupted" -> [r EXCEPT !.result = "ok"]
             [] OTHER -> [r EXCEPT !.result = d.result, !.entries = <<>>]
    BY <1>3, <1>6, <2>2 DEF ReadNext
  <2> QED  BY <2>1, <2>3
<1>8. Append(SubSeq(w, 1, k - 1), e) = SubSeq(w, 1, k)
  BY <1>1
<1>9. r.pos + size = UnitsOf(w, k) + 1
  BY <1>2, <1>3
<1>10. r = [pos |-> r.pos, entries |-> r.entries, result |-> r.result]
  BY DEF HasRead
<1> HIDE DEF r, e, size
<1>11. ReadNext(file, r) = [pos |-> UnitsOf(w, k) + 1, entries |-> SubSeq(w, 1, k),
                           result |-> "reading"]
  BY <1>3, <1>7, <1>8, <1>9, <1>10
<1> QED  BY <1>11 DEF HasRead, r

\* The turn behind the last of them ends the reading.
LEMMA ReadsNoMore ==
  ASSUME NEW file \in Seq(Units), NEW w \in Seq(WalEntries), NEW q \in Nat,
         q = UnitsOf(w, Len(w)), Unreadable(file, q)
  PROVE  LET r == ReadNext(file, HasRead(w, Len(w)))
         IN  /\ r.result \in {"ok", "error"}
             /\ q >= Len(file) => r.result = "ok"
             /\ r.result = "ok" => r.entries = w
<1> DEFINE r == HasRead(w, Len(w))
           size == SizeAt(file, r.pos)
           d == Decode(SubSeq(file, r.pos, r.pos + size - 1))
<1>1. Len(file) \in Nat /\ Len(w) \in Nat /\ SubSeq(w, 1, Len(w)) = w
  OBVIOUS
<1>2. r.pos = q + 1 /\ r.entries = w /\ r.result = "reading"
      /\ r = [pos |-> r.pos, entries |-> r.entries, result |-> r.result]
  BY <1>1 DEF HasRead
<1>3. CASE r.pos > Len(file)
  <2> HIDE DEF r
  <2>1. ReadNext(file, r) = [r EXCEPT !.result = "ok"]
    BY <1>2, <1>3 DEF ReadNext
  <2>2. ReadNext(file, r).result = "ok" /\ ReadNext(file, r).entries = w
    BY <1>2, <2>1
  <2> QED  BY <2>2 DEF r
<1>4. CASE ~(r.pos > Len(file)) /\ (file[r.pos][1] \notin EntryTypes \/ size = 0)
  <2>0. ~(q >= Len(file))
    BY <1>1, <1>2, <1>4
  <2> HIDE DEF r
  <2>1. ReadNext(file, r) = [r EXCEPT !.result = "error", !.entries = <<>>]
    BY <1>2, <1>4 DEF ReadNext
  <2>2. ReadNext(file, r).result = "error"
    BY <1>2, <2>1
  <2> QED  BY <2>0, <2>2 DEF r
<1>5. CASE ~(r.pos > Len(file)) /\ file[r.pos][1] \in EntryTypes /\ size # 0
  <2>0. ~(q >= Len(file)) /\ r.pos \in 1 .. Len(file)
    BY <1>1, <1>2, <1>5
  <2>1. /\ size \in Nat /\ size >= 5 /\ r.pos + size - 1 <= Len(file)
        /\ d.result \in {"entry", "corrupted"}
        /\ d.result = "entry" =>
             file[r.pos + size - 1] = Checksum(SubSeq(file, r.pos, r.pos + size - 2))
    BY <1>5, <2>0, Decoded
  <2> DEFINE j == q + size
  <2>2. /\ r.pos + size - 1 = j /\ r.pos + size - 2 = j - 1 /\ r.pos = q + 1
        /\ j \in q + 1 .. Len(file)
    <3>1. r.pos = q + 1
      BY <1>2
    <3> HIDE DEF r, size
    <3> QED  BY <1>1, <2>1, <3>1
  <2>3. \/ Len(file[j]) = 1
        \/ Len(file[j][2]) < j - q - 1
        \/ Len(file[j][2]) = j - q - 1 /\ file[j][2] # SubSeq(file, q + 1, j - 1)
    BY <2>2 DEF Unreadable
  <2>4. d.result # "entry"
    <3> SUFFICES ASSUME d.result = "entry" PROVE FALSE
      OBVIOUS
    <3>1. file[j] = Checksum(SubSeq(file, q + 1, j - 1))
      BY <2>1, <2>2
    <3>2. Len(file[j]) = 2 /\ file[j][2] = SubSeq(file, q + 1, j - 1)
      BY <3>1, UnitFacts
    <3>3. Len(SubSeq(file, q + 1, j - 1)) = j - q - 1
      <4> HIDE DEF j
      <4>1. j \in Nat /\ j - 1 <= Len(file) /\ j - 1 >= q + 1 - 1
        BY <1>1, <2>2
      <4> QED  BY <1>1, <4>1
    <3>4. j - q - 1 \in Int
      BY <1>1, <2>1
    <3> HIDE DEF j
    <3>5. ~(Len(file[j]) = 1)
      BY <3>2
    <3>6. Len(file[j][2]) = j - q - 1
      BY <3>2, <3>3
    <3>7. ~(Len(file[j][2]) < j - q - 1)
      BY <3>4, <3>6
    <3> QED  BY <2>3, <3>2, <3>5, <3>7
  <2>5. d.result = "corrupted"
    BY <2>1, <2>4
  <2>6. ReadNext(file, r) =
          CASE d.result = "entry" ->
                  [r EXCEPT !.pos = r.pos + size, !.entries = Append(r.entries, d.entry)]
             [] d.result = "corrupted" -> [r EXCEPT !.result = "ok"]
             [] OTHER -> [r EXCEPT !.result = d.result, !.entries = <<>>]
    BY <1>2, <1>5 DEF ReadNext
  <2> HIDE DEF r, d, size
  <2>7. ReadNext(file, r) = [r EXCEPT !.result = "ok"]
    BY <2>5, <2>6
  <2>8. ReadNext(file, r).result = "ok" /\ ReadNext(file, r).entries = w
    BY <1>2, <2>7
  <2> QED  BY <2>0, <2>8 DEF r
<1> QED  BY <1>3, <1>4, <1>5

\* How many units all of the entries take.
End(w) == UnitsOf(w, Len(w))

\* Of such a file the reader returns the entries, or an error.
LEMMA ReadsBack ==
  ASSUME NEW file \in Seq(Units), NEW w \in Seq(WalEntries), WholeIn(file, w),
         End(w) <= Len(file), Unreadable(file, End(w))
  PROVE  LET r == ReadAll(file)
         IN  /\ r.result \in {"ok", "error"}
             /\ End(w) = Len(file) => r.result = "ok"
             /\ r.result = "ok" => r.entries = w
<1> DEFINE M == Len(w)
           N == Len(file) + 1
<1>1. PICK f : ReadRun(f, file)
  BY ReadSteps
<1>2. /\ f[N] = ReadAll(file) /\ f[0] = ReaderStart
      /\ \A n \in 1 .. N : f[n] = ReadNext(file, f[n - 1])
  BY <1>1 DEF ReadRun
<1>3. M \in Nat /\ N \in Nat /\ M + 1 <= N /\ End(w) \in Nat /\ UnitsOf(w, 0) = 0
  <2>1. UnitsOf(w, 0) = 0 /\ UnitsOf(w, M) \in Nat
    BY UnitsSteps
  <2>2. 0 \in 0 .. M /\ M \in 0 .. M
    OBVIOUS
  <2>3. UnitsOf(w, 0) + (M - 0) <= UnitsOf(w, M)
    BY <2>2, UnitsGrow
  <2>4. M \in Nat /\ Len(file) \in Nat
    OBVIOUS
  <2> HIDE DEF M
  <2>5. M <= UnitsOf(w, M)
    BY <2>1, <2>3, <2>4
  <2>6. UnitsOf(w, M) <= Len(file)
    BY DEF End, M
  <2> QED  BY <2>1, <2>4, <2>5, <2>6 DEF End, M
<1> DEFINE T == {n \in 0 .. M : f[n] = HasRead(w, n)}
<1>4. 0 \in T
  <2>1. SubSeq(w, 1, 0) = <<>> /\ 0 + 1 = 1
    OBVIOUS
  <2>2. HasRead(w, 0) = ReaderStart
    BY <1>3, <2>1 DEF HasRead, ReaderStart
  <2> QED  BY <1>2, <1>3, <2>2
<1>5. \A n \in 0 .. M : n < M /\ n \in T => n + 1 \in T
  <2> SUFFICES ASSUME NEW n \in 0 .. M, n < M, f[n] = HasRead(w, n)
               PROVE  f[n + 1] = HasRead(w, n + 1)
    BY <1>3
  <2>1. n + 1 \in 1 .. M /\ n + 1 \in 1 .. N /\ (n + 1) - 1 = n
    BY <1>3
  <2>2. f[n + 1] = ReadNext(file, f[(n + 1) - 1])
    BY <1>2, <2>1
  <2>3. ReadNext(file, HasRead(w, (n + 1) - 1)) = HasRead(w, n + 1)
    BY <2>1, ReadsOne
  <2> QED  BY <2>1, <2>2, <2>3
<1> HIDE DEF T, M, N
<1>6. f[M] = HasRead(w, M)
  <2>1. \A n \in 0 .. M : n \in T
    BY <1>3, <1>4, <1>5, InductionUpTo
  <2> QED  BY <1>3, <2>1 DEF T
<1> DEFINE z == ReadNext(file, HasRead(w, M))
           Z == {n \in 0 .. N - (M + 1) : f[M + 1 + n] = z}
<1>7. /\ z.result \in {"ok", "error"}
      /\ End(w) >= Len(file) => z.result = "ok"
      /\ z.result = "ok" => z.entries = w
  BY <1>3, ReadsNoMore DEF End, M
<1>8. 0 \in Z
  <2>1. M + 1 \in 1 .. N /\ (M + 1) - 1 = M /\ M + 1 + 0 = M + 1 /\ 0 \in 0 .. N - (M + 1)
    BY <1>3
  <2>2. f[M + 1] = z
    BY <1>2, <1>6, <2>1
  <2> QED  BY <2>1, <2>2
<1>9. \A n \in 0 .. N - (M + 1) : n < N - (M + 1) /\ n \in Z => n + 1 \in Z
  <2> HIDE DEF z
  <2> SUFFICES ASSUME NEW n \in 0 .. N - (M + 1), n < N - (M + 1), f[M + 1 + n] = z
               PROVE  f[M + 1 + (n + 1)] = z
    BY <1>3
  <2>1. M + 1 + (n + 1) \in 1 .. N /\ (M + 1 + (n + 1)) - 1 = M + 1 + n
    BY <1>3
  <2>2. f[M + 1 + (n + 1)] = ReadNext(file, z)
    BY <1>2, <2>1
  <2>3. z.result # "reading"
    BY <1>7
  <2> QED  BY <2>2, <2>3 DEF ReadNext
<1>10. f[N] = z
  <2> DEFINE K == N - (M + 1)
  <2>1. K \in Nat /\ M + 1 + K = N /\ K \in 0 .. K
    BY <1>3
  <2> HIDE DEF Z
  <2>2. \A n \in 0 .. K : n < K /\ n \in Z => n + 1 \in Z
    BY <1>9
  <2> HIDE DEF K
  <2>3. \A n \in 0 .. K : n \in Z
    BY <1>8, <2>1, <2>2, InductionUpTo
  <2>4. f[M + 1 + K] = z
    BY <2>1, <2>3 DEF Z
  <2> QED  BY <2>1, <2>4
<1> QED  BY <1>2, <1>3, <1>7, <1>10

-----------------------------------------------------------------------------
(* Appending to the file.                                                  *)

\* The file r is s, and t behind it.
IsFile(r, s, t) ==
  /\ r \in Seq(Units) /\ Len(r) = Len(s) + Len(t)
  /\ \A i \in 1 .. Len(s) : r[i] = s[i]
  /\ \A i \in 1 .. Len(t) : r[Len(s) + i] = t[i]

LEMMA Appended == \A s, t \in Seq(Units) : IsFile(s \o t, s, t)
  BY DEF IsFile

LEMMA UnitsTyped ==
  ASSUME NEW w \in Seq(WalEntries), NEW k \in 1 .. Len(w)
  PROVE  /\ w[k] \in WalEntries /\ Len(Encode(w[k])) \in Nat /\ Len(Encode(w[k])) >= 5
         /\ UnitsOf(w, k - 1) \in Nat /\ UnitsOf(w, k) = UnitsOf(w, k - 1) + Len(Encode(w[k]))
<1>1. k - 1 \in 0 .. Len(w) /\ w[k] \in WalEntries
  OBVIOUS
<1> QED  BY <1>1, UnitsSteps, EncodedLength

\* What is whole stays whole,
LEMMA StaysWhole ==
  ASSUME NEW file \in Seq(Units), NEW t \in Seq(Units), NEW r, IsFile(r, file, t),
         NEW w \in Seq(WalEntries), WholeIn(file, w)
  PROVE  WholeIn(r, w)
<1> SUFFICES ASSUME NEW k \in 1 .. Len(w)
             PROVE  IsAt(r, UnitsOf(w, k - 1) + 1, Encode(w[k]))
  BY DEF WholeIn
<1> DEFINE E == Encode(w[k])
           p == UnitsOf(w, k - 1) + 1
<1>1. Len(E) \in Nat /\ p \in Nat /\ p >= 1
  BY UnitsTyped
<1>2. p + Len(E) - 1 <= Len(file) /\ \A i \in 1 .. Len(E) : file[p + i - 1] = E[i]
  BY DEF WholeIn, IsAt
<1>3. Len(file) \in Nat /\ Len(t) \in Nat /\ Len(r) = Len(file) + Len(t)
      /\ \A i \in 1 .. Len(file) : r[i] = file[i]
  BY DEF IsFile
<1> HIDE DEF E, p
<1>4. \A i \in 1 .. Len(E) : p + i - 1 \in 1 .. Len(file)
  BY <1>1, <1>2, <1>3
<1>5. \A i \in 1 .. Len(E) : r[p + i - 1] = E[i]
  BY <1>2, <1>3, <1>4
<1>6. p + Len(E) - 1 <= Len(r)
  BY <1>1, <1>2, <1>3
<1>7. IsAt(r, p, E)
  BY <1>5, <1>6 DEF IsAt
<1> QED  BY <1>7 DEF E, p

\* and an entry that is appended to whole entries makes one more of them.
LEMMA OneMoreWhole ==
  ASSUME NEW file \in Seq(Units), NEW w \in Seq(WalEntries), NEW e \in WalEntries,
         NEW r, IsFile(r, file, Encode(e)), WholeIn(file, w), End(w) = Len(file)
  PROVE  WholeIn(r, Append(w, e)) /\ End(Append(w, e)) = Len(r)
<1> DEFINE v == Append(w, e)
           m == Len(w)
           E == Encode(e)
<1>1. /\ m \in Nat /\ v \in Seq(WalEntries) /\ Len(v) = m + 1 /\ v[m + 1] = e
      /\ \A k \in 1 .. m : v[k] = w[k]
  OBVIOUS
<1>2. E \in Seq(Units) /\ Len(E) \in Nat
  BY Encoded, EncodedLength DEF EncodedAs
<1>3. \A k \in 0 .. m : UnitsOf(v, k) = UnitsOf(w, k)
  <2> HIDE DEF v
  <2>1. m <= Len(v) /\ m <= Len(w)
    BY <1>1
  <2> QED  BY <1>1, <2>1, UnitsAgree
<1>4. UnitsOf(v, m) = Len(file)
  BY <1>1, <1>3 DEF End
<1>5. UnitsOf(v, m + 1) = UnitsOf(v, m) + Len(E)
  <2>1. m + 1 \in 1 .. Len(v) /\ (m + 1) - 1 = m
    BY <1>1
  <2> HIDE DEF v
  <2> QED  BY <1>1, <2>1, UnitsSteps
<1>6. WholeIn(r, w)
  BY <1>2, StaysWhole
<1>7. Len(file) \in Nat /\ Len(r) = Len(file) + Len(E)
      /\ \A i \in 1 .. Len(E) : r[Len(file) + i] = E[i]
  BY DEF IsFile
<1>8. IsAt(r, UnitsOf(v, m) + 1, E)
  <2> HIDE DEF E, v, m
  <2>1. \A i \in 1 .. Len(E) : Len(file) + 1 + i - 1 = Len(file) + i
    BY <1>7
  <2>2. Len(file) + 1 + Len(E) - 1 <= Len(r)
    BY <1>2, <1>7
  <2> QED  BY <1>4, <1>7, <2>1, <2>2 DEF IsAt
<1> HIDE DEF v, m, E
<1>9. ASSUME NEW k \in 1 .. Len(v)
      PROVE  IsAt(r, UnitsOf(v, k - 1) + 1, Encode(v[k]))
  <2>1. CASE k = m + 1
    <3>1. k - 1 = m /\ v[k] = e
      BY <1>1, <2>1
    <3> QED  BY <1>8, <3>1 DEF E
  <2>2. CASE k \in 1 .. m
    <3>1. v[k] = w[k] /\ k - 1 \in 0 .. m /\ UnitsOf(v, k - 1) = UnitsOf(w, k - 1)
      BY <1>1, <1>3, <2>2
    <3>2. IsAt(r, UnitsOf(w, k - 1) + 1, Encode(w[k]))
      BY <1>6, <2>2 DEF WholeIn, m
    <3> QED  BY <3>1, <3>2
  <2> QED  BY <1>1, <2>1, <2>2
<1>10. WholeIn(r, v) /\ End(v) = Len(r)
  BY <1>1, <1>4, <1>5, <1>7, <1>9 DEF WholeIn, End
<1> QED  BY <1>10 DEF v

\* Nothing that is appended behind a tear is ever the checksum of the units
\* from the tear on, unless it is the checksum of more than was appended.
LEMMA StaysUnreadable ==
  ASSUME NEW file \in Seq(Units), NEW t \in Seq(Units), NEW r, IsFile(r, file, t),
         NEW q \in Nat, q <= Len(file), Unreadable(file, q),
         \A i \in 1 .. Len(t) : Len(t[i]) = 1 \/ Len(t[i][2]) < Len(file) + i - q - 1
  PROVE  Unreadable(r, q)
<1>1. /\ Len(file) \in Nat /\ Len(t) \in Nat /\ r \in Seq(Units) /\ Len(r) = Len(file) + Len(t)
      /\ \A i \in 1 .. Len(file) : r[i] = file[i]
      /\ \A i \in 1 .. Len(t) : r[Len(file) + i] = t[i]
  BY DEF IsFile
<1> SUFFICES ASSUME NEW j \in q + 1 .. Len(r)
             PROVE  \/ Len(r[j]) = 1
                    \/ Len(r[j][2]) < j - q - 1
                    \/ Len(r[j][2]) = j - q - 1 /\ r[j][2] # SubSeq(r, q + 1, j - 1)
  BY DEF Unreadable
<1>2. CASE j <= Len(file)
  <2>1. j \in q + 1 .. Len(file) /\ j \in 1 .. Len(file)
    BY <1>1, <1>2
  <2>2. r[j] = file[j]
    BY <1>1, <2>1
  <2>3. SubSeq(r, q + 1, j - 1) = SubSeq(file, q + 1, j - 1)
    <3>1. Len(file) \in Nat /\ Len(r) \in Nat /\ Len(file) <= Len(r)
      BY <1>1
    <3>2. /\ q + 1 \in Nat /\ q + 1 >= 1 /\ j - 1 \in Nat /\ q + 1 - 1 <= j - 1
          /\ j - 1 <= Len(file) /\ j - 1 <= Len(r)
      BY <2>1, <3>1
    <3>3. \A k \in q + 1 .. j - 1 : k \in 1 .. Len(file)
      BY <2>1, <3>1
    <3>4. \A k \in q + 1 .. j - 1 : r[k] = file[k]
      BY <1>1, <3>3
    <3> QED  BY <1>1, <3>2, <3>4, SamePart
  <2> QED  BY <2>1, <2>2, <2>3 DEF Unreadable
<1>3. CASE ~(j <= Len(file))
  <2> DEFINE i == j - Len(file)
  <2>1. i \in 1 .. Len(t) /\ Len(file) + i = j
    BY <1>1, <1>3
  <2> HIDE DEF i
  <2>2. r[j] = t[i]
    BY <1>1, <2>1
  <2>3. Len(t[i]) = 1 \/ Len(t[i][2]) < Len(file) + i - q - 1
    BY <2>1
  <2> QED  BY <2>1, <2>2, <2>3
<1> QED  BY <1>2, <1>3

LEMMA EntryUnits ==
  ASSUME NEW e \in WalEntries
  PROVE  LET E == Encode(e)
         IN  /\ E \in Seq(Units) /\ Len(E) \in Nat /\ Len(E) >= 5
             /\ \A k \in 1 .. Len(E) - 1 : Len(E[k]) = 1
             /\ Len(E[Len(E)]) = 2 /\ Len(E[Len(E)][2]) = Len(E) - 1
             /\ E[Len(E)][2] = SubSeq(E, 1, Len(E) - 1)
<1> DEFINE E == Encode(e)
<1>1. EncodedAs(E, e) /\ Len(E) \in Nat /\ Len(E) >= 5
  BY Encoded, EncodedLength
<1> HIDE DEF E
<1>2. /\ E \in Seq(Units) /\ \A k \in 1 .. Len(E) - 1 : E[k] \in DataUnits
      /\ E[Len(E)] = Checksum(SubSeq(E, 1, Len(E) - 1))
  BY <1>1 DEF EncodedAs
<1>3. \A k \in 1 .. Len(E) - 1 : Len(E[k]) = 1
  BY <1>2, UnitFacts
<1>4. Len(E[Len(E)]) = 2 /\ E[Len(E)][2] = SubSeq(E, 1, Len(E) - 1)
  BY <1>2, UnitFacts
<1>5. Len(SubSeq(E, 1, Len(E) - 1)) = Len(E) - 1
  BY <1>1, <1>2
<1> QED  BY <1>1, <1>2, <1>3, <1>4, <1>5 DEF E

\* An entry behind a tear, and a torn one.
LEMMA WrittenBehind ==
  ASSUME NEW file \in Seq(Units), NEW e \in WalEntries, NEW r, IsFile(r, file, Encode(e)),
         NEW q \in Nat, q < Len(file), Unreadable(file, q)
  PROVE  Unreadable(r, q)
<1> DEFINE E == Encode(e)
<1>1. /\ E \in Seq(Units) /\ Len(E) \in Nat /\ Len(E) >= 5
      /\ \A k \in 1 .. Len(E) - 1 : Len(E[k]) = 1
      /\ Len(E[Len(E)][2]) = Len(E) - 1
  BY EntryUnits
<1>2. IsFile(r, file, E) /\ Len(file) \in Nat /\ q <= Len(file)
  OBVIOUS
<1> HIDE DEF E
<1>3. ASSUME NEW i \in 1 .. Len(E)
      PROVE  Len(E[i]) = 1 \/ Len(E[i][2]) < Len(file) + i - q - 1
  <2>1. CASE i = Len(E)
    BY <1>1, <1>2, <2>1
  <2>2. CASE i # Len(E)
    <3>1. i \in 1 .. Len(E) - 1
      BY <1>1, <2>2
    <3> QED  BY <1>1, <3>1
  <2> QED  BY <2>1, <2>2
<1> QED  BY <1>1, <1>2, <1>3, StaysUnreadable

LEMMA TornBehind ==
  ASSUME NEW file \in Seq(Units), NEW e \in WalEntries, NEW n \in 1 .. Len(Encode(e)) - 1,
         NEW q \in Nat, q <= Len(file), Unreadable(file, q)
  PROVE  LET r == file \o SubSeq(Encode(e), 1, n)
         IN  /\ IsFile(r, file, SubSeq(Encode(e), 1, n)) /\ Len(r) > Len(file)
             /\ SubSeq(Encode(e), 1, n) \in Seq(Units)
             /\ Unreadable(r, q)
<1> DEFINE E == Encode(e)
           t == SubSeq(E, 1, n)
           r == file \o t
<1>1. /\ E \in Seq(Units) /\ Len(E) \in Nat
      /\ \A k \in 1 .. Len(E) - 1 : Len(E[k]) = 1
  BY EntryUnits
<1>2. n \in 1 .. Len(E) - 1 /\ Len(file) \in Nat
  OBVIOUS
<1> HIDE DEF E
<1>3. t \in Seq(Units) /\ Len(t) = n /\ \A k \in 1 .. n : t[k] = E[k]
  BY <1>1, <1>2
<1> HIDE DEF t
<1>4. IsFile(r, file, t)
  BY <1>3, Appended
<1> HIDE DEF r
<1>5. \A i \in 1 .. Len(t) : Len(t[i]) = 1
  BY <1>1, <1>2, <1>3
<1>6. Unreadable(r, q)
  BY <1>3, <1>4, <1>5, StaysUnreadable
<1>7. Len(r) > Len(file)
  BY <1>2, <1>3, <1>4 DEF IsFile
<1> QED  BY <1>3, <1>4, <1>6, <1>7 DEF r, t, E

-----------------------------------------------------------------------------
(* Damage.                                                                 *)

\* A unit of a whole entry is a number, or the checksum of the entry.
LEMMA UnitOfWhole ==
  ASSUME NEW file \in Seq(Units), NEW w \in Seq(WalEntries), WholeIn(file, w),
         NEW k \in 1 .. Len(w), NEW j \in Nat, UnitsOf(w, k - 1) < j, j <= UnitsOf(w, k)
  PROVE  \/ j < UnitsOf(w, k) /\ Len(file[j]) = 1
         \/ /\ j = UnitsOf(w, k)
            /\ Len(file[j][2]) = j - UnitsOf(w, k - 1) - 1
            /\ file[j][2] = SubSeq(Encode(w[k]), 1, Len(Encode(w[k])) - 1)
<1> DEFINE E == Encode(w[k])
           a == UnitsOf(w, k - 1)
           i == j - a
<1>1. w[k] \in WalEntries /\ a \in Nat /\ UnitsOf(w, k) = a + Len(E)
  BY UnitsTyped
<1>2. /\ Len(E) \in Nat /\ Len(E) >= 5
      /\ \A m \in 1 .. Len(E) - 1 : Len(E[m]) = 1
      /\ Len(E[Len(E)][2]) = Len(E) - 1
      /\ E[Len(E)][2] = SubSeq(E, 1, Len(E) - 1)
  BY <1>1, EntryUnits
<1>3. \A m \in 1 .. Len(E) : file[a + 1 + m - 1] = E[m]
  BY DEF WholeIn, IsAt
<1>4. a < j /\ j <= UnitsOf(w, k)
  OBVIOUS
<1> HIDE DEF a, E
<1>5. i \in 1 .. Len(E) /\ a + 1 + i - 1 = j
  BY <1>1, <1>2, <1>4
<1>6. file[j] = E[i]
  BY <1>3, <1>5
<1>7. CASE i = Len(E)
  <2>1. j = UnitsOf(w, k) /\ Len(E) - 1 = j - a - 1
    <3>1. j - a = Len(E) /\ j \in Nat
      BY <1>7
    <3> QED  BY <1>1, <1>2, <3>1
  <2> QED  BY <1>2, <1>6, <1>7, <2>1 DEF E, a
<1>8. CASE i # Len(E)
  <2> HIDE DEF i
  <2>1. i \in 1 .. Len(E) - 1 /\ j < UnitsOf(w, k)
    BY <1>1, <1>2, <1>5, <1>8
  <2> QED  BY <1>2, <1>6, <2>1
<1> QED  BY <1>7, <1>8

\* A unit of entry n that changes: the entries before it are whole, and no unit
\* behind them is the checksum of what is before it: that of entry n is not
\* any more, every other one is the checksum of less.
IsDamaged(r, file, w, n, i, u) ==
  /\ n \in 1 .. Len(w) /\ i \in 1 .. Len(file)
  /\ UnitsOf(w, n - 1) < i /\ i <= UnitsOf(w, n)
  /\ u \in DataUnits /\ file[i] # u
  /\ r = [file EXCEPT ![i] = u]

LEMMA Damaged ==
  ASSUME NEW file \in Seq(Units), NEW w \in Seq(WalEntries), WholeIn(file, w),
         End(w) <= Len(file), Unreadable(file, End(w)),
         NEW r, NEW n, NEW i, NEW u, IsDamaged(r, file, w, n, i, u)
  PROVE  LET v == SubSeq(w, 1, n - 1)
         IN  /\ r \in Seq(Units) /\ v \in Seq(WalEntries) /\ WholeIn(r, v)
             /\ End(v) < Len(r) /\ Unreadable(r, End(v))
<1> DEFINE v == SubSeq(w, 1, n - 1)
           q == UnitsOf(w, n - 1)
           z == End(w)
<1>1. /\ n \in 1 .. Len(w) /\ i \in 1 .. Len(file) /\ q < i /\ i <= UnitsOf(w, n)
      /\ u \in DataUnits /\ file[i] # u /\ r = [file EXCEPT ![i] = u]
  BY DEF IsDamaged
<1>2. /\ Len(file) \in Nat /\ r \in Seq(Units) /\ Len(r) = Len(file) /\ r[i] = u
      /\ \A k \in 1 .. Len(file) : k # i => r[k] = file[k]
  <2>1. u \in Units
    BY <1>1 DEF Units
  <2> QED  BY <1>1, <2>1
<1>3. /\ Len(w) \in Nat /\ v \in Seq(WalEntries) /\ Len(v) = n - 1 /\ n - 1 \in Nat
      /\ \A k \in 1 .. n - 1 : v[k] = w[k]
  BY <1>1
<1>4. \A k \in 0 .. n - 1 : UnitsOf(v, k) = UnitsOf(w, k)
  <2> HIDE DEF v
  <2>1. n - 1 <= Len(v) /\ n - 1 <= Len(w)
    BY <1>1, <1>3
  <2> QED  BY <1>3, <2>1, UnitsAgree
<1>5. End(v) = q
  <2> HIDE DEF v
  <2>1. n - 1 \in 0 .. n - 1
    BY <1>3
  <2> QED  BY <1>3, <1>4, <2>1 DEF End
<1>6. q \in Nat /\ z \in Nat /\ UnitsOf(w, n) \in Nat /\ q < UnitsOf(w, n) /\ UnitsOf(w, n) <= z
  <2>1. n - 1 \in 0 .. Len(w) /\ n \in 0 .. Len(w) /\ Len(w) \in 0 .. Len(w)
        /\ Len(w) \in n .. Len(w) /\ n \in n - 1 .. Len(w)
    BY <1>1
  <2>2. q \in Nat /\ UnitsOf(w, n) \in Nat /\ UnitsOf(w, Len(w)) \in Nat
    BY <2>1, UnitsSteps
  <2>3. UnitsOf(w, n) + (Len(w) - n) <= UnitsOf(w, Len(w))
    BY <2>1, UnitsGrow
  <2>4. Len(w) - n \in Nat
    BY <1>1
  <2> HIDE DEF q
  <2>5. UnitsOf(w, n) <= UnitsOf(w, Len(w))
    BY <2>2, <2>3, <2>4
  <2>6. q < UnitsOf(w, n)
    BY <1>1, <2>2
  <2> QED  BY <2>2, <2>5, <2>6 DEF End
<1> HIDE DEF v, q, z
<1>7. WholeIn(r, v)
  <2> SUFFICES ASSUME NEW k \in 1 .. n - 1
               PROVE  IsAt(r, UnitsOf(w, k - 1) + 1, Encode(w[k]))
    <3>1. \A k \in 1 .. n - 1 : k - 1 \in 0 .. n - 1
      BY <1>3
    <3> QED  BY <1>3, <1>4, <3>1 DEF WholeIn
  <2> DEFINE E == Encode(w[k])
             p == UnitsOf(w, k - 1) + 1
  <2>1. k \in 1 .. Len(w) /\ k \in 0 .. Len(w) /\ n - 1 \in k .. Len(w)
    BY <1>1, <1>3
  <2>2. Len(E) \in Nat /\ UnitsOf(w, k - 1) \in Nat /\ UnitsOf(w, k) = UnitsOf(w, k - 1) + Len(E)
    BY <2>1, UnitsTyped
  <2>3. UnitsOf(w, k) + (n - 1 - k) <= q
    BY <2>1, UnitsGrow DEF q
  <2>4. p + Len(E) - 1 <= Len(file) /\ \A m \in 1 .. Len(E) : file[p + m - 1] = E[m]
    BY <2>1 DEF WholeIn, IsAt
  <2>5. p \in Nat /\ p >= 1 /\ p + Len(E) - 1 = UnitsOf(w, k)
    BY <2>2
  <2> HIDE DEF E, p
  <2>6. p + Len(E) - 1 < i
    <3>1. n - 1 - k \in Nat
      BY <2>1
    <3>2. UnitsOf(w, k) \in Nat
      BY <2>2
    <3>3. UnitsOf(w, k) <= q
      BY <1>6, <2>3, <3>1, <3>2
    <3> QED  BY <1>1, <1>6, <2>5, <3>2, <3>3
  <2>7. \A m \in 1 .. Len(E) : p + m - 1 \in 1 .. Len(file) /\ p + m - 1 # i
    BY <1>1, <1>2, <2>2, <2>4, <2>5, <2>6
  <2>8. \A m \in 1 .. Len(E) : r[p + m - 1] = E[m]
    BY <1>2, <2>4, <2>7
  <2>9. IsAt(r, p, E)
    BY <1>2, <2>4, <2>8 DEF IsAt
  <2> QED  BY <2>9 DEF p, E
<1>8. Unreadable(r, q)
  <2> SUFFICES ASSUME NEW j \in q + 1 .. Len(r)
               PROVE  \/ Len(r[j]) = 1
                      \/ Len(r[j][2]) < j - q - 1
                      \/ Len(r[j][2]) = j - q - 1 /\ r[j][2] # SubSeq(r, q + 1, j - 1)
    BY DEF Unreadable
  <2>1. j \in Nat /\ j \in 1 .. Len(file) /\ q < j
    BY <1>2, <1>6
  <2>2. CASE j = i
    BY <1>1, <1>2, <2>2, UnitFacts
  <2>3. CASE j # i /\ j > z
    <3>1. r[j] = file[j] /\ j \in z + 1 .. Len(file)
      BY <1>2, <1>6, <2>1, <2>3
    <3>2. Len(file[j]) = 1 \/ Len(file[j][2]) < j - z - 1 \/ Len(file[j][2]) = j - z - 1
      BY <3>1 DEF Unreadable, z
    <3>3. j - z - 1 < j - q - 1 /\ j - z - 1 \in Int /\ j - q - 1 \in Int
      BY <1>6, <2>1
    <3>4. CASE Len(file[j][2]) < j - z - 1
      <4>1. CASE file[j] \in Sums
        <5>1. file[j][2] \in Seq(DataUnits)
          BY <4>1, UnitFacts
        <5>2. Len(file[j][2]) \in Nat
          BY <5>1
        <5>3. Len(file[j][2]) < j - q - 1
          BY <3>3, <3>4, <5>2
        <5> QED  BY <3>1, <5>3
      <4>2. CASE file[j] \in DataUnits
        BY <3>1, <4>2, UnitFacts
      <4>3. file[j] \in Units
        BY <2>1
      <4> QED  BY <4>1, <4>2, <4>3 DEF Units
    <3> QED  BY <3>1, <3>2, <3>3, <3>4
  <2>4. CASE j # i /\ ~(j > z)
    <3>1. j \in 1 .. UnitsOf(w, Len(w)) /\ r[j] = file[j]
      BY <1>2, <1>6, <2>1, <2>4 DEF z, End
    <3>2. PICK k \in 1 .. Len(w) : UnitsOf(w, k - 1) < j /\ j <= UnitsOf(w, k)
      BY <3>1, Located
    <3> DEFINE a == UnitsOf(w, k - 1)
               E == Encode(w[k])
    <3>3. \/ Len(file[j]) = 1
          \/ /\ j = UnitsOf(w, k) /\ Len(file[j][2]) = j - a - 1
             /\ file[j][2] = SubSeq(E, 1, Len(E) - 1)
      BY <2>1, <3>2, UnitOfWhole
    <3>4. a \in Nat /\ UnitsOf(w, k) = a + Len(E) /\ Len(E) \in Nat
      BY UnitsTyped
    <3> HIDE DEF a, E
    <3>5. ~(k < n)
      <4> SUFFICES ASSUME k < n PROVE FALSE
        OBVIOUS
      <4>1. k \in 0 .. Len(w) /\ n - 1 \in k .. Len(w) /\ n - 1 - k \in Nat
        BY <1>1
      <4>2. UnitsOf(w, k) + (n - 1 - k) <= q
        BY <4>1, UnitsGrow DEF q
      <4>3. UnitsOf(w, k) \in Nat
        BY <3>4
      <4>4. UnitsOf(w, k) <= q
        BY <1>6, <4>1, <4>2, <4>3
      <4> QED  BY <1>6, <2>1, <3>2, <4>3, <4>4
    <3>6. CASE k > n /\ Len(file[j][2]) = j - a - 1
      <4>1. n \in 0 .. Len(w) /\ k - 1 \in n .. Len(w) /\ k - 1 - n \in Nat
        BY <1>1, <3>6
      <4>2. UnitsOf(w, n) + (k - 1 - n) <= a
        BY <4>1, UnitsGrow DEF a
      <4>3. q < a
        BY <1>6, <3>4, <4>1, <4>2
      <4>4. j - a - 1 < j - q - 1
        BY <1>6, <2>1, <3>4, <4>3
      <4> QED  BY <3>1, <3>6, <4>4
    <3>7. CASE /\ k = n /\ j = UnitsOf(w, k) /\ Len(file[j][2]) = j - a - 1
               /\ file[j][2] = SubSeq(E, 1, Len(E) - 1)
      <4>1. a = q /\ j = q + Len(E)
        BY <3>4, <3>7 DEF a, q
      <4>0. q < i /\ i < j /\ i \in Nat /\ q \in Nat /\ j \in Nat /\ Len(r) \in Nat
            /\ j <= Len(r) /\ Len(E) \in Nat
        <5>1. i <= j /\ q < i
          BY <1>1, <3>7
        <5>2. i \in Nat /\ Len(r) \in Nat /\ j <= Len(r)
          BY <1>1, <1>2, <2>1
        <5> QED  BY <1>6, <2>1, <2>4, <3>4, <5>1, <5>2
      <4>2. /\ i - q \in 1 .. Len(E) - 1 /\ i \in q + 1 .. j - 1
            /\ q + 1 \in 1 .. Len(r) /\ j - 1 <= Len(r) /\ q + 1 + (i - q) - 1 = i
            /\ i - q \in 1 .. j - 1 - q /\ j - 1 - q \in 0 .. Len(r)
            /\ q + 1 + (j - 1 - q) - 1 = j - 1
        BY <4>0, <4>1
      <4>3. SubSeq(r, q + 1, j - 1)[i - q] = u
        <5>1. SubSeq(r, q + 1, j - 1)[i - q] = r[i]
          <6> DEFINE l == j - 1 - q
          <6>1. /\ l \in 0 .. Len(r) /\ q + 1 \in 1 .. Len(r) + 1 /\ q + 1 + l - 1 = j - 1
                /\ q + 1 + l - 1 <= Len(r) /\ i - q \in 1 .. l
            BY <4>0, <4>2
          <6> HIDE DEF l
          <6>2. \A m \in 1 .. l : SubSeq(r, q + 1, q + 1 + l - 1)[m] = r[q + 1 + m - 1]
            BY <1>2, <6>1, PartFacts
          <6>3. SubSeq(r, q + 1, q + 1 + l - 1)[i - q] = r[q + 1 + (i - q) - 1]
            BY <6>1, <6>2
          <6> QED  BY <4>2, <6>1, <6>3
        <5> QED  BY <1>2, <5>1
      <4>4. file[i] = E[i - q]
        <5>1. \A m \in 1 .. Len(E) : file[a + 1 + m - 1] = E[m]
          BY DEF WholeIn, IsAt, a, E
        <5>2. i - q \in 1 .. Len(E) /\ a + 1 + (i - q) - 1 = i
          BY <4>0, <4>1, <4>2
        <5>3. file[a + 1 + (i - q) - 1] = E[i - q]
          BY <5>1, <5>2
        <5> QED  BY <5>2, <5>3
      <4>5. SubSeq(E, 1, Len(E) - 1)[i - q] = E[i - q]
        <5>1. E \in Seq(Units)
          BY EntryUnits DEF E
        <5> DEFINE l == Len(E) - 1
        <5>2. l \in 0 .. Len(E) /\ i - q \in 1 .. l /\ 1 + l - 1 = l /\ l <= Len(E)
              /\ 1 \in 1 .. Len(E) + 1 /\ 1 + (i - q) - 1 = i - q
          BY <4>0, <4>2
        <5> HIDE DEF l
        <5>3. SubSeq(E, 1, 1 + l - 1)[i - q] = E[1 + (i - q) - 1]
          BY <5>1, <5>2, PartFacts
        <5>4. SubSeq(E, 1, l)[i - q] = E[i - q]
          BY <5>2, <5>3
        <5> QED  BY <5>4 DEF l
      <4>6. file[j][2] # SubSeq(r, q + 1, j - 1)
        BY <1>1, <3>7, <4>3, <4>4, <4>5
      <4> QED  BY <3>1, <3>7, <4>1, <4>6
    <3>8. k = n \/ k > n
      BY <1>1, <3>5
    <3> QED  BY <3>1, <3>3, <3>6, <3>7, <3>8
  <2> QED  BY <2>2, <2>3, <2>4
<1>9. q < Len(r)
  BY <1>1, <1>2, <1>6
<1> QED  BY <1>2, <1>3, <1>5, <1>7, <1>8, <1>9 DEF v

-----------------------------------------------------------------------------
(* The invariant: the entries before the damage are there, and behind them *)
(* nothing that can be read.                                               *)
WalInv ==
  /\ walFile \in Seq(Units) /\ walWhole \in Seq(WalEntries) /\ walIntact \in BOOLEAN
  /\ WholeIn(walFile, walWhole)
  /\ End(walWhole) <= Len(walFile)
  /\ Unreadable(walFile, End(walWhole))
  /\ walIntact <=> End(walWhole) = Len(walFile)

LEMMA WalInitInv == WalInit => WalInv
<1> SUFFICES ASSUME WalInit PROVE WalInv
  OBVIOUS
<1>1. walFile = <<>> /\ walWhole = <<>> /\ walIntact = TRUE
  BY DEF WalInit
<1>2. <<>> \in Seq(Units) /\ <<>> \in Seq(WalEntries) /\ Len(<<>>) = 0
  OBVIOUS
<1>3. End(<<>>) = 0
  BY <1>2, UnitsSteps DEF End
<1>4. WholeIn(<<>>, <<>>) /\ Unreadable(<<>>, 0)
  BY <1>2 DEF WholeIn, Unreadable
<1> QED  BY <1>1, <1>2, <1>3, <1>4 DEF WalInv

LEMMA EndTyped == \A w \in Seq(WalEntries) : End(w) \in Nat
<1> SUFFICES ASSUME NEW w \in Seq(WalEntries) PROVE UnitsOf(w, Len(w)) \in Nat
  BY DEF End
<1>1. Len(w) \in 0 .. Len(w)
  OBVIOUS
<1> QED  BY <1>1, UnitsSteps

LEMMA WalWriteInv ==
  ASSUME WalInv, NEW e \in WalEntries, WalWrite(e)
  PROVE  WalInv'
<1> DEFINE file == walFile
           r == walFile \o Encode(e)
           w == walWhole
<1>1. /\ file \in Seq(Units) /\ w \in Seq(WalEntries) /\ walIntact \in BOOLEAN
      /\ WholeIn(file, w) /\ End(w) <= Len(file) /\ Unreadable(file, End(w))
      /\ walIntact <=> End(w) = Len(file)
  BY DEF WalInv
<1>2. walFile' = r /\ walIntact' = walIntact
      /\ walWhole' = IF walIntact THEN Append(w, e) ELSE w
  BY DEF WalWrite
<1>3. Encode(e) \in Seq(Units) /\ Len(Encode(e)) \in Nat /\ Len(Encode(e)) >= 5
  BY EntryUnits
<1>4. End(w) \in Nat /\ Len(file) \in Nat
  BY <1>1, EndTyped
<1>5. IsFile(r, file, Encode(e))
  BY <1>1, <1>3, Appended
<1> HIDE DEF r, file, w
<1>6. r \in Seq(Units) /\ Len(r) = Len(file) + Len(Encode(e))
  BY <1>5 DEF IsFile
<1>7. CASE walIntact
  <2> DEFINE v == Append(w, e)
  <2>1. WholeIn(r, v) /\ End(v) = Len(r)
    BY <1>1, <1>5, <1>7, OneMoreWhole
  <2>2. v \in Seq(WalEntries)
    BY <1>1
  <2> HIDE DEF v
  <2>3. Len(r) \in Nat
    BY <1>6
  <2>4. End(v) <= Len(r) /\ Unreadable(r, End(v))
    BY <2>1, <2>3 DEF Unreadable
  <2>5. walWhole' = v
    BY <1>2, <1>7 DEF v
  <2> QED  BY <1>2, <1>6, <1>7, <2>1, <2>2, <2>4, <2>5 DEF WalInv
<1>8. CASE ~walIntact
  <2>1. End(w) < Len(file)
    BY <1>1, <1>4, <1>8
  <2>2. WholeIn(r, w)
    BY <1>1, <1>3, <1>5, StaysWhole
  <2>3. Unreadable(r, End(w))
    BY <1>1, <1>4, <1>5, <2>1, WrittenBehind
  <2>4. End(w) < Len(r)
    BY <1>3, <1>4, <1>6, <2>1
  <2>5. End(w) <= Len(r) /\ End(w) # Len(r)
    BY <1>3, <1>4, <1>6, <2>4
  <2>6. walWhole' = w
    BY <1>2, <1>8
  <2> QED  BY <1>1, <1>2, <1>6, <1>8, <2>2, <2>3, <2>5, <2>6 DEF WalInv
<1> QED  BY <1>1, <1>7, <1>8

LEMMA WalTornInv ==
  ASSUME WalInv, NEW e \in WalEntries, WalWriteTorn(e)
  PROVE  WalInv'
<1> DEFINE file == walFile
           w == walWhole
<1>1. /\ file \in Seq(Units) /\ w \in Seq(WalEntries)
      /\ WholeIn(file, w) /\ End(w) <= Len(file) /\ Unreadable(file, End(w))
  BY DEF WalInv
<1>2. PICK n \in 1 .. Len(Encode(e)) - 1 : walFile' = file \o SubSeq(Encode(e), 1, n)
  BY DEF WalWriteTorn
<1>3. walIntact' = FALSE /\ walWhole' = w
  BY DEF WalWriteTorn
<1>4. End(w) \in Nat /\ Len(file) \in Nat
  BY <1>1, EndTyped
<1> DEFINE t == SubSeq(Encode(e), 1, n)
           r == file \o t
<1>5. /\ IsFile(r, file, t) /\ Len(r) > Len(file) /\ t \in Seq(Units)
      /\ Unreadable(r, End(w))
  BY <1>1, <1>4, TornBehind
<1>6. walFile' = r
  BY <1>2
<1> HIDE DEF r, t, file, w
<1>7. WholeIn(r, w)
  BY <1>1, <1>5, StaysWhole
<1>8. r \in Seq(Units) /\ Len(r) \in Nat
  BY <1>5 DEF IsFile
<1>9. End(w) <= Len(r) /\ End(w) # Len(r)
  BY <1>1, <1>4, <1>5, <1>8
<1> QED  BY <1>1, <1>3, <1>5, <1>6, <1>7, <1>8, <1>9 DEF WalInv

LEMMA WalDamageInv ==
  ASSUME WalInv, WalDamage
  PROVE  WalInv'
<1> DEFINE file == walFile
           w == walWhole
<1>1. /\ file \in Seq(Units) /\ w \in Seq(WalEntries)
      /\ WholeIn(file, w) /\ End(w) <= Len(file) /\ Unreadable(file, End(w))
  BY DEF WalInv
<1>2. PICK n \in DOMAIN w, i \in DOMAIN file, unit \in 0 .. SumReadsAs :
        /\ UnitsOf(w, n - 1) < i /\ i <= UnitsOf(w, n)
        /\ file[i] # <<unit>>
        /\ walFile' = [file EXCEPT ![i] = <<unit>>]
        /\ walWhole' = SubSeq(w, 1, n - 1)
  BY DEF WalDamage
<1>3. walIntact' = FALSE
  BY DEF WalDamage
<1> DEFINE r == [file EXCEPT ![i] = <<unit>>]
           v == SubSeq(w, 1, n - 1)
<1>4. IsDamaged(r, file, w, n, i, <<unit>>)
  <2>1. unit \in Nat
    BY WalConstants
  <2>2. <<unit>> \in DataUnits
    BY <2>1 DEF DataUnits
  <2>3. n \in 1 .. Len(w) /\ i \in 1 .. Len(file)
    BY <1>1
  <2> HIDE DEF file, w
  <2> QED  BY <1>2, <2>2, <2>3 DEF IsDamaged
<1>5. walFile' = r /\ walWhole' = v
  BY <1>2
<1> HIDE DEF r, file, w
<1>6. /\ r \in Seq(Units) /\ v \in Seq(WalEntries) /\ WholeIn(r, v)
      /\ End(v) < Len(r) /\ Unreadable(r, End(v))
  BY <1>1, <1>4, Damaged
<1> HIDE DEF v
<1>7. End(v) <= Len(r) /\ End(v) # Len(r)
  <2>1. End(v) \in Nat /\ Len(r) \in Nat
    BY <1>6, EndTyped
  <2> QED  BY <1>6, <2>1
<1> QED  BY <1>3, <1>5, <1>6, <1>7 DEF WalInv

LEMMA WalInvReads == WalInv => WalReadsBack
<1> SUFFICES ASSUME WalInv PROVE WalReadsBack
  OBVIOUS
<1> DEFINE r == ReadAll(walFile)
<1>1. /\ r.result \in {"ok", "error"}
      /\ End(walWhole) = Len(walFile) => r.result = "ok"
      /\ r.result = "ok" => r.entries = walWhole
  BY ReadsBack DEF WalInv
<1>2. walIntact => End(walWhole) = Len(walFile)
  BY DEF WalInv
<1> HIDE DEF r
<1>3. /\ r.result \in {"ok", "error"} /\ (walIntact => r.result = "ok")
      /\ r.result = "ok" => r.entries = walWhole
  BY <1>1, <1>2
<1> QED  BY <1>3 DEF WalReadsBack, r

\* read_all of wal.rs returns every intact log entry by entry; whatever was torn
\* or damaged and whatever was appended behind it, it returns the entries before
\* the damage or an error, and nothing that was not written; decode never panics
\* on what it is handed.
THEOREM WalReadsBackHolds == WalSpec => []WalReadsBack
<1>1. WalInit => WalInv
  BY WalInitInv
<1>2. WalInv /\ [WalNext]_walVars => WalInv'
  <2> SUFFICES ASSUME WalInv, [WalNext]_walVars PROVE WalInv'
    OBVIOUS
  <2>1. ASSUME NEW e \in WalEntries, WalWrite(e) PROVE WalInv'
    BY <2>1, WalWriteInv
  <2>2. ASSUME NEW e \in WalEntries, WalWriteTorn(e) PROVE WalInv'
    BY <2>2, WalTornInv
  <2>3. CASE WalDamage
    BY <2>3, WalDamageInv
  <2>4. CASE UNCHANGED walVars
    BY <2>4 DEF WalInv, walVars
  <2> QED  BY <2>1, <2>2, <2>3, <2>4 DEF WalNext
<1>3. WalInv => WalReadsBack
  BY WalInvReads
<1> QED  BY <1>1, <1>2, <1>3, PTL DEF WalSpec

-----------------------------------------------------------------------------
(* Workers                                                                 *)

LEMMA InitWorkers == WorkersInit => WorkersTypeOK /\ NoOrphans
  BY DEF WorkersInit, WorkersTypeOK, NoOrphans, CallLabels

LEMMA TypesOfWorkers == WorkersTypeOK /\ [WorkersNext]_workersVars => WorkersTypeOK'
<1> USE DEF WorkersTypeOK, CallLabels, CallGoto
<1> SUFFICES ASSUME WorkersTypeOK, [WorkersNext]_workersVars
             PROVE  WorkersTypeOK'
  OBVIOUS
<1>1. ASSUME NEW c \in Callers, NEW k \in Kinds, Start(c, k)
      PROVE  WorkersTypeOK'
  BY <1>1 DEF Start
<1>2. ASSUME NEW c \in Callers, StopSend(c)
      PROVE  WorkersTypeOK'
  BY <1>2 DEF StopSend
<1>3. ASSUME NEW c \in Callers, TakeMerge(c)
      PROVE  WorkersTypeOK'
  BY <1>3 DEF TakeMerge, TakeHandle
<1>4. ASSUME NEW c \in Callers, StopSendAgain(c)
      PROVE  WorkersTypeOK'
  BY <1>4 DEF StopSendAgain
<1>5. ASSUME NEW c \in Callers, TakeFlush(c)
      PROVE  WorkersTypeOK'
  BY <1>5 DEF TakeFlush, TakeHandle
<1>6. CASE DropManager
  BY <1>6 DEF DropManager
<1>7. ASSUME NEW t \in Tasks, TaskEnds(t)
      PROVE  WorkersTypeOK'
  BY <1>7 DEF TaskEnds
<1>8. CASE UNCHANGED workersVars
  BY <1>8 DEF workersVars
<1> QED
  BY <1>1, <1>2, <1>3, <1>4, <1>5, <1>6, <1>7, <1>8 DEF WorkersNext, CallStep

\* Only the start of a worker fills a handle, and it looks first whether the
\* handle is taken; what a handle loses is aborted.
LEMMA StepOrphans ==
  WorkersTypeOK /\ NoOrphans /\ [WorkersNext]_workersVars => NoOrphans'
<1> USE DEF WorkersTypeOK, NoOrphans, CallGoto
<1> SUFFICES ASSUME WorkersTypeOK, NoOrphans, [WorkersNext]_workersVars
             PROVE  NoOrphans'
  OBVIOUS
<1>1. ASSUME NEW c \in Callers, NEW k \in Kinds, Start(c, k)
      PROVE  NoOrphans'
  <2>1. PICK t \in Tasks \ spawned : /\ handle' = [handle EXCEPT ![k] = t]
                                     /\ alive' = alive \cup {t}
    BY <1>1 DEF Start
  <2>2. handle[k] \notin alive
    BY <1>1, NoTaskAssumption DEF Start
  <2> QED
    BY <1>1, <2>1, <2>2 DEF Start
<1>2. ASSUME NEW c \in Callers, StopSend(c) \/ StopSendAgain(c)
      PROVE  NoOrphans'
  BY <1>2 DEF StopSend, StopSendAgain
<1>3. ASSUME NEW c \in Callers, NEW k \in Kinds, TakeHandle(c, k), UNCHANGED <<alive, signalled>>
      PROVE  NoOrphans'
  BY <1>3 DEF TakeHandle
<1>4. CASE DropManager
  BY <1>4 DEF DropManager
<1>5. ASSUME NEW t \in Tasks, TaskEnds(t)
      PROVE  NoOrphans'
  BY <1>5 DEF TaskEnds
<1>6. CASE UNCHANGED workersVars
  BY <1>6 DEF workersVars
<1>7. ASSUME NEW c \in Callers, TakeMerge(c) \/ TakeFlush(c)
      PROVE  NoOrphans'
  BY <1>3, <1>7 DEF TakeMerge, TakeFlush, Kinds
<1> QED
  BY <1>1, <1>2, <1>4, <1>5, <1>6, <1>7 DEF WorkersNext, CallStep

\* However starts and stops of background workers overlap, a task that nobody
\* has told to end is in a handle (start_merge_worker, stop_workers), for any
\* number of callers and tasks.
THEOREM NoOrphansHolds == WorkersSpec => []NoOrphans
<1>1. WorkersTypeOK /\ NoOrphans /\ [WorkersNext]_workersVars => WorkersTypeOK' /\ NoOrphans'
  BY TypesOfWorkers, StepOrphans
<1> QED
  BY InitWorkers, <1>1, PTL DEF WorkersSpec

-----------------------------------------------------------------------------
(* Metrics                                                                 *)

LEMMA InitMetrics == MetricsInit => MetricsInv
  BY DEF MetricsInit, MetricsInv, MetricsTypeOK, AverageBounded, LoadsBounded, Steps

LEMMA LoadKeeps ==
  ASSUME MetricsInv, NEW s \in Searches, NEW here \in Steps, NEW next \in Steps,
         Load(s, here, next)
  PROVE  MetricsInv'
<1>1. PICK n \in Latencies : /\ ms' = [ms EXCEPT ![s] = n]
                             /\ slowest' = IF n > slowest THEN n ELSE slowest
  BY DEF Load
<1>2. n \in Nat
  BY LatencyAssumption
<1>3. slowest' \in Nat /\ slowest <= slowest' /\ n <= slowest'
  BY <1>1, <1>2 DEF MetricsInv, MetricsTypeOK
<1>4. MetricsTypeOK'
  BY <1>1, <1>2, <1>3 DEF MetricsInv, MetricsTypeOK, Load
<1>5. AverageBounded'
  BY <1>3 DEF MetricsInv, MetricsTypeOK, AverageBounded, Load
<1>6. LoadsBounded'
  <2>1. ASSUME NEW u \in Searches
        PROVE  loaded'[u] <= slowest' /\ ms'[u] <= slowest'
    BY <1>1, <1>2, <1>3 DEF MetricsInv, MetricsTypeOK, AverageBounded, LoadsBounded, Load
  <2> QED
    BY <2>1 DEF LoadsBounded
<1> QED
  BY <1>4, <1>5, <1>6 DEF MetricsInv

LEMMA StoreKeeps ==
  ASSUME MetricsInv, NEW s \in Searches, NEW here \in Steps, NEW next \in Steps,
         Store(s, here, next)
  PROVE  MetricsInv'
<1>1. average' \in Nat /\ average' <= slowest
  <2>1. ASSUME NEW a \in Nat, NEW b \in Nat, NEW m \in Nat, a <= m, b <= m
        PROVE  (a + b) \div 2 \in Nat /\ (a + b) \div 2 <= m
    BY <2>1
  <2> QED
    BY <2>1 DEF MetricsInv, MetricsTypeOK, LoadsBounded, Store
<1> QED
  BY <1>1 DEF MetricsInv, MetricsTypeOK, AverageBounded, LoadsBounded, Store

\* However searches overwrite each other's records of their latencies, the
\* average is never above the slowest of them (record_search_latency), for any
\* number of searches.
THEOREM AverageBoundedHolds == MetricsSpec => []AverageBounded
<1>1. MetricsInv /\ [MetricsNext]_metricsVars => MetricsInv'
  <2> SUFFICES ASSUME MetricsInv, [MetricsNext]_metricsVars
               PROVE  MetricsInv'
    OBVIOUS
  <2>1. ASSUME NEW s \in Searches, Count(s)
        PROVE  MetricsInv'
    BY <2>1 DEF MetricsInv, MetricsTypeOK, AverageBounded, LoadsBounded, Count, Steps
  <2>2. CASE UNCHANGED metricsVars
    BY <2>2 DEF MetricsInv, MetricsTypeOK, AverageBounded, LoadsBounded, metricsVars
  <2> QED
    BY LoadKeeps, StoreKeeps, <2>1, <2>2 DEF MetricsNext, Steps
<1>2. MetricsInv => AverageBounded
  BY DEF MetricsInv
<1> QED
  BY InitMetrics, <1>1, <1>2, PTL DEF MetricsSpec

-----------------------------------------------------------------------------
(* Shard                                                                   *)

LEMMA Remainder ==
  ASSUME NEW a \in Nat, NEW b \in Nat \ {0}
  PROVE  a % b \in 0 .. b - 1
  OBVIOUS

LEMMA SmallRemainder ==
  ASSUME NEW a \in Nat, NEW b \in Nat, a < b
  PROVE  a % b = a
  OBVIOUS

LEMMA NextRemainder ==
  ASSUME NEW a \in Nat, NEW b \in Nat \ {0}, b <= a, a < 2 * b
  PROVE  a % b = a - b
  OBVIOUS

LEMMA QuotientAtLeast ==
  ASSUME NEW a \in Nat, NEW b \in Nat \ {0}, NEW q \in Nat, q * b <= a
  PROVE  q <= a \div b
  OBVIOUS

LEMMA QuotientBelow ==
  ASSUME NEW a \in Nat, NEW b \in Nat \ {0}, NEW q \in Nat, a < q * b
  PROVE  a \div b \in Nat /\ a \div b < q
  OBVIOUS

LEMMA QuotientMonotone ==
  ASSUME NEW a \in Nat, NEW b \in Nat, NEW c \in Nat \ {0}, a <= b
  PROVE  a \div c <= b \div c
  OBVIOUS

LEMMA Product ==
  ASSUME NEW a \in Nat, NEW b \in Nat, NEW c \in Nat, a <= b
  PROVE  a * c <= b * c
  OBVIOUS

ShardTypeOK ==
  /\ numShards \in 1 .. Half - 1
  /\ factor \in 0 .. Half - 1
  /\ number \in 0 .. MaxU64
  /\ shard \in Shards

\* The range of a shard is so large that no number's quotient by it needs more
\* than the bits of a shard's number.
LEMMA RangeSize ==
  ASSUME numShards \in 1 .. Half - 1
  PROVE  /\ MaxU64 \in Nat
         /\ MaxU64 \div numShards \in Nat \ {0}
         /\ \A n \in 0 .. MaxU64 : /\ n \div (MaxU64 \div numShards) \in Nat
                                  /\ n \div (MaxU64 \div numShards) < Half
<1> DEFINE range == MaxU64 \div numShards
<1>1. MaxU64 \in Nat /\ MaxU64 = (Half - 1) * (Half + 1)
  BY HalfAssumption DEF MaxU64
<1>2. (Half + 1) * numShards <= MaxU64
  <2>1. numShards * (Half + 1) <= (Half - 1) * (Half + 1)
    BY Product, HalfAssumption
  <2>2. (Half + 1) * numShards = numShards * (Half + 1)
    BY HalfAssumption
  <2> QED
    BY <1>1, <2>1, <2>2
<1>3. range \in Nat /\ Half + 1 <= range
  <2>1. Half + 1 <= range
    BY <1>1, <1>2, QuotientAtLeast, HalfAssumption
  <2>2. range \in Int
    BY <1>1
  <2> QED
    BY <2>1, <2>2, HalfAssumption
<1>4. ASSUME NEW n \in 0 .. MaxU64
      PROVE  n \div range \in Nat /\ n \div range < Half
  <2>1. n < Half * (Half + 1)
    BY <1>1, HalfAssumption
  <2>2. (Half + 1) * Half <= range * Half
    BY <1>3, Product, HalfAssumption
  <2>3. n < Half * range
    <3>1. (Half + 1) * Half = Half * (Half + 1) /\ range * Half = Half * range
      BY <1>3, HalfAssumption
    <3> HIDE DEF range
    <3> QED
      BY <1>1, <1>3, <2>1, <2>2, <3>1, HalfAssumption
  <2> HIDE DEF range
  <2> QED
    BY <1>1, <1>3, <2>3, QuotientBelow, HalfAssumption
<1> QED
  BY <1>1, <1>3, <1>4, HalfAssumption

LEMMA Routed ==
  ASSUME numShards \in 1 .. Half - 1, NEW n \in 0 .. MaxU64
  PROVE  RangeRoute(n) \in Shards /\ HashRoute(n) \in Shards
<1>1. n \in Nat /\ numShards \in Nat \ {0}
  BY HalfAssumption, RangeSize
<1>2. HashRoute(n) \in Shards
  BY <1>1, Remainder DEF HashRoute, Shards
<1>3. RangeRoute(n) \in Shards
  <2> DEFINE q == n \div (MaxU64 \div numShards)
  <2>1. q \in Nat /\ q % Half = q
    BY RangeSize, SmallRemainder, HalfAssumption
  <2> HIDE DEF q
  <2>2. RangeRoute(n) = IF q < numShards - 1 THEN q ELSE numShards - 1
    BY <2>1 DEF RangeRoute, q
  <2> QED
    BY <1>1, <2>1, <2>2 DEF Shards
<1> QED
  BY <1>2, <1>3

LEMMA Ordered ==
  ASSUME numShards \in 1 .. Half - 1, NEW n \in 0 .. MaxU64, NEW m \in 0 .. MaxU64, n <= m
  PROVE  RangeRoute(n) <= RangeRoute(m)
<1> DEFINE Q(k) == k \div (MaxU64 \div numShards)
<1>1. n \in Nat /\ m \in Nat /\ numShards \in Nat \ {0}
  BY HalfAssumption, RangeSize
<1>2. Q(n) \in Nat /\ Q(n) % Half = Q(n) /\ Q(m) \in Nat /\ Q(m) % Half = Q(m)
  BY RangeSize, SmallRemainder, HalfAssumption
<1>3. Q(n) <= Q(m)
  BY <1>1, RangeSize, QuotientMonotone
<1>4. \A k \in {n, m} : RangeRoute(k) = IF Q(k) < numShards - 1 THEN Q(k) ELSE numShards - 1
  BY <1>2 DEF RangeRoute
<1> HIDE DEF Q
<1> QED
  BY <1>1, <1>2, <1>3, <1>4

\* The copies of a shard go round the shards, at most once.
LEMMA CopiesDiffer ==
  ASSUME ShardTypeOK, factor <= numShards, 2 * numShards <= Half,
         NEW i \in Copies, NEW j \in Copies
  PROVE  /\ Replica(shard, i) \in Shards
         /\ i # j => Replica(shard, i) # Replica(shard, j)
         /\ Replica(shard, 0) = shard
<1>1. /\ shard \in Nat /\ shard < numShards /\ numShards \in Nat \ {0}
      /\ i \in Nat /\ i < numShards /\ j \in Nat /\ j < numShards
  BY HalfAssumption DEF ShardTypeOK, Shards, Copies
<1>2. ASSUME NEW k \in Nat, k < numShards
      PROVE  Replica(shard, k) = IF shard + k < numShards THEN shard + k
                                 ELSE shard + k - numShards
  <2>1. shard + k \in Nat /\ shard + k < Half /\ shard + k < 2 * numShards
    BY <1>1, <1>2, HalfAssumption
  <2>2. Replica(shard, k) = (shard + k) % numShards
    BY <2>1, SmallRemainder, HalfAssumption DEF Replica
  <2> QED
    BY <1>1, <2>1, <2>2, SmallRemainder, NextRemainder
<1> QED
  BY <1>1, <1>2 DEF Shards

\* A document goes to a shard that exists, larger numbers never to earlier
\* shards, and the copies of a shard are on different ones (route_by_id,
\* get_replicas), for integers of any width.
THEOREM ShardsExactHolds == ShardSpec => []ShardsExact
<1>1. ShardInit => ShardTypeOK
  BY HalfAssumption, RangeSize DEF ShardInit, ShardTypeOK, Shards
<1>2. ShardTypeOK /\ [ShardNext]_shardVars => ShardTypeOK'
  <2> SUFFICES ASSUME ShardTypeOK, [ShardNext]_shardVars PROVE ShardTypeOK'
    OBVIOUS
  <2>1. ASSUME NEW n \in 0 .. MaxU64, RouteById(n) PROVE ShardTypeOK'
    <3>1. RangeRoute(n) \in Shards /\ HashRoute(n) \in Shards
      BY Routed DEF ShardTypeOK
    <3>2. shard' \in Shards
      BY <2>1, <3>1 DEF RouteById
    <3> QED
      BY <2>1, <3>2 DEF RouteById, ShardTypeOK, Shards
  <2>2. CASE UNCHANGED shardVars
    BY <2>2 DEF ShardTypeOK, shardVars, Shards
  <2> QED
    BY <2>1, <2>2 DEF ShardNext
<1>3. ShardTypeOK => ShardsExact
  <2> SUFFICES ASSUME ShardTypeOK PROVE ShardsExact
    OBVIOUS
  <2>1. RoutesToAShard
    BY DEF ShardTypeOK, RoutesToAShard
  <2>2. LargerNotEarlier
    BY Ordered, RangeSize DEF ShardTypeOK, LargerNotEarlier
  <2>3. CopiesApart
    BY CopiesDiffer DEF CopiesApart
  <2> QED
    BY <2>1, <2>2, <2>3 DEF ShardsExact
<1> QED
  BY <1>1, <1>2, <1>3, PTL DEF ShardSpec

-----------------------------------------------------------------------------
(* Client                                                                  *)

ClientTypeOK ==
  /\ place \in Nat \ {0}
  /\ attempt \in Nat
  /\ sending \in BOOLEAN
  /\ success \subseteq Nat
  /\ errors \subseteq Nat
  /\ atServer \subseteq (Nat \cap DOMAIN File) \X Nat
  /\ answer \in {"none", "ok", "error"}
  /\ held \in [Ids -> Nat \cup {NotHeld}]
  /\ served \subseteq Nat \cap DOMAIN File
  /\ late \in BOOLEAN

Counted ==
  /\ success \cup errors = 1 .. place - 1
  /\ success \cap errors = {}

\* The server has what it said it has, if it did not ignore it, and nothing of
\* what is yet to come.
Served ==
  /\ success \subseteq served
  /\ \A i \in served : i <= place
  /\ \A i \in served \ ignored : held[File[i]] # NotHeld
  /\ \A t \in atServer : t[1] <= place

\* What the client waits for.
Waited ==
  /\ sending => place \in DOMAIN File
  /\ answer = "ok" => place \in served

\* As long as no try is late, none is with the server but the one the client
\* waits for, until that is answered.
InOrder ==
  ~late => /\ \A t \in atServer : sending /\ t = Try /\ answer = "none"
           /\ \A i \in served \ ignored : held[File[i]] >= i

ClientInv == ClientTypeOK /\ Counted /\ Served /\ Waited /\ InOrder

LEMMA InitClient == ClientInit => ClientInv
<1> SUFFICES ASSUME ClientInit PROVE ClientInv
  OBVIOUS
<1>1. ClientTypeOK
  <2>1. held \in [Ids -> Nat \cup {NotHeld}]
    BY DEF ClientInit
  <2>2. place \in Nat \ {0} /\ attempt \in Nat
    BY DEF ClientInit
  <2>3. sending \in BOOLEAN /\ late \in BOOLEAN
    BY DEF ClientInit
  <2> QED
    BY <2>1, <2>2, <2>3 DEF ClientInit, ClientTypeOK
<1>2. Counted /\ Served /\ Waited /\ InOrder
  BY DEF ClientInit, Counted, Served, Waited, InOrder
<1> QED
  BY <1>1, <1>2 DEF ClientInv

LEMMA SendKeeps == ClientInv /\ Send => ClientInv'
<1> SUFFICES ASSUME ClientInv, Send PROVE ClientInv'
  OBVIOUS
<1> USE DEF ClientInv, ClientTypeOK, Send
<1>1. ClientTypeOK'
  OBVIOUS
<1>2. Counted'
  BY DEF Counted
<1>3. Served'
  BY DEF Served
<1>4. Waited'
  BY DEF Waited
<1>5. InOrder'
  BY DEF InOrder, Try
<1> QED
  BY <1>1, <1>2, <1>3, <1>4, <1>5

LEMMA ServeKeeps == ASSUME ClientInv, NEW try \in atServer, Serve(try) PROVE ClientInv'
<1> USE DEF ClientInv, ClientTypeOK
<1>1. PICK ok \in BOOLEAN, indexed \in BOOLEAN :
        /\ answer' = IF try = Try /\ sending THEN IF ok THEN "ok" ELSE "error" ELSE answer
        /\ served' = IF ok THEN served \cup {try[1]} ELSE served
        /\ held' = IF indexed THEN [held EXCEPT ![File[try[1]]] = try[1]] ELSE held
        /\ ignored' = IF indexed THEN ignored \ {try[1]}
                      ELSE IF ok THEN ignored \cup {try[1]} ELSE ignored
  BY DEF Serve
<1>2. /\ try[1] \in Nat \cap DOMAIN File /\ File[try[1]] \in Ids
      /\ UNCHANGED <<place, attempt, sending, success, errors, late>>
      /\ atServer' = atServer \ {try}
  BY DEF Ids, Serve
<1>3. ClientTypeOK'
  BY <1>1, <1>2
<1>4. Counted'
  BY <1>2 DEF Counted
<1>5. \A i \in served : File[i] \in Ids
  BY DEF Ids
<1>6. Served'
  <2>1. ASSUME NEW i \in served' PROVE i <= place
    BY <1>1, <1>2 DEF Served
  <2>2. ASSUME NEW i \in served' \ ignored' PROVE held'[File[i]] # NotHeld
    BY <1>1, <1>2, <1>5, <2>2, FileAssumption DEF Served
  <2> QED
    BY <1>1, <1>2, <2>1, <2>2 DEF Served
<1>7. Waited'
  BY <1>1, <1>2 DEF Waited, Try
<1>8. InOrder'
  <2> SUFFICES ASSUME ~late PROVE InOrder'
    BY <1>2 DEF InOrder
  <2>1. try = Try /\ sending /\ atServer' = {} /\ try[1] = place
    BY <1>2 DEF InOrder, Try
  <2>2. ASSUME NEW i \in served' \ ignored' PROVE held'[File[i]] >= i
    BY <1>1, <1>2, <1>5, <2>1, <2>2 DEF InOrder, Served
  <2> QED
    BY <1>2, <2>1, <2>2 DEF InOrder
<1> QED
  BY <1>3, <1>4, <1>6, <1>7, <1>8

\* The ends of a try: the document is done, or it is sent again.
LEMMA TryEnds ==
  ASSUME ClientInv, sending,
         \/ Succeeded /\ place \in served
         \/ Failed
  PROVE  /\ place' \in Nat \ {0} /\ attempt' \in Nat /\ sending' = FALSE
         /\ place <= place'
         /\ success' \subseteq Nat /\ errors' \subseteq Nat
         /\ Counted'
         /\ success' \subseteq served
<1> USE DEF ClientInv, ClientTypeOK
<1>1. CASE Succeeded /\ place \in served
  BY <1>1 DEF Succeeded, Counted, Served
<1>2. CASE Failed /\ attempt = MaxRetries
  BY <1>2 DEF Failed, Counted, Served
<1>3. CASE Failed /\ attempt # MaxRetries
  BY <1>3 DEF Failed, Counted, Served
<1> QED
  BY <1>1, <1>2, <1>3

LEMMA ReceiveKeeps == ClientInv /\ Receive => ClientInv'
<1> SUFFICES ASSUME ClientInv, Receive PROVE ClientInv'
  OBVIOUS
<1> USE DEF ClientInv, ClientTypeOK
<1>1. /\ sending /\ answer # "none" /\ answer' = "none"
      /\ UNCHANGED <<atServer, held, served, ignored, late>>
      /\ \/ Succeeded /\ place \in served
         \/ Failed
  BY DEF Receive, Waited
<1>2. /\ place' \in Nat \ {0} /\ attempt' \in Nat /\ sending' = FALSE
      /\ place <= place'
      /\ success' \subseteq Nat /\ errors' \subseteq Nat
      /\ Counted'
      /\ success' \subseteq served
  BY <1>1, TryEnds
<1>3. ClientTypeOK'
  BY <1>1, <1>2
<1>4. Served'
  BY <1>1, <1>2 DEF Served
<1>5. Waited' /\ InOrder'
  BY <1>1, <1>2 DEF Waited, InOrder
<1> QED
  BY <1>2, <1>3, <1>4, <1>5

LEMMA GiveUpKeeps == ClientInv /\ GiveUp => ClientInv'
<1> SUFFICES ASSUME ClientInv, GiveUp PROVE ClientInv'
  OBVIOUS
<1> USE DEF ClientInv, ClientTypeOK
<1>1. /\ sending /\ answer' = "none" /\ Failed
      /\ UNCHANGED <<held, served, ignored>>
      /\ atServer' \subseteq atServer
      /\ late' = (late \/ Try \in atServer')
  BY DEF GiveUp
<1>2. /\ place' \in Nat \ {0} /\ attempt' \in Nat /\ sending' = FALSE
      /\ place <= place'
      /\ success' \subseteq Nat /\ errors' \subseteq Nat
      /\ Counted'
      /\ success' \subseteq served
  BY <1>1, TryEnds
<1>3. late' \in BOOLEAN
  BY <1>1
<1>4. ClientTypeOK'
  BY <1>1, <1>2, <1>3
<1>5. Served'
  BY <1>1, <1>2 DEF Served
<1>6. Waited' /\ InOrder'
  BY <1>1, <1>2 DEF Waited, InOrder
<1> QED
  BY <1>2, <1>4, <1>5, <1>6

\* However answers are lost and tries repeated, the documents that the index
\* command counts as indexed and the engine did not ignore the server has, and
\* unless a try was given up that may still be carried out, in the order of the
\* file (retry_with_backoff, insert_document_api), for any file.
THEOREM ReportsTrueHolds == ClientSpec => []ReportsTrue
<1>1. ClientInv /\ [ClientNext]_clientVars => ClientInv'
  <2> SUFFICES ASSUME ClientInv, [ClientNext]_clientVars PROVE ClientInv'
    OBVIOUS
  <2>1. CASE UNCHANGED clientVars
    BY <2>1 DEF clientVars, ClientInv, ClientTypeOK, Counted, Served, Waited, InOrder, Try
  <2> QED
    BY <2>1, SendKeeps, ReceiveKeeps, GiveUpKeeps, ServeKeeps DEF ClientNext
<1>2. ClientInv => ReportsTrue
  BY DEF ClientInv, ClientTypeOK, Counted, Served, InOrder, ReportsTrue
<1> QED
  BY InitClient, <1>1, <1>2, PTL DEF ClientSpec

-----------------------------------------------------------------------------
(* Snapshots: for any files and contents, a restore brings back what a     *)
(* complete snapshot of a stopped server has kept.                         *)

\* What is done of the command, file by file, as long as no server runs.
Progress ==
  /\ still => ~serving
  /\ command \in {"remove", "copy"} => taken = NotTaken
  /\ command = "remove" => \A p \in Paths \ listed : snapshot[p] = Absent
  /\ command = "copy" /\ still => \A p \in Paths \ listed : snapshot[p] = live[p]
  /\ command = "clear" /\ still => \A p \in Paths \ listed : live[p] = Absent
  /\ command = "restore" /\ still => \A p \in Paths \ listed : live[p] = snapshot[p]

SnapshotsInv == SnapshotsTypeOK /\ SnapshotKept /\ Progress

LEMMA InitSnapshots == SnapshotsInit => SnapshotsInv
<1> SUFFICES ASSUME SnapshotsInit PROVE SnapshotsInv
  OBVIOUS
<1>1. live \in Trees /\ snapshot \in Trees
  BY DEF SnapshotsInit, Trees, Content, Nothing
<1>2. SnapshotsTypeOK
  <2>1. {exists, serving, still} \subseteq BOOLEAN
    BY DEF SnapshotsInit
  <2>2. kills \in 0 .. MaxKills
    BY KillAssumption DEF SnapshotsInit
  <2> QED
    BY <1>1, <2>1, <2>2 DEF SnapshotsInit, SnapshotsTypeOK, Commands, NotTaken
<1>3. SnapshotKept /\ Progress
  BY DEF SnapshotsInit, SnapshotKept, Progress, Nothing, NotTaken
<1> QED
  BY <1>2, <1>3 DEF SnapshotsInv

LEMMA StepTypes == SnapshotsTypeOK /\ [SnapshotsNext]_snapshotVars => SnapshotsTypeOK'
<1> USE KillAssumption DEF SnapshotsTypeOK, Commands, NotTaken, Trees, Content, Present
<1> SUFFICES ASSUME SnapshotsTypeOK, [SnapshotsNext]_snapshotVars
             PROVE  SnapshotsTypeOK'
  OBVIOUS
<1>1. CASE ServerStarts \/ ServerStops
  BY <1>1 DEF ServerStarts, ServerStops
<1>2. ASSUME NEW p \in Paths, NEW d \in Data \cup {Absent}, ServerWrites(p, d)
      PROVE  SnapshotsTypeOK'
  BY <1>2 DEF ServerWrites
<1>3. CASE CreateBegin \/ RestoreBegin
  BY <1>3 DEF CreateBegin, RestoreBegin
<1>4. CASE CopyBegin \/ ClearDone \/ RestoreDone
  BY <1>4 DEF CopyBegin, ClearDone, RestoreDone
<1>5. CASE CopyDone
  BY <1>5 DEF CopyDone
<1>6. ASSUME NEW p \in Paths, RemoveNext(p) \/ CopyNext(p) \/ ClearNext(p) \/ RestoreNext(p)
      PROVE  SnapshotsTypeOK'
  BY <1>6 DEF RemoveNext, CopyNext, ClearNext, RestoreNext
<1>7. CASE Fail
  <2>1. kills' \in 0 .. MaxKills
    BY <1>7 DEF Fail
  <2>2. {exists', serving', still'} \subseteq BOOLEAN
    BY <1>7 DEF Fail
  <2>3. live' \in Trees /\ snapshot' \in Trees
    BY <1>7 DEF Fail
  <2> QED
    BY <1>7, <2>1, <2>2, <2>3 DEF Fail
<1>8. CASE UNCHANGED snapshotVars
  BY <1>8 DEF snapshotVars
<1> QED
  BY <1>1, <1>2, <1>3, <1>4, <1>5, <1>6, <1>7, <1>8 DEF SnapshotsNext, CommandStep

\* Trees that agree on all files are one.
LEMMA SameTree ==
  ASSUME NEW s \in Trees, NEW t \in Trees, \A p \in Paths : s[p] = t[p]
  PROVE  s = t
  BY DEF Trees

LEMMA StepProgress ==
  SnapshotsInv /\ [SnapshotsNext]_snapshotVars => Progress' /\ SnapshotKept'
<1> USE DEF SnapshotsInv, SnapshotsTypeOK, SnapshotKept, Progress, Commands, NotTaken, Present
<1> SUFFICES ASSUME SnapshotsInv, [SnapshotsNext]_snapshotVars
             PROVE  Progress' /\ SnapshotKept'
  OBVIOUS
<1>1. CASE ServerStarts \/ ServerStops
  BY <1>1 DEF ServerStarts, ServerStops
<1>2. ASSUME NEW p \in Paths, NEW d \in Data \cup {Absent}, ServerWrites(p, d)
      PROVE  Progress' /\ SnapshotKept'
  BY <1>2 DEF ServerWrites
<1>3. CASE CreateBegin
  BY <1>3 DEF CreateBegin
<1>4. CASE RestoreBegin
  BY <1>4 DEF RestoreBegin
<1>5. CASE CopyBegin
  BY <1>5 DEF CopyBegin
<1>6. CASE CopyDone
  <2>1. still => snapshot = live
    BY <1>6, SameTree DEF CopyDone
  <2> QED
    BY <1>6, <2>1 DEF CopyDone
<1>7. CASE ClearDone
  BY <1>7 DEF ClearDone
<1>8. CASE RestoreDone
  BY <1>8 DEF RestoreDone
<1>9. ASSUME NEW p \in Paths, RemoveNext(p) \/ CopyNext(p) \/ ClearNext(p) \/ RestoreNext(p)
      PROVE  Progress' /\ SnapshotKept'
  <2> USE DEF Trees
  <2>1. CASE RemoveNext(p)
    BY <2>1 DEF RemoveNext
  <2>2. CASE CopyNext(p)
    BY <2>2 DEF CopyNext
  <2>3. CASE ClearNext(p)
    BY <2>3 DEF ClearNext
  <2>4. CASE RestoreNext(p)
    BY <2>4 DEF RestoreNext
  <2> QED
    BY <1>9, <2>1, <2>2, <2>3, <2>4
<1>10. CASE Fail
  BY <1>10 DEF Fail
<1>11. CASE UNCHANGED snapshotVars
  BY <1>11 DEF snapshotVars
<1> QED
  BY <1>1, <1>2, <1>3, <1>4, <1>5, <1>6, <1>7, <1>8, <1>9, <1>10, <1>11
     DEF SnapshotsNext, CommandStep

\* Every variable of the snapshot commands keeps its type, a complete snapshot of
\* a stopped server stays what it was, and the files that a command is through
\* with are as it should leave them.
THEOREM SnapshotsInvariant == SnapshotsSpec => []SnapshotsInv
<1>1. SnapshotsInv /\ [SnapshotsNext]_snapshotVars => SnapshotsInv'
  BY StepTypes, StepProgress DEF SnapshotsInv
<1> QED
  BY InitSnapshots, <1>1, PTL DEF SnapshotsSpec

\* A restore that ends while no server runs brings back exactly what the
\* snapshot was taken of (restore_snapshot), for any number of files, kills and
\* repetitions.
THEOREM RestoreIsExact == SnapshotsSpec => RestoreExact
<1>1. SnapshotsInv /\ [SnapshotsNext]_snapshotVars
        => [RestoreDone /\ still /\ taken # NotTaken => live \in taken]_snapshotVars
  <2> SUFFICES ASSUME SnapshotsInv, RestoreDone, still, taken # NotTaken
               PROVE  live \in taken
    OBVIOUS
  <2>1. snapshot \in taken
    BY DEF SnapshotsInv, SnapshotKept
  <2>2. live = snapshot
    BY SameTree DEF SnapshotsInv, SnapshotsTypeOK, Progress, RestoreDone
  <2> QED
    BY <2>1, <2>2
<1> QED
  BY SnapshotsInvariant, <1>1, PTL DEF SnapshotsSpec, RestoreExact

-----------------------------------------------------------------------------
(* Locks: every operation takes its locks in one order, so that any number *)
(* of threads that run any of them always go on.                           *)

\* The order in which operations take locks while they hold others.
Rank(l) ==
  CASE l = "collections"      -> 1
    [] l = "segment_managers" -> 2
    [] l = "tokenizers"       -> 3
    [] l = "shard_routers"    -> 4
    [] l = "field_weights"    -> 5
    [] l = "buffer"           -> 6
    [] l = "next_segment_id"  -> 7
    [] l = "segments"         -> 8
    [] OTHER                  -> 0

\* The i-th step takes a lock and the n steps from the beginning do not
\* release it.
Keeps(program, i, n) ==
  /\ program[i].do # "release"
  /\ \A j \in i + 1 .. n : program[j] # U(program[i].lock)

\* What the step after the n-th takes comes after all that is held then.
Ascends(program, n) ==
  program[n + 1].do # "release" =>
    \A i \in 1 .. n : Keeps(program, i, n) =>
      Rank(program[i].lock) < Rank(program[n + 1].lock)

IsProgram(program) ==
  /\ Len(program) \in Nat
  /\ \A n \in 0 .. Len(program) - 1 :
       /\ program[n + 1] \in [do : {"read", "write", "release"}, lock : LockNames]
       /\ Ascends(program, n)

LEMMA RankType == \A l \in LockNames : Rank(l) \in 1 .. 8
  BY DEF LockNames, Rank

LEMMA CreateOk == IsProgram(CreateCollection)
  BY DEF IsProgram, Ascends, Keeps, CreateCollection, R, W, U, LockNames, Rank

LEMMA DropOk == IsProgram(DeleteCollection)
  BY DEF IsProgram, Ascends, Keeps, DeleteCollection, R, W, U, LockNames, Rank

LEMMA SearchOk == IsProgram(Search)
  BY DEF IsProgram, Ascends, Keeps, Search, R, W, U, LockNames, Rank

LEMMA InsertOk == IsProgram(BufferDocument)
  BY DEF IsProgram, Ascends, Keeps, BufferDocument, R, W, U, LockNames, Rank

LEMMA DeleteOk == IsProgram(DeleteDocument)
  BY DEF IsProgram, Ascends, Keeps, DeleteDocument, R, W, U, LockNames, Rank

LEMMA ListOk == IsProgram(GetDocuments)
  BY DEF IsProgram, Ascends, Keeps, GetDocuments, R, W, U, LockNames, Rank

LEMMA FindOk == IsProgram(GetCollection)
  BY DEF IsProgram, Ascends, Keeps, GetCollection, R, W, U, LockNames, Rank

LEMMA FlushOk == IsProgram(FlushBuffer)
  BY DEF IsProgram, Ascends, Keeps, FlushBuffer, R, W, U, LockNames, Rank

LEMMA OperationNames ==
  /\ Operations = {"create", "drop", "search", "insert", "flush", "delete", "list", "find"}
  /\ None \notin Operations
  BY DEF Operations, Programs, None

LEMMA ProgramsOk == \A op \in Operations : IsProgram(Programs[op])
<1> SUFFICES ASSUME NEW op \in Operations PROVE IsProgram(Programs[op])
  OBVIOUS
<1>1. Programs[op] \in {CreateCollection, DeleteCollection, Search, BufferDocument,
                        FlushBuffer, DeleteDocument, GetDocuments, GetCollection}
  BY OperationNames DEF Programs
<1> QED
  BY <1>1, CreateOk, DropOk, SearchOk, InsertOk, FlushOk, DeleteOk, ListOk, FindOk

\* What an operation takes comes after everything that it holds.
LEMMA HeldBelow ==
  ASSUME NEW op \in Operations, NEW n \in 0 .. Len(Programs[op]) - 1,
         NEW mode \in {"read", "write"}, NEW l \in Held[op][n][mode],
         Programs[op][n + 1].do # "release"
  PROVE  Rank(l) < Rank(Programs[op][n + 1].lock)
<1> DEFINE program == Programs[op]
<1>1. IsProgram(program)
  BY ProgramsOk
<1>2. n \in 0 .. Len(program) - 1 /\ n \in 0 .. Len(program)
  BY <1>1 DEF IsProgram
<1>3. l \in HeldAfter(program, n, mode)
  BY <1>2 DEF Held
<1> HIDE DEF program
<1>4. PICK i \in 1 .. n : /\ program[i] = [do |-> mode, lock |-> l]
                         /\ \A j \in i + 1 .. n : program[j] # U(l)
  BY <1>3 DEF HeldAfter
<1>5. program[i].do = mode /\ program[i].lock = l
  BY <1>4
<1>6. Keeps(program, i, n)
  BY <1>4, <1>5 DEF Keeps
<1>7. Ascends(program, n)
  BY <1>1, <1>2 DEF IsProgram
<1> QED
  BY <1>5, <1>6, <1>7 DEF Ascends, program

\* Of some ranks one is the last.
LEMMA LastRank ==
  ASSUME NEW S \in SUBSET (1 .. 8), \A r \in S : \E q \in S : r < q
  PROVE  S = {}
<1>1. 8 \notin S
  OBVIOUS
<1>2. 7 \notin S
  BY <1>1
<1>3. 6 \notin S
  BY <1>1, <1>2
<1>4. 5 \notin S
  BY <1>1, <1>2, <1>3
<1>5. 4 \notin S
  BY <1>1, <1>2, <1>3, <1>4
<1>6. 3 \notin S
  BY <1>1, <1>2, <1>3, <1>4, <1>5
<1>7. 2 \notin S
  BY <1>1, <1>2, <1>3, <1>4, <1>5, <1>6
<1> QED
  BY <1>1, <1>2, <1>3, <1>4, <1>5, <1>6, <1>7

\* Every thread is at a step of a program (SearchEngine, SegmentManager), for
\* any number of threads and operations.
THEOREM LocksTypesHold == LocksSpec => []LocksTypeOK
<1>1. LocksInit => LocksTypeOK
  BY OperationsAssumption DEF LocksInit, LocksTypeOK, Busy
<1>2. LocksTypeOK /\ [LocksNext]_locksVars => LocksTypeOK'
  <2> SUFFICES ASSUME LocksTypeOK, [LocksNext]_locksVars PROVE LocksTypeOK'
    OBVIOUS
  <2> USE DEF LocksTypeOK, Busy, Program
  <2>1. \A op \in Operations : Len(Programs[op]) \in Nat /\ op # None
    BY ProgramsOk, OperationNames DEF IsProgram
  <2>2. ASSUME NEW t \in Threads, NEW op \in Operations, BeginOperation(t, op)
        PROVE  LocksTypeOK'
    BY <2>1, <2>2, OperationsAssumption DEF BeginOperation
  <2>3. ASSUME NEW t \in Threads, StepOperation(t)
        PROVE  LocksTypeOK'
    BY <2>1, <2>3 DEF StepOperation, AtEnd
  <2>4. ASSUME NEW t \in Threads, EndOperation(t)
        PROVE  LocksTypeOK'
    BY <2>1, <2>4 DEF EndOperation
  <2>5. CASE UNCHANGED locksVars
    BY <2>5 DEF locksVars
  <2> QED
    BY <2>2, <2>3, <2>4, <2>5 DEF LocksNext
<1> QED
  BY <1>1, <1>2, PTL DEF LocksSpec

\* A thread that cannot go on waits for a lock that somebody holds, maybe
\* behind a writer who waits for it as well.
LEMMA Blocked ==
  ASSUME LocksTypeOK,
         \A t \in Threads : Busy(t) => ~AtEnd(t) /\ ~MayStep(t),
         NEW t \in Threads, Busy(t)
  PROVE  /\ running[t] \in Operations
         /\ at[t] \in 0 .. Len(Program(t)) - 1
         /\ NextStep(t).do # "release"
         /\ NextStep(t).lock \in LockNames
         /\ \E u \in Threads, mode \in {"read", "write"} :
              Busy(u) /\ Holds(u, NextStep(t).lock, mode)
<1>1. ASSUME NEW v \in Threads, Busy(v)
      PROVE  /\ running[v] \in Operations
             /\ at[v] \in 0 .. Len(Program(v)) - 1
             /\ NextStep(v) \in [do : {"read", "write", "release"}, lock : LockNames]
             /\ NextStep(v).do # "release"
  <2>1. running[v] \in Operations /\ IsProgram(Program(v))
    BY <1>1, ProgramsOk DEF LocksTypeOK, Busy, Program
  <2>2. at[v] \in 0 .. Len(Program(v)) - 1
    BY <1>1, <2>1 DEF LocksTypeOK, IsProgram, AtEnd
  <2>3. NextStep(v) \in [do : {"read", "write", "release"}, lock : LockNames]
    BY <2>1, <2>2 DEF IsProgram, NextStep
  <2>4. NextStep(v).do # "release"
    BY <1>1 DEF MayStep
  <2> QED
    BY <2>1, <2>2, <2>3, <2>4
<1>2. ASSUME NEW v \in Threads, Busy(v), NextStep(v).do = "write"
      PROVE  \E u \in Threads, mode \in {"read", "write"} :
               Busy(u) /\ Holds(u, NextStep(v).lock, mode)
  BY <1>2 DEF MayStep, Holds
<1>3. ASSUME NextStep(t).do = "read"
      PROVE  \E u \in Threads, mode \in {"read", "write"} :
               Busy(u) /\ Holds(u, NextStep(t).lock, mode)
  <2>1. PICK u \in Threads : \/ Holds(u, NextStep(t).lock, "write")
                            \/ WantsToWrite(u, NextStep(t).lock)
    BY <1>3 DEF MayStep
  <2>2. CASE Holds(u, NextStep(t).lock, "write")
    BY <2>2 DEF Holds
  <2>3. CASE WantsToWrite(u, NextStep(t).lock)
    <3>1. /\ Busy(u) /\ NextStep(u).do = "write"
          /\ NextStep(u).lock = NextStep(t).lock
      BY <2>3 DEF WantsToWrite, W
    <3> QED
      BY <1>2, <3>1
  <2> QED
    BY <2>1, <2>2, <2>3
<1> QED
  BY <1>1, <1>2, <1>3

\* Whichever operations of the engine overlap, one of them can go on
\* (create_collection, delete_collection, search, insert_document,
\* flush_buffer, get_documents), for any number of threads and operations: of
\* the locks that threads wait for the last is held by nobody who waits.
THEOREM NoDeadlockHolds == LocksSpec => []NoDeadlock
<1>1. LocksTypeOK => NoDeadlock
  <2> SUFFICES ASSUME LocksTypeOK, NEW first \in Threads, Busy(first),
                      \A t \in Threads : Busy(t) => ~AtEnd(t) /\ ~MayStep(t)
               PROVE  FALSE
    BY DEF NoDeadlock
  <2> DEFINE Wait(t) == Rank(NextStep(t).lock)
             Waits == {Wait(t) : t \in {u \in Threads : Busy(u)}}
  <2>1. ASSUME NEW t \in Threads, Busy(t)
        PROVE  \E u \in Threads : Busy(u) /\ Wait(t) < Wait(u)
    <3>1. PICK u \in Threads, mode \in {"read", "write"} :
            Busy(u) /\ Holds(u, NextStep(t).lock, mode)
      BY <2>1, Blocked
    <3>2. /\ running[u] \in Operations
          /\ at[u] \in 0 .. Len(Program(u)) - 1
          /\ NextStep(u).do # "release"
      BY <3>1, Blocked
    <3> QED
      BY <3>1, <3>2, HeldBelow DEF Holds, NextStep, Program
  <2>2. Waits \in SUBSET (1 .. 8)
    BY Blocked, RankType
  <2>3. Waits = {}
    <3>1. \A r \in Waits : \E q \in Waits : r < q
      BY <2>1
    <3> QED
      BY <2>2, <3>1, LastRank
  <2> QED
    BY <2>3
<1> QED
  BY LocksTypesHold, <1>1, PTL
=============================================================================
