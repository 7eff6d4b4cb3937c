---------------------------- MODULE SearchProofs ----------------------------
(***************************************************************************)
(* Proofs about Index and Search: however segments are flushed and merged, *)
(* for any documents, terms and merge policy, the segments keep their      *)
(* document frequencies, and a search finds nothing that is not stored.    *)
(***************************************************************************)
EXTENDS Search, Recursion, FiniteSetTheorems

\* The documents of a segment, by number.
Contents == UNION {[D -> Docs] : D \in SUBSET Numbers}

\* A segment whose lists have numbers of its documents, as many as documents
\* have the term, and the numbers of just these until a merge.
Sound ==
  {seg \in [docs : Contents, postings : [Terms -> SUBSET Numbers]] :
     \A t \in Terms :
       /\ seg.postings[t] \subseteq DOMAIN seg.docs
       /\ Cardinality(seg.postings[t]) = Cardinality(Holding(seg, t))
       /\ 0 \in DOMAIN seg.docs => seg.postings[t] = Holding(seg, t)}

-----------------------------------------------------------------------------
(* Sets of numbers.                                                        *)

LEMMA NumbersFinite ==
  /\ MaxBatch * MaxFlushes \in Nat /\ Numbers \subseteq Nat
  /\ \A D \in SUBSET Numbers : IsFiniteSet(D)
<1>1. MaxBatch * MaxFlushes \in Nat
  BY IndexConstants
<1>2. IsFiniteSet(Numbers) /\ Numbers \subseteq Nat
  BY <1>1, FS_Interval DEF Numbers
<1> QED  BY <1>1, <1>2, FS_Subset

LEMMA SoundFacts ==
  ASSUME NEW seg \in Sound
  PROVE  /\ DOMAIN seg.docs \subseteq Numbers /\ IsFiniteSet(DOMAIN seg.docs)
         /\ DocCount(seg) \in Nat
         /\ seg.docs \in [DOMAIN seg.docs -> Docs]
         /\ seg.postings \in [Terms -> SUBSET Numbers]
         /\ \A t \in Terms :
              /\ seg.postings[t] \subseteq DOMAIN seg.docs
              /\ IsFiniteSet(seg.postings[t]) /\ Cardinality(seg.postings[t]) \in Nat
              /\ Cardinality(seg.postings[t]) = Cardinality(Holding(seg, t))
<1>1. seg.docs \in Contents /\ seg.postings \in [Terms -> SUBSET Numbers]
  BY DEF Sound
<1>2. PICK D \in SUBSET Numbers : seg.docs \in [D -> Docs]
  BY <1>1 DEF Contents
<1>3. DOMAIN seg.docs = D
  BY <1>2
<1>4. IsFiniteSet(DOMAIN seg.docs) /\ DocCount(seg) \in Nat
  BY <1>3, NumbersFinite, FS_CardinalityType DEF DocCount
<1>5. ASSUME NEW t \in Terms
      PROVE  /\ seg.postings[t] \subseteq DOMAIN seg.docs
             /\ IsFiniteSet(seg.postings[t]) /\ Cardinality(seg.postings[t]) \in Nat
             /\ Cardinality(seg.postings[t]) = Cardinality(Holding(seg, t))
  BY <1>1, NumbersFinite, FS_CardinalityType DEF Sound
<1> QED  BY <1>1, <1>2, <1>3, <1>4, <1>5

\* As many numbers as those moved up by a constant.
LEMMA ShiftedCount ==
  ASSUME NEW n \in Nat, NEW I, I \subseteq Nat, IsFiniteSet(I)
  PROVE  /\ IsFiniteSet({n + i : i \in I})
         /\ Cardinality({n + i : i \in I}) = Cardinality(I)
<1> DEFINE f == [i \in I |-> n + i]
           T == {n + i : i \in I}
<1>1. f \in Bijection(I, T)
  <2>1. f \in [I -> T] /\ \A y \in T : \E i \in I : f[i] = y
    OBVIOUS
  <2>2. \A i, j \in I : f[i] = f[j] => i = j
    OBVIOUS
  <2> HIDE DEF f, T
  <2> QED  BY <2>1, <2>2 DEF Bijection, Injection, Surjection, IsInjective
<1> HIDE DEF f, T
<1>2. ExistsBijection(I, T)
  BY <1>1 DEF ExistsBijection
<1> QED  BY <1>2, FS_Bijection DEF T

-----------------------------------------------------------------------------
(* Lists of documents.                                                     *)

\* The places of a list with a document that has the term.
With(docs, t) == {i \in 1 .. Len(docs) : t \in TermsOf[docs[i]]}

LEMMA WithFinite ==
  ASSUME NEW docs \in Seq(Docs), NEW t
  PROVE  /\ With(docs, t) \subseteq 1 .. Len(docs) /\ IsFiniteSet(With(docs, t))
         /\ Cardinality(With(docs, t)) \in Nat
         /\ Cardinality(With(docs, t)) <= Len(docs)
<1>1. Len(docs) \in Nat
  OBVIOUS
<1>2. IsFiniteSet(1 .. Len(docs)) /\ Cardinality(1 .. Len(docs)) = Len(docs)
  BY <1>1, FS_Interval
<1>3. With(docs, t) \subseteq 1 .. Len(docs)
  BY DEF With
<1> QED  BY <1>2, <1>3, FS_Subset, FS_CardinalityType

LEMMA ConcatWith ==
  ASSUME NEW d \in Seq(Docs), NEW e \in Seq(Docs), NEW t
  PROVE  Cardinality(With(d \o e, t)) = Cardinality(With(d, t)) + Cardinality(With(e, t))
<1> DEFINE S == {Len(d) + i : i \in With(e, t)}
<1>1. Len(d) \in Nat /\ Len(e) \in Nat /\ Len(d \o e) = Len(d) + Len(e)
  OBVIOUS
<1>2. /\ \A i \in 1 .. Len(d) : (d \o e)[i] = d[i]
      /\ \A i \in 1 .. Len(e) : (d \o e)[Len(d) + i] = e[i]
  OBVIOUS
<1>3. With(d \o e, t) = With(d, t) \cup S
  <2>1. ASSUME NEW i \in With(d \o e, t)
        PROVE  i \in With(d, t) \cup S
    <3>1. CASE i \in 1 .. Len(d)
      BY <1>1, <1>2, <3>1 DEF With
    <3>2. CASE i \notin 1 .. Len(d)
      <4>1. i - Len(d) \in 1 .. Len(e) /\ i = Len(d) + (i - Len(d))
        BY <1>1, <3>2 DEF With
      <4>2. (d \o e)[i] = e[i - Len(d)]
        BY <1>2, <4>1
      <4>3. i - Len(d) \in With(e, t)
        BY <4>1, <4>2 DEF With
      <4> QED  BY <4>1, <4>3
    <3> QED  BY <3>1, <3>2
  <2>2. With(d, t) \subseteq With(d \o e, t)
    BY <1>1, <1>2 DEF With
  <2>3. ASSUME NEW i \in With(e, t)
        PROVE  Len(d) + i \in With(d \o e, t)
    <3>1. i \in 1 .. Len(e) /\ Len(d) + i \in 1 .. Len(d \o e)
      BY <1>1 DEF With
    <3>2. (d \o e)[Len(d) + i] = e[i]
      BY <1>2, <3>1
    <3> QED  BY <3>1, <3>2 DEF With
  <2> QED  BY <2>1, <2>2, <2>3
<1>4. With(d, t) \cap S = {}
  BY <1>1 DEF With
<1>5. With(e, t) \subseteq Nat
  BY <1>1 DEF With
<1>6. IsFiniteSet(S) /\ Cardinality(S) = Cardinality(With(e, t))
  <2> HIDE DEF S
  <2> QED  BY <1>1, <1>5, WithFinite, ShiftedCount DEF S
<1> HIDE DEF S
<1>7. Cardinality(With(d, t) \cap S) = 0
  BY <1>4, FS_EmptySet
<1>8. /\ IsFiniteSet(With(d, t)) /\ Cardinality(With(d, t)) \in Nat
      /\ Cardinality(With(e, t)) \in Nat
  BY WithFinite
<1>9. Cardinality(With(d, t) \cup S)
        = Cardinality(With(d, t)) + Cardinality(S) - Cardinality(With(d, t) \cap S)
  BY <1>6, <1>8, FS_Union
<1> QED  BY <1>3, <1>6, <1>7, <1>8, <1>9

\* A file has each document of its segment once.
LEMMA FileOrderFacts ==
  ASSUME NEW seg \in Sound, NEW r \in FileOrders(seg)
  PROVE  /\ r \in Seq(Docs) /\ Len(r) = DocCount(seg)
         /\ \A t \in Terms : Cardinality(With(r, t)) = Cardinality(Holding(seg, t))
<1> DEFINE D == DOMAIN seg.docs
           N == Cardinality(D)
<1>1. IsFiniteSet(D) /\ N \in Nat /\ seg.docs \in [D -> Docs]
  BY SoundFacts DEF DocCount
<1>2. PICK s \in SetToSeqs(D) : r = [i \in DOMAIN s |-> seg.docs[s[i]]]
  BY DEF FileOrders
<1>3. s \in [1 .. N -> D] /\ \A i, j \in 1 .. N : i # j => s[i] # s[j]
  BY DEF SetToSeqs
<1> HIDE DEF D, N
<1>4. s \in Injection(1 .. N, D)
  BY <1>3 DEF Injection, IsInjective
<1>5. Cardinality(1 .. N) = N
  BY <1>1, FS_Interval
<1>6. s \in Surjection(1 .. N, D)
  BY <1>1, <1>4, <1>5, FS_Injection DEF N
<1>7. r = [i \in 1 .. N |-> seg.docs[s[i]]] /\ \A i \in 1 .. N : seg.docs[s[i]] \in Docs
  BY <1>1, <1>2, <1>3
<1>8. r \in Seq(Docs) /\ Len(r) = N
  BY <1>1, <1>7
<1>9. ASSUME NEW t \in Terms
      PROVE  Cardinality(With(r, t)) = Cardinality(Holding(seg, t))
  <2> DEFINE g == [i \in With(r, t) |-> s[i]]
  <2>1. With(r, t) = {i \in 1 .. N : t \in TermsOf[seg.docs[s[i]]]}
    BY <1>7, <1>8 DEF With
  <2>2. Holding(seg, t) = {n \in D : t \in TermsOf[seg.docs[n]]}
    BY DEF Holding, D
  <2>3. g \in [With(r, t) -> Holding(seg, t)]
    BY <1>3, <2>1, <2>2
  <2>4. \A i, j \in With(r, t) : g[i] = g[j] => i = j
    BY <1>3, <2>1
  <2>5. ASSUME NEW n \in Holding(seg, t)
        PROVE  \E i \in With(r, t) : g[i] = n
    <3>1. PICK i \in 1 .. N : s[i] = n
      BY <1>6, <2>2 DEF Surjection
    <3> QED  BY <2>1, <2>2, <3>1
  <2> HIDE DEF g
  <2>6. g \in Bijection(With(r, t), Holding(seg, t))
    BY <2>3, <2>4, <2>5 DEF Bijection, Injection, Surjection, IsInjective
  <2>7. ExistsBijection(With(r, t), Holding(seg, t))
    BY <2>6 DEF ExistsBijection
  <2> QED  BY <1>8, <2>7, WithFinite, FS_Bijection
<1> QED  BY <1>8, <1>9 DEF DocCount, D, N

-----------------------------------------------------------------------------
(* What segments store.                                                    *)

\* Stored documents of a list of segments, at some of its positions.
Copies(list, I) == UNION {{i} \X DOMAIN list[i].docs : i \in I}

\* One position more has the documents of its segment more.
LEMMA OneMore ==
  ASSUME NEW list, NEW I, NEW i, i \notin I,
         IsFiniteSet(Copies(list, I)), IsFiniteSet(DOMAIN list[i].docs)
  PROVE  /\ IsFiniteSet(Copies(list, I \cup {i}))
         /\ Cardinality(Copies(list, I \cup {i}))
              = Cardinality(Copies(list, I)) + DocCount(list[i])
<1> DEFINE A == Copies(list, I)
           D == DOMAIN list[i].docs
           B == {i} \X D
<1>1. Copies(list, I \cup {i}) = A \cup B
  BY DEF Copies
<1>2. A \cap B = {}
  BY DEF Copies
<1>3. IsFiniteSet({i}) /\ Cardinality({i}) = 1
  BY FS_Singleton
<1> HIDE DEF A, D
<1>4. IsFiniteSet(A) /\ IsFiniteSet(D) /\ Cardinality(D) = DocCount(list[i])
  BY DEF A, D, DocCount
<1>5. Cardinality(D) \in Nat /\ Cardinality(A) \in Nat
  BY <1>4, FS_CardinalityType
<1>6. IsFiniteSet(B) /\ Cardinality(B) = 1 * Cardinality(D)
  BY <1>3, <1>4, FS_Product
<1> HIDE DEF B
<1>7. Cardinality(A \cap B) = 0
  BY <1>2, FS_EmptySet
<1>8. /\ IsFiniteSet(A \cup B)
      /\ Cardinality(A \cup B) = Cardinality(A) + Cardinality(B) - Cardinality(A \cap B)
  BY <1>4, <1>6, FS_Union
<1>9. Cardinality(A \cup B) = Cardinality(A) + Cardinality(D)
  BY <1>5, <1>6, <1>7, <1>8
<1> QED  BY <1>1, <1>4, <1>8, <1>9 DEF A

LEMMA NoneStored ==
  ASSUME NEW list
  PROVE  IsFiniteSet(Copies(list, {})) /\ Cardinality(Copies(list, {})) = 0
<1>1. Copies(list, {}) = {}
  BY DEF Copies
<1> QED  BY <1>1, FS_EmptySet

\* Copies are finitely many.
LEMMA CopiesFinite ==
  ASSUME NEW list \in Seq(Sound), NEW I \in SUBSET (1 .. Len(list))
  PROVE  IsFiniteSet(Copies(list, I)) /\ Cardinality(Copies(list, I)) \in Nat
<1>1. Len(list) \in Nat /\ IsFiniteSet(1 .. Len(list))
  BY FS_Interval
<1>2. ASSUME NEW i \in 1 .. Len(list)
      PROVE  DOMAIN list[i].docs \subseteq Numbers
  BY SoundFacts
<1>3. Copies(list, I) \subseteq (1 .. Len(list)) \X Numbers
  BY <1>2 DEF Copies
<1>4. IsFiniteSet((1 .. Len(list)) \X Numbers)
  BY <1>1, NumbersFinite, FS_Product
<1> QED  BY <1>3, <1>4, FS_Subset, FS_CardinalityType

\* Copies at positions apart add up.
LEMMA CopiesApart ==
  ASSUME NEW list \in Seq(Sound), NEW I \in SUBSET (1 .. Len(list)),
         NEW J \in SUBSET (1 .. Len(list)), I \cap J = {}
  PROVE  Cardinality(Copies(list, I \cup J))
           = Cardinality(Copies(list, I)) + Cardinality(Copies(list, J))
<1> DEFINE A == Copies(list, I)
           B == Copies(list, J)
<1>1. Copies(list, I \cup J) = A \cup B
  BY DEF Copies
<1>2. A \cap B = {}
  BY DEF Copies
<1>3. /\ IsFiniteSet(A) /\ Cardinality(A) \in Nat
      /\ IsFiniteSet(B) /\ Cardinality(B) \in Nat
  BY CopiesFinite
<1> HIDE DEF A, B
<1>4. Cardinality(A \cap B) = 0
  BY <1>2, FS_EmptySet
<1>5. Cardinality(A \cup B) = Cardinality(A) + Cardinality(B) - Cardinality(A \cap B)
  BY <1>3, FS_Union
<1>6. Cardinality(A \cup B) = Cardinality(A) + Cardinality(B)
  BY <1>3, <1>4, <1>5
<1> QED  BY <1>1, <1>6 DEF A, B

\* A segment behind the others.
LEMMA CopiesAppend ==
  ASSUME NEW list \in Seq(Sound), NEW seg \in Sound
  PROVE  Cardinality(Copies(Append(list, seg), 1 .. Len(list) + 1))
           = Cardinality(Copies(list, 1 .. Len(list))) + DocCount(seg)
<1> DEFINE n == Len(list)
           l == Append(list, seg)
<1>1. n \in Nat /\ l \in Seq(Sound) /\ l[n + 1] = seg
      /\ \A i \in 1 .. n : l[i] = list[i]
  OBVIOUS
<1>2. Copies(l, 1 .. n) = Copies(list, 1 .. n)
  <2> HIDE DEF l, n
  <2> QED  BY <1>1 DEF Copies
<1>3. IsFiniteSet(Copies(list, 1 .. n))
  BY CopiesFinite
<1>4. IsFiniteSet(DOMAIN seg.docs)
  BY SoundFacts
<1> HIDE DEF l, n
<1>5. 1 .. n + 1 = (1 .. n) \cup {n + 1} /\ n + 1 \notin 1 .. n
  BY <1>1
<1>6. Cardinality(Copies(l, (1 .. n) \cup {n + 1}))
        = Cardinality(Copies(l, 1 .. n)) + DocCount(l[n + 1])
  BY <1>1, <1>2, <1>3, <1>4, <1>5, OneMore
<1> QED  BY <1>1, <1>2, <1>5, <1>6 DEF l, n

-----------------------------------------------------------------------------
(* The candidates of a merge.                                              *)

\* Before is a strict total order, so that every place has one position.
LEMMA PlacesExact ==
  ASSUME segments \in Seq(Sound)
  PROVE  [i \in DOMAIN segments |-> Place(i)]
           \in Bijection(DOMAIN segments, 1 .. Len(segments))
<1> DEFINE N == Len(segments)
           D == DOMAIN segments
           Ahead(i) == {j \in D : Before(j, i)}
           P == [i \in D |-> Place(i)]
<1>1. N \in Nat /\ D = 1 .. N /\ \A i \in D : DocCount(segments[i]) \in Nat
  BY SoundFacts
<1>2. IsFiniteSet(D) /\ Cardinality(D) = N
  <2> HIDE DEF N, D
  <2>1. IsFiniteSet(1 .. N) /\ Cardinality(1 .. N) = N
    BY <1>1, FS_Interval
  <2> QED  BY <1>1, <2>1
<1>3. /\ \A i \in D : ~Before(i, i)
      /\ \A i, j \in D : i = j \/ Before(i, j) \/ Before(j, i)
      /\ \A i, j, k \in D : Before(i, j) /\ Before(j, k) => Before(i, k)
  BY <1>1 DEF Before
<1> HIDE DEF N, D
<1>4. ASSUME NEW i \in D
      PROVE  IsFiniteSet(Ahead(i)) /\ Cardinality(Ahead(i)) \in 0 .. N - 1
  <2>1. Ahead(i) \subseteq D \ {i}
    BY <1>3
  <2>2. IsFiniteSet(D \ {i}) /\ Cardinality(D \ {i}) = N - 1
    BY <1>2, FS_RemoveElement
  <2> HIDE DEF Ahead
  <2>3. IsFiniteSet(Ahead(i)) /\ Cardinality(Ahead(i)) <= N - 1
        /\ Cardinality(Ahead(i)) \in Nat
    BY <2>1, <2>2, FS_Subset, FS_CardinalityType
  <2> QED  BY <1>1, <2>3
<1>5. ASSUME NEW i \in D, NEW j \in D, Before(i, j)
      PROVE  Cardinality(Ahead(i)) < Cardinality(Ahead(j))
  <2>1. Ahead(i) \subseteq Ahead(j) /\ i \in Ahead(j) /\ i \notin Ahead(i)
    BY <1>3, <1>5
  <2>2. IsFiniteSet(Ahead(j)) /\ Cardinality(Ahead(i)) \in 0 .. N - 1
        /\ Cardinality(Ahead(j)) \in 0 .. N - 1
    BY <1>4
  <2> HIDE DEF Ahead
  <2>3. Cardinality(Ahead(i)) <= Cardinality(Ahead(j))
        /\ (Cardinality(Ahead(j)) = Cardinality(Ahead(i)) => Ahead(j) = Ahead(i))
    BY <2>1, <2>2, FS_Subset
  <2> QED  BY <1>1, <2>1, <2>2, <2>3
<1>6. \A i \in D : Place(i) = Cardinality(Ahead(i)) + 1
  BY DEF Place, D
<1> HIDE DEF Ahead
<1>7. P \in [D -> 1 .. N]
  BY <1>1, <1>4, <1>6
<1>8. \A i, j \in D : P[i] = P[j] => i = j
  <2>1. \A i \in D : P[i] = Cardinality(Ahead(i)) + 1
    BY <1>6
  <2> HIDE DEF P
  <2> SUFFICES ASSUME NEW i \in D, NEW j \in D, P[i] = P[j], i # j
               PROVE  FALSE
    OBVIOUS
  <2>2. Cardinality(Ahead(i)) = Cardinality(Ahead(j)) /\ Cardinality(Ahead(i)) \in Nat
    BY <1>1, <1>4, <2>1
  <2>3. Before(i, j) \/ Before(j, i)
    BY <1>3
  <2> QED  BY <1>5, <2>2, <2>3
<1> HIDE DEF P
<1>9. P \in Injection(D, 1 .. N)
  BY <1>7, <1>8 DEF Injection, IsInjective
<1>10. IsFiniteSet(1 .. N) /\ Cardinality(1 .. N) = N
  BY <1>1, FS_Interval
<1>11. P \in Surjection(D, 1 .. N)
  BY <1>2, <1>9, <1>10, FS_Injection
<1> QED  BY <1>9, <1>11 DEF Bijection, P, D, N

\* A merge takes different segments.
LEMMA CandidatesApart ==
  ASSUME segments \in Seq(Sound)
  PROVE  /\ Len(Candidates) \in Nat
         /\ Candidates \in [1 .. Len(Candidates) -> DOMAIN segments]
         /\ \A k, m \in 1 .. Len(Candidates) :
              Candidates[k] = Candidates[m] => k = m
<1> DEFINE N == Len(segments)
           n == IF MergeFactor <= N THEN MergeFactor ELSE N
           c == [k \in 1 .. n |-> CHOOSE i \in DOMAIN segments : Place(i) = k]
<1>1. N \in Nat /\ MergeFactor \in Nat
  BY IndexConstants
<1>2. n \in 0 .. N
  BY <1>1
<1>3. Min({MergeFactor, N}) = n
  <2> HIDE DEF N
  <2> QED  BY <1>1 DEF Min
<1>4. Candidates = c
  BY <1>3 DEF Candidates
<1> HIDE DEF n
<1>5. \A k \in 1 .. n : \E i \in DOMAIN segments : Place(i) = k
  <2> SUFFICES ASSUME NEW k \in 1 .. n PROVE \E i \in DOMAIN segments : Place(i) = k
    OBVIOUS
  <2>1. k \in 1 .. Len(segments)
    BY <1>1, <1>2
  <2> QED  BY <2>1, PlacesExact DEF Bijection, Surjection
<1>6. \A k \in 1 .. n : c[k] \in DOMAIN segments /\ Place(c[k]) = k
  BY <1>5
<1>7. c \in [1 .. n -> DOMAIN segments] /\ Len(c) = n
  <2>1. n \in Nat /\ DOMAIN c = 1 .. n
    BY <1>1, <1>2
  <2> HIDE DEF c
  <2> QED  BY <1>6, <2>1 DEF c
<1> QED  BY <1>2, <1>4, <1>6, <1>7

-----------------------------------------------------------------------------
(* What a merge leaves and what it collects.                               *)

\* A run of the recursion of Retained.
RetainedRun(k, cand) ==
  /\ k[0] = <<>> /\ k[Len(segments)] = Retained(cand)
  /\ \A i \in 0 .. Len(segments) : k[i] \in Seq(Sound)
  /\ \A i \in 1 .. Len(segments) :
       k[i] = IF i \in Range(cand) THEN k[i - 1] ELSE Append(k[i - 1], segments[i])

LEMMA RetainedSteps ==
  ASSUME segments \in Seq(Sound), NEW cand
  PROVE  \E k : RetainedRun(k, cand)
<1> DEFINE N == Len(segments)
           V == Seq(Sound)
           Next1(i, l) == IF i \in Range(cand) THEN l ELSE Append(l, segments[i])
           base == <<>>
           step == [i \in 1 .. N |-> [l \in V |-> Next1(i, l)]]
           Good(f) == f = [i \in 0 .. N |->
                             IF i = 0 THEN base
                             ELSE IF i \in Range(cand) THEN f[i - 1]
                             ELSE Append(f[i - 1], segments[i])]
           k == CHOOSE f : Good(f)
<1>1. N \in Nat /\ base \in V /\ \A i \in 1 .. N, l \in V : Next1(i, l) \in V
  <2>1. \A i \in 1 .. N : segments[i] \in Sound
    OBVIOUS
  <2> QED  BY <2>1
<1>2. Retained(cand) = k[N]
  BY DEF Retained
<1>3. step \in [1 .. N -> [V -> V]] /\ \A i \in 1 .. N, l \in V : step[i][l] = Next1(i, l)
  <2> HIDE DEF V, Next1, N
  <2> QED  BY <1>1
<1>4. \A f : Good(f) <=> f = [i \in 0 .. N |-> IF i = 0 THEN base ELSE Next1(i, f[i - 1])]
  <2> HIDE DEF base, N
  <2> QED  OBVIOUS
<1> HIDE DEF V, Next1, N, base, Good
<1>5. \E f : Good(f)
  <2>1. PICK f \in [0 .. N -> V] :
          f[0] = base /\ \A i \in 1 .. N : f[i] = step[i][f[i - 1]]
    <3> HIDE DEF step
    <3>1. IsRecursion(N, V, base, step)
      BY <1>1, <1>3 DEF IsRecursion
    <3>2. PICK f : SolvesRecursion(f, N, V, base, step)
      BY <3>1, RecursionSolved
    <3> QED  BY <3>2 DEF SolvesRecursion
  <2>2. \A i \in 1 .. N : f[i - 1] \in V
    BY <1>1, <2>1
  <2>3. \A i \in 1 .. N : f[i] = Next1(i, f[i - 1])
    <3> HIDE DEF step
    <3> QED BY <2>1, <2>2, <1>3
  <2>4. f = [i \in 0 .. N |-> IF i = 0 THEN base ELSE Next1(i, f[i - 1])]
    <3> HIDE DEF step
    <3> QED  BY <1>1, <2>1, <2>3
  <2> QED  BY <1>4, <2>4
<1>6. Good(k)
  BY <1>5
<1> HIDE DEF k
<1>7. k[0] = base /\ \A i \in 1 .. N : k[i] = Next1(i, k[i - 1])
  BY <1>1, <1>4, <1>6
<1>8. \A i \in 0 .. N : k[i] \in V
  <2> DEFINE T == {i \in 0 .. N : k[i] \in V}
  <2>1. 0 \in T
    BY <1>1, <1>7
  <2>2. \A i \in 0 .. N : i < N /\ i \in T => i + 1 \in T
    <3> SUFFICES ASSUME NEW i \in 0 .. N, i < N, k[i] \in V
                 PROVE  k[i + 1] \in V
      BY <1>1
    <3>1. i + 1 \in 1 .. N /\ (i + 1) - 1 = i
      BY <1>1
    <3> QED  BY <1>1, <1>7, <3>1
  <2> HIDE DEF T
  <2>3. \A i \in 0 .. N : i \in T
    BY <1>1, <2>1, <2>2, InductionUpTo
  <2> QED  BY <2>3 DEF T
<1> QED  BY <1>2, <1>7, <1>8 DEF RetainedRun, N, V, Next1, base

\* What is retained is stored as before.
LEMMA RetainedFacts ==
  ASSUME segments \in Seq(Sound), NEW cand
  PROVE  /\ Retained(cand) \in Seq(Sound)
         /\ Cardinality(Copies(Retained(cand), 1 .. Len(Retained(cand))))
              = Cardinality(Copies(segments, (1 .. Len(segments)) \ Range(cand)))
<1> DEFINE N == Len(segments)
           R == Range(cand)
<1>1. PICK k : RetainedRun(k, cand)
  BY RetainedSteps
<1>2. N \in Nat /\ \A i \in 1 .. N : segments[i] \in Sound
  OBVIOUS
<1>3. /\ k[0] = <<>> /\ k[N] = Retained(cand)
      /\ \A i \in 0 .. N : k[i] \in Seq(Sound)
      /\ \A i \in 1 .. N : k[i] = IF i \in R THEN k[i - 1] ELSE Append(k[i - 1], segments[i])
  BY <1>1 DEF RetainedRun
<1> HIDE DEF N, R
<1> DEFINE Same(i) == Cardinality(Copies(k[i], 1 .. Len(k[i])))
                        = Cardinality(Copies(segments, (1 .. i) \ R))
           T == {i \in 0 .. N : Same(i)}
<1>4. Same(0)
  <2>1. 1 .. Len(k[0]) = {} /\ (1 .. 0) \ R = {}
    BY <1>3
  <2> QED  BY <2>1, NoneStored
<1>5. ASSUME NEW i \in 0 .. N, i < N, Same(i)
      PROVE  Same(i + 1)
  <2>1. i + 1 \in 1 .. N /\ (i + 1) - 1 = i /\ i \in Nat /\ k[i] \in Seq(Sound)
    BY <1>2, <1>3, <1>5
  <2>2. CASE i + 1 \in R
    <3>1. (1 .. i + 1) \ R = (1 .. i) \ R
      BY <2>1, <2>2
    <3>2. k[i + 1] = k[i]
      BY <1>3, <2>1, <2>2
    <3> QED  BY <1>5, <3>1, <3>2
  <2>3. CASE i + 1 \notin R
    <3> DEFINE I == (1 .. i) \ R
    <3>1. k[i + 1] = Append(k[i], segments[i + 1]) /\ segments[i + 1] \in Sound
      BY <1>2, <1>3, <2>1, <2>3
    <3>2. Len(k[i + 1]) = Len(k[i]) + 1
      BY <2>1, <3>1
    <3>3. Cardinality(Copies(k[i + 1], 1 .. Len(k[i]) + 1))
            = Cardinality(Copies(k[i], 1 .. Len(k[i]))) + DocCount(segments[i + 1])
      BY <2>1, <3>1, CopiesAppend
    <3>4. (1 .. i + 1) \ R = I \cup {i + 1} /\ i + 1 \notin I
      BY <2>1, <2>3
    <3>5. I \in SUBSET (1 .. Len(segments))
      BY <2>1, <1>2 DEF N
    <3> HIDE DEF I
    <3>6. IsFiniteSet(Copies(segments, I))
      BY <3>5, CopiesFinite
    <3>7. IsFiniteSet(DOMAIN segments[i + 1].docs)
      BY <3>1, SoundFacts
    <3>8. Cardinality(Copies(segments, I \cup {i + 1}))
            = Cardinality(Copies(segments, I)) + DocCount(segments[i + 1])
      BY <3>4, <3>6, <3>7, OneMore
    <3> QED  BY <1>5, <3>2, <3>3, <3>4, <3>8 DEF I
  <2> QED  BY <2>2, <2>3
<1>6. \A i \in 0 .. N : i \in T
  <2> HIDE DEF Same
  <2>1. 0 \in T /\ \A i \in 0 .. N : i < N /\ i \in T => i + 1 \in T
    BY <1>2, <1>4, <1>5
  <2> HIDE DEF T
  <2> QED  BY <1>2, <2>1, InductionUpTo
<1>7. N \in T
  <2> HIDE DEF T
  <2> QED  BY <1>2, <1>6
<1> QED  BY <1>2, <1>3, <1>7 DEF N, R

\* A run of the loop over the candidates.
CollectedRun(k, cand, reading) ==
  /\ k[0] = [docs |-> <<>>, lengths |-> [t \in Terms |-> 0]]
  /\ k[Len(cand)] = Collected(cand, reading)
  /\ \A n \in 0 .. Len(cand) : k[n] \in [docs : Seq(Docs), lengths : [Terms -> Nat]]
  /\ \A n \in 1 .. Len(cand) :
       k[n] = [docs    |-> k[n - 1].docs \o reading[n],
               lengths |-> [t \in Terms |->
                              k[n - 1].lengths[t]
                                + Cardinality(segments[cand[n]].postings[t])]]

\* Candidates as a merge has them, with the order of each one's file.
IsMerge(cand, reading) ==
  /\ Len(cand) \in Nat
  /\ cand \in [1 .. Len(cand) -> DOMAIN segments]
  /\ \A k, m \in 1 .. Len(cand) : cand[k] = cand[m] => k = m
  /\ \A k \in 1 .. Len(cand) : reading[k] \in FileOrders(segments[cand[k]])

LEMMA CandidateFacts ==
  ASSUME segments \in Seq(Sound), NEW cand, NEW reading, IsMerge(cand, reading),
         NEW k \in 1 .. Len(cand)
  PROVE  /\ cand[k] \in 1 .. Len(segments) /\ segments[cand[k]] \in Sound
         /\ reading[k] \in Seq(Docs) /\ Len(reading[k]) = DocCount(segments[cand[k]])
         /\ \A t \in Terms :
              /\ Cardinality(segments[cand[k]].postings[t]) \in Nat
              /\ Cardinality(segments[cand[k]].postings[t]) = Cardinality(With(reading[k], t))
<1>1. cand[k] \in DOMAIN segments /\ reading[k] \in FileOrders(segments[cand[k]])
  BY DEF IsMerge
<1>2. cand[k] \in 1 .. Len(segments) /\ segments[cand[k]] \in Sound
  BY <1>1
<1> QED  BY <1>1, <1>2, SoundFacts, FileOrderFacts

LEMMA CollectedSteps ==
  ASSUME segments \in Seq(Sound), NEW cand, NEW reading, IsMerge(cand, reading)
  PROVE  \E k : CollectedRun(k, cand, reading)
<1> DEFINE N == Len(cand)
           V == [docs : Seq(Docs), lengths : [Terms -> Nat]]
           Next1(n, a) == [docs    |-> a.docs \o reading[n],
                           lengths |-> [t \in Terms |->
                                          a.lengths[t]
                                            + Cardinality(segments[cand[n]].postings[t])]]
           base == [docs |-> <<>>, lengths |-> [t \in Terms |-> 0]]
           step == [n \in 1 .. N |-> [a \in V |-> Next1(n, a)]]
           Good(f) == f = [n \in 0 .. N |->
                             IF n = 0 THEN base
                             ELSE [docs    |-> f[n - 1].docs \o reading[n],
                                   lengths |-> [t \in Terms |->
                                     f[n - 1].lengths[t]
                                       + Cardinality(segments[cand[n]].postings[t])]]]
           k == CHOOSE f : Good(f)
<1>1. N \in Nat /\ base \in V /\ \A n \in 1 .. N, a \in V : Next1(n, a) \in V
  <2>1. N \in Nat /\ base \in V
    BY DEF IsMerge
  <2>2. ASSUME NEW n \in 1 .. N, NEW a \in V
        PROVE  Next1(n, a) \in V
    <3>1. reading[n] \in Seq(Docs)
          /\ \A t \in Terms : Cardinality(segments[cand[n]].postings[t]) \in Nat
      BY CandidateFacts
    <3>2. a.docs \in Seq(Docs) /\ a.lengths \in [Terms -> Nat]
      OBVIOUS
    <3>3. a.docs \o reading[n] \in Seq(Docs)
      BY <3>1, <3>2
    <3> QED  BY <3>1, <3>2, <3>3
  <2> QED  BY <2>1, <2>2
<1>2. Collected(cand, reading) = k[N]
  BY DEF Collected
<1>3. step \in [1 .. N -> [V -> V]] /\ \A n \in 1 .. N, a \in V : step[n][a] = Next1(n, a)
  <2> HIDE DEF V, Next1, N
  <2> QED  BY <1>1
<1>4. \A f : Good(f) <=> f = [n \in 0 .. N |-> IF n = 0 THEN base ELSE Next1(n, f[n - 1])]
  <2> HIDE DEF base, N
  <2> QED  OBVIOUS
<1> HIDE DEF V, Next1, N, base, Good
<1>5. \E f : Good(f)
  <2>1. PICK f \in [0 .. N -> V] :
          f[0] = base /\ \A n \in 1 .. N : f[n] = step[n][f[n - 1]]
    <3> HIDE DEF step
    <3>1. IsRecursion(N, V, base, step)
      BY <1>1, <1>3 DEF IsRecursion
    <3>2. PICK f : SolvesRecursion(f, N, V, base, step)
      BY <3>1, RecursionSolved
    <3> QED  BY <3>2 DEF SolvesRecursion
  <2>2. \A n \in 1 .. N : f[n - 1] \in V
    BY <1>1, <2>1
  <2>3. \A n \in 1 .. N : f[n] = Next1(n, f[n - 1])
    <3> HIDE DEF step
    <3> QED BY <2>1, <2>2, <1>3
  <2>4. f = [n \in 0 .. N |-> IF n = 0 THEN base ELSE Next1(n, f[n - 1])]
    <3> HIDE DEF step
    <3> QED  BY <1>1, <2>1, <2>3
  <2> QED  BY <1>4, <2>4
<1>6. Good(k)
  BY <1>5
<1> HIDE DEF k
<1>7. k[0] = base /\ \A n \in 1 .. N : k[n] = Next1(n, k[n - 1])
  BY <1>1, <1>4, <1>6
<1>8. \A n \in 0 .. N : k[n] \in V
  <2> DEFINE T == {n \in 0 .. N : k[n] \in V}
  <2>1. 0 \in T
    BY <1>1, <1>7
  <2>2. \A n \in 0 .. N : n < N /\ n \in T => n + 1 \in T
    <3> SUFFICES ASSUME NEW n \in 0 .. N, n < N, k[n] \in V
                 PROVE  k[n + 1] \in V
      BY <1>1
    <3>1. n + 1 \in 1 .. N /\ (n + 1) - 1 = n
      BY <1>1
    <3> QED  BY <1>1, <1>7, <3>1
  <2> HIDE DEF T
  <2>3. \A n \in 0 .. N : n \in T
    BY <1>1, <2>1, <2>2, InductionUpTo
  <2> QED  BY <2>3 DEF T
<1> QED  BY <1>2, <1>7, <1>8 DEF CollectedRun, N, V, Next1, base

\* What is collected: the documents of all candidates, once each, and the length
\* of each term's list, which is the number of documents that have it.
LEMMA CollectedFacts ==
  ASSUME segments \in Seq(Sound), NEW cand, NEW reading, IsMerge(cand, reading)
  PROVE  LET all == Collected(cand, reading)
         IN  /\ all.docs \in Seq(Docs) /\ all.lengths \in [Terms -> Nat]
             /\ Len(all.docs) = Cardinality(Copies(segments, Range(cand)))
             /\ \A t \in Terms : all.lengths[t] = Cardinality(With(all.docs, t))
<1> DEFINE N == Len(cand)
           Upto(n) == {cand[m] : m \in 1 .. n}
<1>1. PICK k : CollectedRun(k, cand, reading)
  BY CollectedSteps
<1>2. N \in Nat /\ Range(cand) = Upto(N)
  BY DEF IsMerge, Range
<1>3. /\ k[0] = [docs |-> <<>>, lengths |-> [t \in Terms |-> 0]]
      /\ k[N] = Collected(cand, reading)
      /\ \A n \in 0 .. N : k[n].docs \in Seq(Docs) /\ k[n].lengths \in [Terms -> Nat]
  BY <1>1 DEF CollectedRun
<1> DEFINE Counts(n) == /\ Len(k[n].docs) = Cardinality(Copies(segments, Upto(n)))
                        /\ \A t \in Terms : k[n].lengths[t] = Cardinality(With(k[n].docs, t))
           T == {n \in 0 .. N : Counts(n)}
<1>4. Counts(0)
  <2>1. k[0].docs = <<>> /\ \A t \in Terms : k[0].lengths[t] = 0
    BY <1>3
  <2>2. Upto(0) = {} /\ \A t : With(<<>>, t) = {}
    BY DEF With
  <2> HIDE DEF Upto
  <2> QED  BY <2>1, <2>2, NoneStored, FS_EmptySet
<1>5. ASSUME NEW n \in 0 .. N, n < N, Counts(n)
      PROVE  Counts(n + 1)
  <2> DEFINE c == cand[n + 1]
  <2>1. n + 1 \in 1 .. N /\ (n + 1) - 1 = n /\ n \in Nat
    BY <1>2, <1>5
  <2>2. /\ k[n + 1].docs = k[n].docs \o reading[n + 1]
        /\ \A t \in Terms : k[n + 1].lengths[t]
                              = k[n].lengths[t] + Cardinality(segments[c].postings[t])
    <3> DEFINE x == k[n]
               y == k[n + 1]
               r == reading[n + 1]
               L == [t \in Terms |-> Cardinality(segments[c].postings[t])]
    <3>1. y = [docs |-> x.docs \o r, lengths |-> [t \in Terms |-> x.lengths[t] + L[t]]]
      BY <1>1, <2>1 DEF CollectedRun
    <3>2. \A t \in Terms : L[t] = Cardinality(segments[c].postings[t])
      OBVIOUS
    <3> HIDE DEF x, y, r, L
    <3>3. y.docs = x.docs \o r /\ \A t \in Terms : y.lengths[t] = x.lengths[t] + L[t]
      BY <3>1
    <3> QED  BY <3>2, <3>3 DEF x, y, r
  <2>3. /\ c \in 1 .. Len(segments) /\ segments[c] \in Sound
        /\ reading[n + 1] \in Seq(Docs) /\ Len(reading[n + 1]) = DocCount(segments[c])
        /\ \A t \in Terms :
             Cardinality(segments[c].postings[t]) = Cardinality(With(reading[n + 1], t))
    BY <2>1, CandidateFacts
  <2>4. k[n].docs \in Seq(Docs)
    BY <1>3, <2>1
  <2>5. ASSUME NEW t \in Terms
        PROVE  k[n + 1].lengths[t] = Cardinality(With(k[n + 1].docs, t))
    <3>1. Cardinality(With(k[n].docs \o reading[n + 1], t))
            = Cardinality(With(k[n].docs, t)) + Cardinality(With(reading[n + 1], t))
      BY <2>3, <2>4, ConcatWith
    <3> QED  BY <1>5, <2>2, <2>3, <3>1
  <2>6. Upto(n + 1) = Upto(n) \cup {c}
    BY <2>1
  <2>7. c \notin Upto(n)
    BY <2>1 DEF IsMerge
  <2>8. Upto(n) \in SUBSET (1 .. Len(segments))
    <3>1. \A m \in 1 .. n : cand[m] \in 1 .. Len(segments)
      <4>1. \A m \in 1 .. n : m \in 1 .. N
        BY <1>2, <2>1
      <4> QED  BY <4>1, CandidateFacts
    <3>2. \A x \in Upto(n) : x \in 1 .. Len(segments)
      BY <3>1
    <3> HIDE DEF Upto
    <3> QED  BY <3>2
  <2>9. Len(k[n].docs \o reading[n + 1]) = Len(k[n].docs) + Len(reading[n + 1])
    <3> DEFINE x == k[n].docs
               r == reading[n + 1]
    <3>1. x \in Seq(Docs) /\ r \in Seq(Docs)
      BY <2>3, <2>4
    <3> HIDE DEF x, r
    <3> QED  BY <3>1
  <2> HIDE DEF Upto, c
  <2>10. Cardinality(Copies(segments, Upto(n) \cup {c}))
           = Cardinality(Copies(segments, Upto(n))) + DocCount(segments[c])
    <3>1. IsFiniteSet(Copies(segments, Upto(n)))
      BY <2>8, CopiesFinite
    <3>2. IsFiniteSet(DOMAIN segments[c].docs)
      BY <2>3, SoundFacts
    <3> QED  BY <2>7, <3>1, <3>2, OneMore
  <2> QED  BY <1>5, <2>2, <2>3, <2>5, <2>6, <2>9, <2>10
<1>6. \A n \in 0 .. N : n \in T
  <2> HIDE DEF Counts
  <2>1. 0 \in T /\ \A n \in 0 .. N : n < N /\ n \in T => n + 1 \in T
    BY <1>2, <1>4, <1>5
  <2> HIDE DEF T
  <2> QED  BY <1>2, <2>1, InductionUpTo
<1>7. Counts(N)
  <2>1. N \in T
    <3> HIDE DEF T
    <3> QED  BY <1>2, <1>6
  <2> HIDE DEF Counts
  <2> QED  BY <2>1
<1>8. N \in 0 .. N
  BY <1>2
<1> HIDE DEF N, Upto
<1> QED  BY <1>2, <1>3, <1>7, <1>8

-----------------------------------------------------------------------------
(* The invariant of the segments.                                          *)

IndexInv ==
  /\ flushes \in 0 .. MaxFlushes
  /\ segments \in Seq(Sound)
  /\ Cardinality(Copies(segments, 1 .. Len(segments))) <= MaxBatch * flushes

LEMMA BoundOfFlushes ==
  ASSUME NEW n \in 0 .. MaxFlushes
  PROVE  /\ MaxBatch * n \in Nat /\ MaxBatch * n <= MaxBatch * MaxFlushes
         /\ n < MaxFlushes => /\ MaxBatch * (n + 1) = MaxBatch * n + MaxBatch
                              /\ MaxBatch <= MaxBatch * MaxFlushes
<1>1. MaxBatch \in Nat /\ MaxFlushes \in Nat /\ n \in Nat
  BY IndexConstants
<1>2. \A a, b, c \in Nat : a * b \in Nat /\ (b <= c => a * b <= a * c)
  OBVIOUS
<1>3. \A a, b \in Nat : a * (b + 1) = a * b + a
  OBVIOUS
<1>4. n < MaxFlushes => MaxBatch * (n + 1) <= MaxBatch * MaxFlushes
  BY <1>1, <1>2
<1>5. MaxBatch * n \in Nat /\ MaxBatch * n <= MaxBatch * MaxFlushes
  BY <1>1, <1>2
<1> QED  BY <1>1, <1>3, <1>4, <1>5, NumbersFinite

LEMMA FlushedSound ==
  ASSUME NEW D \in SUBSET Docs, NEW batch \in SetToSeqs(D),
         Cardinality(D) \in 1 .. MaxBatch, MaxBatch <= MaxBatch * MaxFlushes
  PROVE  Flushed(batch) \in Sound /\ DocCount(Flushed(batch)) <= MaxBatch
<1> DEFINE n == Cardinality(D)
           docs == [m \in 0 .. n - 1 |-> batch[m + 1]]
           postings == [t \in Terms |-> {m \in DOMAIN docs : t \in TermsOf[docs[m]]}]
           seg == Flushed(batch)
<1>1. MaxBatch \in Nat /\ n \in Nat /\ n <= MaxBatch
  BY IndexConstants
<1>2. batch \in [1 .. n -> D] /\ Len(batch) = n
  BY <1>1 DEF SetToSeqs
<1>3. seg.docs = docs /\ seg.postings = postings /\ seg = [docs |-> docs, postings |-> postings]
  BY <1>2 DEF Flushed
<1>4. 0 .. n - 1 \in SUBSET Numbers
  <2>1. MaxBatch * MaxFlushes \in Nat
    BY NumbersFinite
  <2> HIDE DEF n
  <2> QED  BY <1>1, <2>1 DEF Numbers
<1>5. docs \in [0 .. n - 1 -> Docs] /\ DOMAIN docs = 0 .. n - 1
  <2> HIDE DEF n
  <2> QED  BY <1>1, <1>2
<1>6. docs \in Contents
  <2> HIDE DEF docs, n
  <2> QED  BY <1>4, <1>5 DEF Contents
<1> HIDE DEF docs
<1>7. postings \in [Terms -> SUBSET Numbers]
      /\ \A t \in Terms : postings[t] \subseteq DOMAIN docs /\ postings[t] = Holding(seg, t)
  BY <1>3, <1>4, <1>5 DEF Holding
<1> HIDE DEF postings
<1>8. seg \in Sound
  <2> HIDE DEF seg
  <2>1. seg \in [docs : Contents, postings : [Terms -> SUBSET Numbers]]
    BY <1>3, <1>6, <1>7
  <2> QED  BY <1>3, <1>7, <2>1 DEF Sound
<1>9. Cardinality(0 .. n - 1) = n
  <2> HIDE DEF n
  <2> QED  BY <1>1, FS_Interval
<1> QED  BY <1>1, <1>3, <1>5, <1>8, <1>9 DEF DocCount

LEMMA MergedSound ==
  ASSUME segments \in Seq(Sound), NEW cand, NEW reading, IsMerge(cand, reading),
         Cardinality(Copies(segments, Range(cand))) <= MaxBatch * MaxFlushes
  PROVE  /\ MergedSegment(cand, reading) \in Sound
         /\ DocCount(MergedSegment(cand, reading)) = Cardinality(Copies(segments, Range(cand)))
<1> DEFINE all == Collected(cand, reading)
           docs == all.docs
           postings == [t \in Terms |-> 1 .. all.lengths[t]]
           seg == MergedSegment(cand, reading)
           N == Len(docs)
<1>1. /\ docs \in Seq(Docs) /\ all.lengths \in [Terms -> Nat]
      /\ N = Cardinality(Copies(segments, Range(cand)))
      /\ \A t \in Terms : all.lengths[t] = Cardinality(With(docs, t))
  BY CollectedFacts
<1>2. seg.docs = docs /\ seg.postings = postings /\ seg = [docs |-> docs, postings |-> postings]
  BY DEF MergedSegment
<1> HIDE DEF seg, docs
<1>3. N \in Nat /\ N <= MaxBatch * MaxFlushes
  BY <1>1
<1>4. 1 .. N \in SUBSET Numbers /\ DOMAIN docs = 1 .. N /\ docs \in [1 .. N -> Docs]
  BY <1>1, <1>3, NumbersFinite DEF Numbers
<1>5. docs \in Contents
  <2> HIDE DEF N
  <2> QED  BY <1>4 DEF Contents
<1>6. \A t \in Terms : Holding(seg, t) = With(docs, t)
  BY <1>2, <1>4 DEF Holding, With
<1>7. ASSUME NEW t \in Terms
      PROVE  /\ postings[t] \subseteq DOMAIN docs
             /\ postings[t] \in SUBSET Numbers
             /\ Cardinality(postings[t]) = Cardinality(Holding(seg, t))
  <2> DEFINE m == all.lengths[t]
  <2>1. m \in Nat /\ m = Cardinality(With(docs, t)) /\ m <= N /\ postings[t] = 1 .. m
    BY <1>1, WithFinite
  <2> HIDE DEF m
  <2>2. Cardinality(1 .. m) = m
    BY <2>1, FS_Interval
  <2>3. 1 .. m \subseteq 1 .. N
    BY <1>3, <2>1
  <2> HIDE DEF N
  <2> QED  BY <1>4, <1>6, <2>1, <2>2, <2>3
<1>8. postings \in [Terms -> SUBSET Numbers]
  BY <1>7
<1> HIDE DEF postings
<1>9. seg \in Sound
  <2>1. seg \in [docs : Contents, postings : [Terms -> SUBSET Numbers]]
    BY <1>2, <1>5, <1>8
  <2>2. 0 \notin DOMAIN docs
    BY <1>3, <1>4
  <2> QED  BY <1>2, <1>7, <2>1, <2>2 DEF Sound
<1>10. Cardinality(1 .. N) = N
  <2> HIDE DEF N
  <2> QED  BY <1>3, FS_Interval
<1> QED  BY <1>1, <1>2, <1>4, <1>9, <1>10 DEF DocCount, seg

LEMMA IndexBegins == IndexInit => IndexInv
<1> SUFFICES ASSUME IndexInit PROVE IndexInv
  OBVIOUS
<1>1. segments = <<>> /\ flushes = 0 /\ MaxFlushes \in Nat /\ MaxBatch \in Nat
  BY IndexConstants DEF IndexInit
<1>2. 1 .. Len(segments) = {} /\ segments \in Seq(Sound)
  BY <1>1
<1>3. Cardinality(Copies(segments, 1 .. Len(segments))) = 0
  BY <1>2, NoneStored
<1> QED  BY <1>1, <1>2, <1>3 DEF IndexInv

LEMMA FlushStep ==
  ASSUME IndexInv, Flush
  PROVE  IndexInv'
<1> DEFINE N == Len(segments)
<1>1. /\ flushes \in 0 .. MaxFlushes /\ flushes < MaxFlushes /\ flushes' = flushes + 1
      /\ segments \in Seq(Sound) /\ N \in Nat
      /\ Cardinality(Copies(segments, 1 .. N)) <= MaxBatch * flushes
  BY DEF IndexInv, Flush
<1>2. PICK D \in SUBSET Docs :
        \E batch \in SetToSeqs(D) :
          Cardinality(D) \in 1 .. MaxBatch /\ segments' = Append(segments, Flushed(batch))
  BY DEF Flush
<1>3. PICK batch \in SetToSeqs(D) :
        Cardinality(D) \in 1 .. MaxBatch /\ segments' = Append(segments, Flushed(batch))
  BY <1>2
<1>4. /\ MaxBatch * flushes \in Nat /\ MaxBatch <= MaxBatch * MaxFlushes
      /\ MaxBatch * (flushes + 1) = MaxBatch * flushes + MaxBatch
  BY <1>1, BoundOfFlushes
<1>5. Flushed(batch) \in Sound /\ DocCount(Flushed(batch)) <= MaxBatch
  BY <1>3, <1>4, FlushedSound
<1>6. segments' \in Seq(Sound) /\ DOMAIN segments' = 1 .. N + 1
  BY <1>1, <1>3, <1>5
<1>7. Cardinality(Copies(segments', 1 .. N + 1))
        = Cardinality(Copies(segments, 1 .. N)) + DocCount(Flushed(batch))
  BY <1>1, <1>3, <1>5, CopiesAppend
<1>8. Cardinality(Copies(segments, 1 .. N)) \in Nat /\ DocCount(Flushed(batch)) \in Nat
  BY <1>1, <1>5, CopiesFinite, SoundFacts
<1>9. MaxBatch \in Nat /\ MaxFlushes \in Nat
  BY IndexConstants
<1>10. Cardinality(Copies(segments', 1 .. N + 1)) <= MaxBatch * flushes'
  BY <1>1, <1>4, <1>5, <1>7, <1>8, <1>9
<1>11. Len(segments') = N + 1
  BY <1>1, <1>3, <1>5
<1>12. flushes' \in 0 .. MaxFlushes
  BY <1>1, <1>9
<1> QED  BY <1>6, <1>10, <1>11, <1>12 DEF IndexInv

LEMMA MergeStep ==
  ASSUME IndexInv, MergeSegments
  PROVE  IndexInv'
<1> DEFINE cand == Candidates
           C == Range(cand)
           all == 1 .. Len(segments)
           kept == Retained(cand)
<1>1. /\ flushes \in 0 .. MaxFlushes /\ flushes' = flushes
      /\ segments \in Seq(Sound) /\ Len(segments) \in Nat
      /\ Cardinality(Copies(segments, all)) <= MaxBatch * flushes
  BY DEF IndexInv, MergeSegments
<1>2. /\ Len(cand) \in Nat /\ cand \in [1 .. Len(cand) -> DOMAIN segments]
      /\ \A k, m \in 1 .. Len(cand) : cand[k] = cand[m] => k = m
  BY <1>1, CandidatesApart
<1>3. PICK reading \in Readings(cand) :
        segments' = Append(kept, MergedSegment(cand, reading))
  BY DEF MergeSegments
<1> HIDE DEF cand
<1>4. DOMAIN cand = 1 .. Len(cand)
  BY <1>2
<1>5. IsMerge(cand, reading)
  BY <1>2, <1>3, <1>4 DEF IsMerge, Readings
<1>6. C \subseteq all
  BY <1>1, <1>2 DEF Range
<1>7. /\ Cardinality(Copies(segments, C)) \in Nat
      /\ Cardinality(Copies(segments, all \ C)) \in Nat
  BY <1>1, <1>6, CopiesFinite
<1>8. Cardinality(Copies(segments, all))
        = Cardinality(Copies(segments, all \ C)) + Cardinality(Copies(segments, C))
  <2>1. all = (all \ C) \cup C /\ (all \ C) \cap C = {}
        /\ all \ C \in SUBSET (1 .. Len(segments)) /\ C \in SUBSET (1 .. Len(segments))
    BY <1>6
  <2> HIDE DEF all, C
  <2> QED  BY <1>1, <2>1, CopiesApart
<1>9. /\ MaxBatch * flushes \in Nat /\ MaxBatch * flushes <= MaxBatch * MaxFlushes
      /\ MaxBatch * MaxFlushes \in Nat
  BY <1>1, BoundOfFlushes, NumbersFinite
<1>10. /\ MergedSegment(cand, reading) \in Sound
       /\ DocCount(MergedSegment(cand, reading)) = Cardinality(Copies(segments, C))
  <2>1. Cardinality(Copies(segments, C)) <= MaxBatch * MaxFlushes
    BY <1>1, <1>7, <1>8, <1>9
  <2> QED  BY <1>1, <1>5, <2>1, MergedSound
<1>11. /\ kept \in Seq(Sound)
       /\ Cardinality(Copies(kept, 1 .. Len(kept))) = Cardinality(Copies(segments, all \ C))
  BY <1>1, RetainedFacts
<1> HIDE DEF kept
<1>12. segments' \in Seq(Sound) /\ DOMAIN segments' = 1 .. Len(kept) + 1
  BY <1>3, <1>10, <1>11
<1>13. Cardinality(Copies(segments', 1 .. Len(kept) + 1)) = Cardinality(Copies(segments, all))
  <2>1. Cardinality(Copies(segments', 1 .. Len(kept) + 1))
          = Cardinality(Copies(kept, 1 .. Len(kept))) + DocCount(MergedSegment(cand, reading))
    BY <1>3, <1>10, <1>11, CopiesAppend
  <2> QED  BY <1>8, <1>10, <1>11, <2>1
<1>14. Len(segments') = Len(kept) + 1
  BY <1>3, <1>10, <1>11
<1> QED  BY <1>1, <1>12, <1>13, <1>14 DEF IndexInv

\* The segments are sound, whatever was flushed and merged.
THEOREM IndexInvariant == IndexSpec => []IndexInv
<1>1. IndexInv /\ UNCHANGED indexVars => IndexInv'
  BY DEF IndexInv, indexVars, Copies
<1>2. IndexInv /\ [IndexNext]_indexVars => IndexInv'
  BY <1>1, FlushStep, MergeStep DEF IndexNext
<1> QED  BY <1>2, IndexBegins, PTL DEF IndexSpec

\* Segments are of the kind that flushes and merges make, and a merge stores no
\* more copies of documents than it takes (segment_manager.rs, merge_segments).
THEOREM IndexTypes == IndexSpec => []IndexTypeOK
<1>1. IndexInv => IndexTypeOK
  <2> SUFFICES ASSUME IndexInv PROVE IndexTypeOK
    OBVIOUS
  <2>1. segments \in Seq(Sound)
    BY DEF IndexInv
  <2>2. ASSUME NEW i \in DOMAIN segments
        PROVE  /\ DOMAIN segments[i].docs \subseteq Numbers
               /\ Range(segments[i].docs) \subseteq Docs
               /\ segments[i].postings \in [Terms -> SUBSET Numbers]
    <3>1. segments[i] \in Sound
      BY <2>1
    <3> QED  BY <3>1, SoundFacts DEF Range
  <2>3. Stored(DOMAIN segments) = Copies(segments, 1 .. Len(segments))
    BY <2>1 DEF Stored, Copies
  <2> QED  BY <2>2, <2>3 DEF IndexInv, IndexTypeOK
<1> QED  BY <1>1, IndexInvariant, PTL

\* In every segment a term has as many postings as there are documents that
\* contain it, after any merges of merged segments (segment_manager.rs,
\* merge_segments).
THEOREM FrequencyKeptHolds == IndexSpec => []FrequencyKept
<1>1. IndexInv => FrequencyKept
  BY DEF IndexInv, Sound, FrequencyKept
<1> QED  BY <1>1, IndexInvariant, PTL

-----------------------------------------------------------------------------
(* Queries.                                                                *)

LEMMA MinIn ==
  ASSUME NEW S, S \subseteq Nat, S # {}
  PROVE  Min(S) \in S /\ \A x \in S : Min(S) <= x
<1> DEFINE R == OpToRel(<, Nat)
<1>1. PICK x \in S : \A y \in S : ~(<<y, x>> \in R)
  <2> HIDE DEF R
  <2>1. IsWellFoundedOn(R, Nat)
    BY NatLessThanWellFounded DEF R
  <2> QED  BY <2>1, WFMin
<1>2. \A y \in S : ~(y < x)
  BY <1>1 DEF OpToRel
<1>3. \A y \in S : x <= y
  BY <1>2
<1> QED  BY <1>3 DEF Min

LEMMA TokenKinds ==
  /\ \A w \in Words : w \in Tokens /\ w.kind \in {"any", "field", "all"} /\ w.terms \subseteq Terms
  /\ \A o \in Operators : o \in Tokens /\ o.kind \in {"AND", "OR", "NOT"}
  BY DEF Words, Operators, Tokens

\* An operator with something on both sides divides a query in two.
LEMMA Divides ==
  ASSUME NEW q \in Seq(Tokens), NEW op, Splits(q, op) # {}
  PROVE  LET k == Min(Splits(q, op))
             l == Left(q, op)
             r == Right(q, op)
         IN  /\ k \in 2 .. Len(q) - 1 /\ q[k].kind = op
             /\ \A i \in 2 .. Len(q) - 1 : q[i].kind = op => k <= i
             /\ l \in Seq(Tokens) /\ Len(l) = k - 1
             /\ \A i \in 1 .. k - 1 : l[i] = q[i]
             /\ r \in Seq(Tokens) /\ Len(r) = Len(q) - k
             /\ \A i \in 1 .. Len(q) - k : r[i] = q[k + i]
<1> DEFINE S == Splits(q, op)
           k == Min(S)
<1>1. Len(q) \in Nat /\ S \subseteq 2 .. Len(q) - 1
  BY DEF Splits
<1>2. k \in S /\ \A i \in S : k <= i
  <2>1. S \subseteq Nat /\ S # {}
    BY <1>1
  <2> HIDE DEF S
  <2> QED  BY <2>1, MinIn
<1>3. k \in 2 .. Len(q) - 1 /\ q[k].kind = op
      /\ \A i \in 2 .. Len(q) - 1 : q[i].kind = op => k <= i
  BY <1>2 DEF Splits
<1>4. Left(q, op) = SubSeq(q, 1, k - 1) /\ Right(q, op) = SubSeq(q, k + 1, Len(q))
  BY DEF Left, Right
<1> HIDE DEF S, k
<1>5. /\ SubSeq(q, 1, k - 1) \in Seq(Tokens) /\ Len(SubSeq(q, 1, k - 1)) = k - 1
      /\ \A i \in 1 .. k - 1 : SubSeq(q, 1, k - 1)[i] = q[i]
  BY <1>1, <1>3
<1>6. /\ SubSeq(q, k + 1, Len(q)) \in Seq(Tokens)
      /\ Len(SubSeq(q, k + 1, Len(q))) = Len(q) - k
      /\ \A i \in 1 .. Len(q) - k : SubSeq(q, k + 1, Len(q))[i] = q[k + i]
  BY <1>1, <1>3
<1> QED  BY <1>3, <1>4, <1>5, <1>6 DEF k, S

\* The shape of a query and its parts.
LEMMA Shapes ==
  ASSUME NEW p \in Seq(Tokens)
  PROVE  LET s == Parse(p)
         IN  /\ s.node = "And" => /\ Splits(p, "AND") # {}
                                  /\ s.left = Left(p, "AND") /\ s.right = Right(p, "AND")
             /\ s.node = "Or"  => /\ Splits(p, "OR") # {}
                                  /\ s.left = Left(p, "OR") /\ s.right = Right(p, "OR")
             /\ s.node = "Word" => IsWord(p)
  BY DEF Parse

\* What is searched for is the last word.
LEMMA LastWord ==
  ASSUME NEW p \in Seq(Tokens), IsWord(p)
  PROVE  Last(p) \in Words
<1>1. CASE Len(p) = 1 /\ p[1] \in Words
  BY <1>1 DEF Last
<1>2. CASE {i \in DOMAIN p : p[i].kind = "field"} = {Len(p)}
  <2>1. Len(p) \in DOMAIN p /\ p[Len(p)].kind = "field"
    BY <1>2
  <2>2. p[Len(p)] \in Tokens
    BY <2>1
  <2> QED  BY <2>1, <2>2, TokenKinds DEF Last, Tokens
<1> QED  BY <1>1, <1>2 DEF IsWord

LEMMA WordStored ==
  ASSUME NEW seg \in Sound, NEW w \in Words
  PROVE  EvalWord(seg, w) \subseteq DOMAIN seg.docs
<1>1. \A t \in w.terms : seg.postings[t] \subseteq DOMAIN seg.docs
  BY TokenKinds, SoundFacts
<1>2. UNION {seg.postings[t] : t \in w.terms} \subseteq DOMAIN seg.docs
  BY <1>1
<1> QED  BY <1>2 DEF EvalWord

\* The results of a query, given those of shorter ones.
Result(seg, g, p) ==
  LET s == Parse(p)
  IN  CASE s.node = "And"  -> g[s.left] \cap g[s.right]
        [] s.node = "Or"   -> g[s.left] \cup g[s.right]
        [] s.node = "Word" -> EvalWord(seg, Last(p))
        [] OTHER           -> {}

LEMMA ResultType ==
  ASSUME NEW seg \in Sound, NEW g \in [Seq(Tokens) -> SUBSET DOMAIN seg.docs],
         NEW p \in Seq(Tokens)
  PROVE  Result(seg, g, p) \in SUBSET DOMAIN seg.docs
<1> DEFINE s == Parse(p)
<1>1. ASSUME s.node = "And" \/ s.node = "Or"
      PROVE  g[s.left] \in SUBSET DOMAIN seg.docs /\ g[s.right] \in SUBSET DOMAIN seg.docs
  <2>1. s.left \in Seq(Tokens) /\ s.right \in Seq(Tokens)
    BY <1>1, Shapes, Divides
  <2> QED  BY <2>1
<1>2. ASSUME s.node = "Word"
      PROVE  EvalWord(seg, Last(p)) \in SUBSET DOMAIN seg.docs
  <2>1. Last(p) \in Words
    BY <1>2, Shapes, LastWord
  <2> QED  BY <2>1, WordStored
<1> HIDE DEF s
<1> QED  BY <1>1, <1>2 DEF Result, s

\* A run of the recursion of Eval.
EvalRun(f, seg, q) ==
  /\ f[Len(q)][q] = Eval(seg, q)
  /\ \A n \in 0 .. Len(q) : f[n] \in [Seq(Tokens) -> SUBSET DOMAIN seg.docs]
  /\ \A p \in Seq(Tokens) : f[0][p] = {}
  /\ \A n \in 1 .. Len(q) : \A p \in Seq(Tokens) : f[n][p] = Result(seg, f[n - 1], p)

LEMMA EvalSteps ==
  ASSUME NEW seg \in Sound, NEW q \in Seq(Tokens)
  PROVE  \E f : EvalRun(f, seg, q)
<1> DEFINE N == Len(q)
           V == [Seq(Tokens) -> SUBSET DOMAIN seg.docs]
           Next1(g) == [p \in Seq(Tokens) |-> Result(seg, g, p)]
           base == [p \in Seq(Tokens) |-> {}]
           step == [n \in 1 .. N |-> [g \in V |-> Next1(g)]]
           Good(f) == f = [n \in 0 .. N |->
                [p \in Seq(Tokens) |->
                   IF n = 0 THEN {}
                   ELSE LET s == Parse(p)
                        IN  CASE s.node = "And"  -> f[n - 1][s.left] \cap f[n - 1][s.right]
                              [] s.node = "Or"   -> f[n - 1][s.left] \cup f[n - 1][s.right]
                              [] s.node = "Word" -> EvalWord(seg, Last(p))
                              [] OTHER           -> {}]]
           k == CHOOSE f : Good(f)
<1>1. N \in Nat /\ base \in V /\ \A g \in V : Next1(g) \in V
  <2>1. ASSUME NEW g \in V PROVE Next1(g) \in V
    BY ResultType
  <2> QED  BY <2>1
<1>2. Eval(seg, q) = k[N][q]
  BY DEF Eval
<1>3. step \in [1 .. N -> [V -> V]] /\ \A n \in 1 .. N, g \in V : step[n][g] = Next1(g)
  <2> HIDE DEF V, Next1, N
  <2> QED  BY <1>1
<1>4. ASSUME NEW f
      PROVE  Good(f) <=> f = [n \in 0 .. N |-> IF n = 0 THEN base ELSE Next1(f[n - 1])]
  <2>1. \A n \in 0 .. N :
          [p \in Seq(Tokens) |->
             IF n = 0 THEN {}
             ELSE LET s == Parse(p)
                  IN  CASE s.node = "And"  -> f[n - 1][s.left] \cap f[n - 1][s.right]
                        [] s.node = "Or"   -> f[n - 1][s.left] \cup f[n - 1][s.right]
                        [] s.node = "Word" -> EvalWord(seg, Last(p))
                        [] OTHER           -> {}]
          = IF n = 0 THEN base ELSE Next1(f[n - 1])
    BY DEF Result
  <2> QED  BY <2>1
<1> HIDE DEF V, Next1, N, base, Good
<1>5. \E f : Good(f)
  <2>1. PICK f \in [0 .. N -> V] :
          f[0] = base /\ \A n \in 1 .. N : f[n] = step[n][f[n - 1]]
    <3> HIDE DEF step
    <3>1. IsRecursion(N, V, base, step)
      BY <1>1, <1>3 DEF IsRecursion
    <3>2. PICK f : SolvesRecursion(f, N, V, base, step)
      BY <3>1, RecursionSolved
    <3> QED  BY <3>2 DEF SolvesRecursion
  <2>2. \A n \in 1 .. N : f[n - 1] \in V
    BY <1>1, <2>1
  <2>3. \A n \in 1 .. N : f[n] = Next1(f[n - 1])
    <3> HIDE DEF step
    <3> QED BY <2>1, <2>2, <1>3
  <2>4. f = [n \in 0 .. N |-> IF n = 0 THEN base ELSE Next1(f[n - 1])]
    <3> HIDE DEF step
    <3> QED  BY <1>1, <2>1, <2>3
  <2> QED  BY <1>4, <2>4
<1>6. Good(k)
  BY <1>5
<1> HIDE DEF k
<1>7. k = [n \in 0 .. N |-> IF n = 0 THEN base ELSE Next1(k[n - 1])]
  BY <1>4, <1>6
<1>8. k[0] = base /\ \A n \in 1 .. N : k[n] = Next1(k[n - 1])
  BY <1>1, <1>7
<1>9. \A n \in 0 .. N : k[n] \in V
  <2> DEFINE T == {n \in 0 .. N : k[n] \in V}
  <2>1. 0 \in T
    BY <1>1, <1>8
  <2>2. \A n \in 0 .. N : n < N /\ n \in T => n + 1 \in T
    <3> SUFFICES ASSUME NEW n \in 0 .. N, n < N, k[n] \in V
                 PROVE  k[n + 1] \in V
      BY <1>1
    <3>1. n + 1 \in 1 .. N /\ (n + 1) - 1 = n
      BY <1>1
    <3> QED  BY <1>1, <1>8, <3>1
  <2> HIDE DEF T
  <2>3. \A n \in 0 .. N : n \in T
    BY <1>1, <2>1, <2>2, InductionUpTo
  <2> QED  BY <2>3 DEF T
<1>10. \A p \in Seq(Tokens) : k[0][p] = {}
  BY <1>8 DEF base
<1>11. \A n \in 1 .. N : \A p \in Seq(Tokens) : k[n][p] = Result(seg, k[n - 1], p)
  BY <1>8 DEF Next1
<1> QED  BY <1>2, <1>9, <1>10, <1>11 DEF EvalRun, N, V

\* A search of a segment finds numbers of its documents.
LEMMA EvalStored ==
  ASSUME NEW seg \in Sound, NEW q \in Seq(Tokens)
  PROVE  Eval(seg, q) \subseteq DOMAIN seg.docs
<1>1. PICK f : EvalRun(f, seg, q)
  BY EvalSteps
<1>2. Len(q) \in 0 .. Len(q)
  OBVIOUS
<1> QED  BY <1>1, <1>2 DEF EvalRun

LEMMA Stored1 ==
  ASSUME IndexInv, NEW i \in DOMAIN segments
  PROVE  segments[i] \in Sound /\ i \in 1 .. Len(segments)
  BY DEF IndexInv

\* A number that is stored is found as a document.
LEMMA LookedUp ==
  ASSUME IndexInv, NEW i \in DOMAIN segments, NEW n \in DOMAIN segments[i].docs
  PROVE  Lookup(n) \in Docs
<1> DEFINE at == {j \in DOMAIN segments : n \in DOMAIN segments[j].docs}
<1>1. at \subseteq Nat /\ at # {}
  BY Stored1
<1>2. Min(at) \in at
  <2> HIDE DEF at
  <2> QED  BY <1>1, MinIn
<1>3. Lookup(n) = segments[Min(at)].docs[n]
  BY <1>1 DEF Lookup
<1>4. Min(at) \in DOMAIN segments /\ n \in DOMAIN segments[Min(at)].docs
  BY <1>2
<1> HIDE DEF at
<1> DEFINE seg == segments[Min(at)]
<1>5. seg \in Sound /\ n \in DOMAIN seg.docs
  BY <1>4, Stored1
<1> HIDE DEF seg
<1>6. seg.docs[n] \in Docs
  BY <1>5, SoundFacts
<1> QED  BY <1>3, <1>6 DEF seg

\* No query, on any segments that flushes and merges make, finds a number
\* without a document (search_executor.rs, execute_parallel).
THEOREM NoPlaceholdersHolds == IndexSpec => []NoPlaceholders
<1>1. ASSUME IndexInv PROVE NoPlaceholders
  <2> SUFFICES ASSUME NEW seg \in Range(segments), NEW q \in Queries, NEW n \in Eval(seg, q)
               PROVE  Lookup(n) # NoDoc
    BY DEF NoPlaceholders, Found
  <2>1. q \in Seq(Tokens) /\ NoDoc \notin Docs
    BY SearchConstants
  <2>2. PICK i \in DOMAIN segments : seg = segments[i]
    BY DEF Range
  <2>3. segments[i] \in Sound
    BY <1>1, Stored1
  <2>4. n \in DOMAIN segments[i].docs
    BY <2>1, <2>2, <2>3, EvalStored
  <2> QED  BY <1>1, <2>1, <2>4, LookedUp
<1> QED  BY <1>1, IndexInvariant, PTL

-----------------------------------------------------------------------------
(* A query of one word.                                                    *)

LEMMA OneWord ==
  ASSUME NEW seg \in Sound, NEW q \in Seq(Tokens), Len(q) = 1, q[1] \in Words
  PROVE  Eval(seg, q) = EvalWord(seg, q[1])
<1>1. PICK f : EvalRun(f, seg, q)
  BY EvalSteps
<1>2. Len(q) = 1 /\ Last(q) = q[1] /\ IsWord(q)
  BY DEF IsWord, Last
<1>3. Parse(q).node = "Word"
  <2>1. q # <<>> /\ ~Quoted(q)
    BY <1>2 DEF Quoted
  <2>2. \A op : Splits(q, op) = {}
    BY <1>2 DEF Splits
  <2> QED  BY <1>2, <2>1, <2>2 DEF Parse
<1>4. Eval(seg, q) = f[1][q] /\ f[1][q] = Result(seg, f[0], q)
  BY <1>1, <1>2 DEF EvalRun
<1> QED  BY <1>2, <1>3, <1>4 DEF Result

LEMMA LeastOfTwo ==
  ASSUME NEW a \in Nat, NEW b \in Nat
  PROVE  Min({a, b}) = IF a <= b THEN a ELSE b
<1>1. CASE a <= b
  <2>1. a \in {a, b} /\ \A y \in {a, b} : a <= y
    BY <1>1
  <2>2. \A x \in {a, b} : (\A y \in {a, b} : x <= y) => x = a
    BY <1>1
  <2> QED  BY <1>1, <2>1, <2>2 DEF Min
<1>2. CASE ~(a <= b)
  <2>1. b \in {a, b} /\ \A y \in {a, b} : b <= y
    BY <1>2
  <2>2. \A x \in {a, b} : (\A y \in {a, b} : x <= y) => x = b
    BY <1>2
  <2> QED  BY <1>2, <2>1, <2>2 DEF Min
<1> QED  BY <1>1, <1>2

\* A search for one term counts at most as many hits as its limit and as there are
\* stored copies of documents with the term, and no fewer than the limit leaves of
\* any segment's (search_executor.rs, execute_parallel).
THEOREM CountsHitsHolds == IndexSpec => []CountsHits
<1>1. ASSUME IndexInv PROVE CountsHits
  <2> SUFFICES ASSUME NEW t \in Terms, NEW hits \in Answers(TermQuery(t))
               PROVE  /\ Cardinality(hits) <= Limit
                      /\ Cardinality(hits) <= Cardinality(UNION {{i} \X Holding(segments[i], t)
                                                                   : i \in DOMAIN segments})
                      /\ \A i \in DOMAIN segments :
                           Min({Limit, Cardinality(Holding(segments[i], t))})
                             <= Cardinality(hits)
    BY DEF CountsHits
  <2> DEFINE w == [kind |-> "any", terms |-> {t}]
             q == <<w>>
             D == DOMAIN segments
             H == Joined(q)
             P == UNION {{i} \X Holding(segments[i], t) : i \in D}
             B(i) == CHOOSE f : f \in Bijection(Holding(segments[i], t), segments[i].postings[t])
  <2>0. Cardinality(hits) = Min({Limit, Cardinality(H)})
    BY DEF Answers, TermQuery
  <2>1. w \in Words /\ q \in Seq(Tokens) /\ Len(q) = 1 /\ q[1] = w
    <3>1. w \in Words
      BY DEF Words
    <3>2. w \in Tokens
      BY <3>1 DEF Tokens
    <3> HIDE DEF w
    <3> QED  BY <3>1, <3>2
  <2>2. ASSUME NEW i \in D
        PROVE  Eval(segments[i], q) = segments[i].postings[t]
    <3>1. Eval(segments[i], q) = EvalWord(segments[i], w)
      <4>1. segments[i] \in Sound
        BY <1>1, Stored1
      <4> HIDE DEF q, w
      <4> QED  BY <2>1, <4>1, OneWord
    <3>2. w.kind = "any" /\ w.terms = {t}
      OBVIOUS
    <3> HIDE DEF w, q
    <3> QED  BY <3>1, <3>2 DEF EvalWord
  <2> HIDE DEF q, w
  <2>3. H = UNION {segments[i].postings[t] : i \in D}
    BY <2>2 DEF Joined, Range
  <2>4. ASSUME NEW i \in D
        PROVE  /\ IsFiniteSet(segments[i].postings[t]) /\ IsFiniteSet(Holding(segments[i], t))
               /\ Cardinality(segments[i].postings[t]) = Cardinality(Holding(segments[i], t))
               /\ segments[i].postings[t] \subseteq Numbers
               /\ Holding(segments[i], t) \subseteq Numbers
               /\ i \in 1 .. Len(segments)
    <3>1. segments[i] \in Sound /\ i \in 1 .. Len(segments)
      BY <1>1, Stored1
    <3>2. Holding(segments[i], t) \subseteq DOMAIN segments[i].docs
      BY DEF Holding
    <3> QED  BY <3>1, <3>2, SoundFacts, NumbersFinite
  <2>5. IsFiniteSet(H)
    <3>1. H \subseteq Numbers
      BY <2>3, <2>4
    <3> HIDE DEF H
    <3> QED  BY <3>1, NumbersFinite
  <2>6. IsFiniteSet(P)
    <3>1. P \subseteq (1 .. Len(segments)) \X Numbers
      BY <2>4
    <3>2. IsFiniteSet(1 .. Len(segments)) /\ IsFiniteSet(Numbers)
      BY <1>1, FS_Interval, NumbersFinite DEF IndexInv
    <3>3. IsFiniteSet((1 .. Len(segments)) \X Numbers)
      BY <3>2, FS_Product
    <3> HIDE DEF P
    <3> QED  BY <3>1, <3>3, FS_Subset
  <2>7. ASSUME NEW i \in D
        PROVE  B(i) \in Bijection(Holding(segments[i], t), segments[i].postings[t])
    <3>1. ExistsBijection(Holding(segments[i], t), segments[i].postings[t])
      BY <2>4, FS_SameCardinalityBij
    <3> QED  BY <3>1 DEF ExistsBijection
  <2> HIDE DEF B
  <2> DEFINE g == [x \in P |-> B(x[1])[x[2]]]
  <2>8. g \in Surjection(P, H)
    <3>1. ASSUME NEW x \in P
          PROVE  g[x] \in H
      <4>1. PICK i \in D : x \in {i} \X Holding(segments[i], t)
        OBVIOUS
      <4>2. x[1] = i /\ x[2] \in Holding(segments[i], t)
        BY <4>1
      <4>3. B(i)[x[2]] \in segments[i].postings[t]
        BY <2>7, <4>2 DEF Bijection, Injection
      <4>4. g[x] = B(i)[x[2]]
        BY <4>2
      <4> QED  BY <2>3, <4>3, <4>4
    <3>2. ASSUME NEW n \in H
          PROVE  \E x \in P : g[x] = n
      <4>1. PICK i \in D : n \in segments[i].postings[t]
        BY <2>3
      <4>2. PICK m \in Holding(segments[i], t) : B(i)[m] = n
        BY <2>7, <4>1 DEF Bijection, Surjection
      <4>3. <<i, m>> \in P
        OBVIOUS
      <4>4. g[<<i, m>>] = n
        BY <4>2, <4>3
      <4> QED  BY <4>3, <4>4
    <3>3. g \in [P -> H]
      <4> HIDE DEF P, H
      <4>1. \A x \in P : B(x[1])[x[2]] \in H
        BY <3>1
      <4> QED  BY <4>1
    <3> HIDE DEF g, P, H
    <3> QED  BY <3>2, <3>3 DEF Surjection
  <2>9. Cardinality(H) <= Cardinality(P)
    <3> HIDE DEF g, P, H
    <3> QED  BY <2>6, <2>8, FS_Surjection
  <2>10. ASSUME NEW i \in D
         PROVE  Cardinality(Holding(segments[i], t)) <= Cardinality(H)
    <3>1. segments[i].postings[t] \subseteq H
      BY <2>3
    <3> HIDE DEF H
    <3>2. Cardinality(segments[i].postings[t]) <= Cardinality(H)
      BY <2>5, <3>1, FS_Subset
    <3> QED  BY <2>4, <3>2
  <2>11. /\ Limit \in Nat /\ Cardinality(H) \in Nat /\ Cardinality(P) \in Nat
         /\ \A i \in D : Cardinality(Holding(segments[i], t)) \in Nat
    BY <2>4, <2>5, <2>6, SearchConstants, FS_CardinalityType
  <2>12. Cardinality(hits) = IF Limit <= Cardinality(H) THEN Limit ELSE Cardinality(H)
    BY <2>0, <2>11, LeastOfTwo
  <2> HIDE DEF H, P
  <2>13. ASSUME NEW i \in D
         PROVE  Min({Limit, Cardinality(Holding(segments[i], t))}) <= Cardinality(hits)
    <3>1. Min({Limit, Cardinality(Holding(segments[i], t))})
            = IF Limit <= Cardinality(Holding(segments[i], t)) THEN Limit
              ELSE Cardinality(Holding(segments[i], t))
      BY <2>11, LeastOfTwo
    <3> QED  BY <2>10, <2>11, <2>12, <3>1
  <2>14. Cardinality(hits) <= Limit /\ Cardinality(hits) <= Cardinality(P)
    BY <2>9, <2>11, <2>12
  <2> QED  BY <2>13, <2>14 DEF P
<1> QED  BY <1>1, IndexInvariant, PTL

-----------------------------------------------------------------------------
(* Queries of words, AND and OR.                                           *)

LEMMA Parity ==
  ASSUME NEW a \in Nat, NEW b \in Nat, a % 2 = 0
  PROVE  /\ (a + b) % 2 = 1 <=> b % 2 = 1
         /\ b >= a => ((b - a) % 2 = 1 <=> b % 2 = 1)
         /\ b % 2 = 1 => b # a
         /\ a >= 1 => (a - 1) % 2 = 1
         /\ b % 2 \in {0, 1}
  OBVIOUS

\* Words at odd places and operators at even ones.
LEMMA Alternates ==
  ASSUME NEW q \in Seq(Tokens), WellFormed(q)
  PROVE  /\ Len(q) \in Nat /\ Len(q) % 2 = 1 /\ Len(q) >= 1
         /\ DOMAIN q = 1 .. Len(q)
         /\ WordPlaces(q) = {i \in 1 .. Len(q) : i % 2 = 1} /\ 1 \in WordPlaces(q)
         /\ \A i \in WordPlaces(q) : q[i] \in Words /\ q[i].kind \in {"any", "field", "all"}
         /\ \A i \in 1 .. Len(q) : i % 2 = 0 => /\ q[i].kind \in {"AND", "OR"}
                                                /\ i \in 2 .. Len(q) - 1
         /\ \A i \in 1 .. Len(q) : q[i].kind \in {"AND", "OR"} => i % 2 = 0
<1>1. Len(q) \in Nat /\ Len(q) % 2 = 1 /\ DOMAIN q = 1 .. Len(q)
  BY DEF WellFormed
<1>2. Len(q) >= 1
  BY <1>1
<1>3. WordPlaces(q) = {i \in 1 .. Len(q) : i % 2 = 1} /\ 1 \in WordPlaces(q)
  BY <1>1, <1>2 DEF WordPlaces
<1>4. \A i \in WordPlaces(q) : q[i] \in Words
  BY <1>1, <1>3 DEF WellFormed
<1>5. \A i \in WordPlaces(q) : q[i].kind \in {"any", "field", "all"}
  BY <1>4, TokenKinds
<1>6. \A i \in 1 .. Len(q) : i % 2 = 0 \/ i % 2 = 1
  OBVIOUS
<1>7. \A i \in 1 .. Len(q) : i % 2 = 0 => q[i].kind \in {"AND", "OR"}
  BY <1>1 DEF WellFormed
<1>8. \A i \in 1 .. Len(q) : i % 2 = 0 => i \in 2 .. Len(q) - 1
  BY <1>1
<1>9. \A i \in 1 .. Len(q) : q[i].kind \in {"AND", "OR"} => i % 2 = 0
  BY <1>3, <1>5, <1>6
<1> QED  BY <1>1, <1>2, <1>3, <1>4, <1>5, <1>7, <1>8, <1>9

\* Such a query is not taken for a phrase.
LEMMA NotQuoted ==
  ASSUME NEW q \in Seq(Tokens), WellFormed(q)
  PROVE  q # <<>> /\ ~Quoted(q)
<1>1. Len(q) \in Nat /\ Len(q) >= 1 /\ Len(q) \in WordPlaces(q) /\ 1 \in WordPlaces(q)
  BY Alternates
<1>2. q # <<>>
  BY <1>1
<1>3. ASSUME Len(q) > 1, q[1].kind = "all", q[Len(q)].kind = "all"
      PROVE  FALSE
  <2>1. PartsUnquoted(q)
    BY DEF WellFormed
  <2> QED  BY <1>1, <1>3, <2>1 DEF PartsUnquoted
<1> QED  BY <1>2, <1>3 DEF Quoted

\* The sides of the first AND: each word is on one of them, and no group of
\* words is on both.
LEMMA AndDivides ==
  ASSUME NEW q \in Seq(Tokens), WellFormed(q), Splits(q, "AND") # {}
  PROVE  /\ WellFormed(Left(q, "AND")) /\ WellFormed(Right(q, "AND"))
         /\ \A d \in Docs :
              Matches(d, q) <=> Matches(d, Left(q, "AND")) /\ Matches(d, Right(q, "AND"))
<1> DEFINE L == Len(q)
           k == Min(Splits(q, "AND"))
           l == Left(q, "AND")
           r == Right(q, "AND")
<1>1. /\ L \in Nat /\ L % 2 = 1 /\ DOMAIN q = 1 .. L
      /\ WordPlaces(q) = {i \in 1 .. L : i % 2 = 1}
      /\ \A i \in WordPlaces(q) : q[i] \in Words
      /\ \A i \in 1 .. L : i % 2 = 0 => q[i].kind \in {"AND", "OR"} /\ i \in 2 .. L - 1
      /\ \A i \in 1 .. L : q[i].kind \in {"AND", "OR"} => i % 2 = 0
  BY Alternates
<1>2. /\ k \in 2 .. L - 1 /\ q[k].kind = "AND"
      /\ \A i \in 2 .. L - 1 : q[i].kind = "AND" => k <= i
      /\ l \in Seq(Tokens) /\ Len(l) = k - 1 /\ \A i \in 1 .. k - 1 : l[i] = q[i]
      /\ r \in Seq(Tokens) /\ Len(r) = L - k /\ \A i \in 1 .. L - k : r[i] = q[k + i]
  BY Divides
<1>3. PartsUnquoted(q)
  BY DEF WellFormed
<1> HIDE DEF L, k, l, r
<1>4. k % 2 = 0 /\ \A i \in 1 .. L : q[i].kind = "AND" => k <= i
  <2>1. \A i \in 1 .. L : q[i].kind = "AND" => i % 2 = 0
    BY <1>1
  <2>2. \A i \in 1 .. L : q[i].kind = "AND" => i \in 2 .. L - 1
    BY <1>1, <2>1
  <2>3. k \in 1 .. L
    BY <1>1, <1>2
  <2> QED  BY <1>2, <2>1, <2>2, <2>3
<1>5. DOMAIN l = 1 .. k - 1 /\ DOMAIN r = 1 .. L - k
  BY <1>2
<1>6. WordPlaces(l) = {i \in 1 .. k - 1 : i % 2 = 1} /\ WordPlaces(r) = {i \in 1 .. L - k : i % 2 = 1}
  BY <1>5 DEF WordPlaces
<1>7. \A i \in WordPlaces(l) : i \in WordPlaces(q) /\ i < k /\ l[i] = q[i]
  BY <1>1, <1>2, <1>6
<1>8. \A i \in WordPlaces(r) : k + i \in WordPlaces(q) /\ r[i] = q[k + i]
  <2> SUFFICES ASSUME NEW i \in WordPlaces(r) PROVE k + i \in WordPlaces(q) /\ r[i] = q[k + i]
    OBVIOUS
  <2>1. k \in Nat /\ i \in Nat /\ i \in 1 .. L - k /\ i % 2 = 1
    BY <1>1, <1>2, <1>6
  <2>2. (k + i) % 2 = 1
    BY <1>4, <2>1, Parity
  <2>3. k + i \in 1 .. L
    BY <1>1, <1>2, <2>1
  <2> QED  BY <1>1, <1>2, <2>1, <2>2, <2>3
<1>9. ASSUME NEW i \in WordPlaces(q)
      PROVE  i \in WordPlaces(l) \/ (i > k /\ i - k \in WordPlaces(r))
  <2>1. i \in 1 .. L /\ i % 2 = 1 /\ i # k
    <3>1. i \in 1 .. L /\ i % 2 = 1
      BY <1>1
    <3>2. i # k
      BY <1>4, <3>1
    <3> QED  BY <3>1, <3>2
  <2>2. CASE i < k
    <3>1. i \in 1 .. k - 1
      BY <1>1, <1>2, <2>1, <2>2
    <3> QED  BY <1>6, <2>1, <3>1
  <2>3. CASE i > k
    <3>1. i - k \in 1 .. L - k /\ k \in Nat /\ i \in Nat /\ i >= k
      BY <1>1, <1>2, <2>1, <2>3
    <3>2. (i - k) % 2 = 1
      BY <1>4, <2>1, <3>1, Parity
    <3> QED  BY <1>6, <2>3, <3>1, <3>2
  <2> QED  BY <1>2, <2>1, <2>2, <2>3
<1>10. \A i, j \in WordPlaces(l) : Together(q, i, j) /\ Together(l, i, j)
  <2>1. \A m \in 1 .. k - 1 : l[m].kind # "AND"
    BY <1>1, <1>2, <1>4
  <2>2. \A m \in 1 .. L, i \in WordPlaces(l) : q[m].kind = "AND" => ~(m < i)
    BY <1>1, <1>2, <1>4, <1>6
  <2> QED  BY <1>1, <1>5, <2>1, <2>2 DEF Together
<1>11. \A i, j \in WordPlaces(r) : Together(q, k + i, k + j) <=> Together(r, i, j)
  <2> SUFFICES ASSUME NEW i \in WordPlaces(r), NEW j \in WordPlaces(r)
               PROVE  Together(q, k + i, k + j) <=> Together(r, i, j)
    OBVIOUS
  <2>1. i \in 1 .. L - k /\ j \in 1 .. L - k
    BY <1>6
  <2>2. ASSUME Together(q, k + i, k + j), NEW m \in 1 .. L - k, r[m].kind = "AND"
        PROVE  m < i <=> m < j
    <3>1. k + m \in 1 .. L /\ q[k + m].kind = "AND"
      BY <1>1, <1>2, <2>2
    <3>2. k + m < k + i <=> k + m < k + j
      BY <1>1, <2>2, <3>1 DEF Together
    <3> QED  BY <1>2, <2>1, <3>2
  <2>3. ASSUME Together(r, i, j), NEW m \in 1 .. L, q[m].kind = "AND"
        PROVE  m < k + i <=> m < k + j
    <3>1. CASE m <= k
      BY <1>2, <2>1, <3>1
    <3>2. CASE m > k
      <4>1. m - k \in 1 .. L - k /\ k + (m - k) = m
        BY <1>1, <1>2, <3>2
      <4>2. r[m - k].kind = "AND"
        BY <1>2, <2>3, <4>1
      <4>3. m - k < i <=> m - k < j
        BY <1>5, <2>3, <4>1, <4>2 DEF Together
      <4> QED  BY <1>2, <2>1, <4>1, <4>3
    <3> QED  BY <1>2, <3>1, <3>2
  <2> QED  BY <1>1, <1>5, <2>2, <2>3 DEF Together
<1>12. \A i \in WordPlaces(l), j \in WordPlaces(r) : ~Together(q, i, k + j) /\ ~Together(q, k + j, i)
  <2> SUFFICES ASSUME NEW i \in WordPlaces(l), NEW j \in WordPlaces(r)
               PROVE  ~Together(q, i, k + j) /\ ~Together(q, k + j, i)
    OBVIOUS
  <2>1. ~(k < i) /\ k < k + j /\ k \in 1 .. L
    BY <1>1, <1>2, <1>6
  <2> QED  BY <1>1, <1>2, <2>1 DEF Together
<1>13. WellFormed(l)
  <2>1. Len(l) % 2 = 1
    <3>1. k \in Nat /\ k >= 1 /\ k % 2 = 0
      BY <1>1, <1>2, <1>4
    <3>2. (k - 1) % 2 = 1
      BY <3>1
    <3> QED  BY <1>2, <3>2
  <2>2. ASSUME NEW i \in 1 .. k - 1
        PROVE  IF i % 2 = 1 THEN l[i] \in Words ELSE l[i].kind \in {"AND", "OR"}
    <3>1. i \in 1 .. L /\ i % 2 \in {0, 1} /\ l[i] = q[i]
      BY <1>1, <1>2
    <3>2. i % 2 = 1 => i \in WordPlaces(q)
      BY <1>1, <3>1
    <3> QED  BY <1>1, <3>1, <3>2
  <2>3. PartsUnquoted(l)
    <3> SUFFICES ASSUME NEW i \in WordPlaces(l), NEW j \in WordPlaces(l), i < j,
                        l[i].kind = "all", l[j].kind = "all"
                 PROVE  j # Len(l) /\ l[j + 1].kind # "AND"
      BY DEF PartsUnquoted
    <3>1. q[j + 1].kind # "AND"
      BY <1>3, <1>7, <1>10 DEF PartsUnquoted
    <3>2. j + 1 # k /\ j \in 1 .. k - 1
      BY <1>2, <1>6, <3>1
    <3>3. j # Len(l) /\ l[j + 1] = q[j + 1]
      BY <1>2, <3>2
    <3> QED  BY <3>1, <3>3
  <2> QED  BY <1>5, <2>1, <2>2, <2>3 DEF WellFormed
<1>14. WellFormed(r)
  <2>1. Len(r) % 2 = 1
    <3>1. k \in Nat /\ L \in Nat /\ L >= k /\ k % 2 = 0
      BY <1>1, <1>2, <1>4
    <3>2. (L - k) % 2 = 1
      BY <1>1, <3>1, Parity
    <3> QED  BY <1>2, <3>2
  <2>2. ASSUME NEW i \in 1 .. L - k
        PROVE  IF i % 2 = 1 THEN r[i] \in Words ELSE r[i].kind \in {"AND", "OR"}
    <3>1. k + i \in 1 .. L /\ k \in Nat /\ i \in Nat /\ k + i \in Nat /\ k % 2 = 0
      BY <1>1, <1>2, <1>4
    <3>2. ((k + i) % 2 = 1 <=> i % 2 = 1) /\ (k + i) % 2 \in {0, 1}
      BY <3>1, Parity
    <3>3. i % 2 = 1 => k + i \in WordPlaces(q)
      BY <1>1, <3>1, <3>2
    <3> QED  BY <1>1, <1>2, <3>1, <3>2, <3>3
  <2>3. PartsUnquoted(r)
    <3> SUFFICES ASSUME NEW i \in WordPlaces(r), NEW j \in WordPlaces(r), i < j,
                        r[i].kind = "all", r[j].kind = "all"
                 PROVE  /\ j = Len(r) => i # 1 /\ r[i - 1].kind # "AND"
                        /\ Together(r, i, j) => j # Len(r) /\ r[j + 1].kind # "AND"
      BY DEF PartsUnquoted
    <3>1. /\ k + i \in WordPlaces(q) /\ k + j \in WordPlaces(q) /\ k + i < k + j
          /\ q[k + i].kind = "all" /\ q[k + j].kind = "all"
          /\ i \in 1 .. L - k /\ j \in 1 .. L - k
      BY <1>2, <1>6, <1>8
    <3>2. /\ k + j = L => q[(k + i) - 1].kind # "AND"
          /\ Together(q, k + i, k + j) => k + j # L /\ q[(k + j) + 1].kind # "AND"
      BY <1>3, <3>1 DEF PartsUnquoted, L
    <3>3. ASSUME j = Len(r)
          PROVE  i # 1 /\ r[i - 1].kind # "AND"
      <4>1. q[(k + i) - 1].kind # "AND"
        BY <1>1, <1>2, <3>2, <3>3
      <4>2. i # 1
        BY <1>2, <4>1
      <4>3. i - 1 \in 1 .. L - k /\ k + (i - 1) = (k + i) - 1
        BY <1>1, <1>2, <3>1, <4>2
      <4> QED  BY <1>2, <4>1, <4>2, <4>3
    <3>4. ASSUME Together(r, i, j)
          PROVE  j # Len(r) /\ r[j + 1].kind # "AND"
      <4>1. k + j # L /\ q[(k + j) + 1].kind # "AND"
        BY <1>11, <3>2, <3>4
      <4>2. j # Len(r) /\ j + 1 \in 1 .. L - k /\ k + (j + 1) = (k + j) + 1
        BY <1>1, <1>2, <3>1, <4>1
      <4> QED  BY <1>2, <4>1, <4>2
    <3> QED  BY <3>3, <3>4
  <2> QED  BY <1>5, <2>1, <2>2, <2>3 DEF WellFormed
<1>15. ASSUME NEW d \in Docs
       PROVE  Matches(d, q) <=> Matches(d, l) /\ Matches(d, r)
  <2>1. ASSUME Matches(d, q), NEW i \in WordPlaces(l)
        PROVE  \E j \in WordPlaces(l) : Together(l, i, j) /\ Satisfies(d, l[j])
    <3>1. PICK j \in WordPlaces(q) : Together(q, i, j) /\ Satisfies(d, q[j])
      BY <1>7, <2>1 DEF Matches
    <3>2. j \in WordPlaces(l)
      <4>1. CASE j > k /\ j - k \in WordPlaces(r)
        <5>1. k + (j - k) = j
          BY <1>1, <1>2
        <5> QED  BY <1>12, <2>1, <3>1, <4>1, <5>1
      <4> QED  BY <1>9, <4>1
    <3> QED  BY <1>7, <1>10, <3>1, <3>2
  <2>2. ASSUME Matches(d, q), NEW i \in WordPlaces(r)
        PROVE  \E j \in WordPlaces(r) : Together(r, i, j) /\ Satisfies(d, r[j])
    <3>1. PICK j \in WordPlaces(q) : Together(q, k + i, j) /\ Satisfies(d, q[j])
      BY <1>8, <2>2 DEF Matches
    <3>2. j \notin WordPlaces(l)
      BY <1>12, <2>2, <3>1
    <3>3. j - k \in WordPlaces(r) /\ k + (j - k) = j
      BY <1>1, <1>2, <1>9, <3>2
    <3> QED  BY <1>8, <1>11, <3>1, <3>3
  <2>3. ASSUME Matches(d, l), Matches(d, r), NEW i \in WordPlaces(q)
        PROVE  \E j \in WordPlaces(q) : Together(q, i, j) /\ Satisfies(d, q[j])
    <3>1. CASE i \in WordPlaces(l)
      <4>1. PICK j \in WordPlaces(l) : Satisfies(d, l[j])
        BY <2>3, <3>1 DEF Matches
      <4> QED  BY <1>7, <1>10, <3>1, <4>1
    <3>2. CASE i > k /\ i - k \in WordPlaces(r)
      <4>1. PICK j \in WordPlaces(r) : Together(r, i - k, j) /\ Satisfies(d, r[j])
        BY <2>3, <3>2 DEF Matches
      <4>2. k + (i - k) = i
        BY <1>1, <1>2
      <4> QED  BY <1>8, <1>11, <3>2, <4>1, <4>2
    <3> QED  BY <1>9, <3>1, <3>2
  <2> QED  BY <2>1, <2>2, <2>3 DEF Matches
<1> QED  BY <1>13, <1>14, <1>15 DEF l, r

\* Without AND, one satisfied word is enough.
LEMMA NoAndMatches ==
  ASSUME NEW p \in Seq(Tokens), WellFormed(p), \A i \in 1 .. Len(p) : p[i].kind # "AND", NEW d
  PROVE  Matches(d, p) <=> \E j \in WordPlaces(p) : Satisfies(d, p[j])
<1>1. DOMAIN p = 1 .. Len(p) /\ 1 \in WordPlaces(p)
  BY Alternates
<1>2. \A i, j : Together(p, i, j)
  BY <1>1 DEF Together
<1> QED  BY <1>1, <1>2 DEF Matches

\* Without AND, the first OR divides the first word from the others.
LEMMA OrDivides ==
  ASSUME NEW q \in Seq(Tokens), WellFormed(q), Splits(q, "AND") = {}, Splits(q, "OR") # {}
  PROVE  /\ WellFormed(Left(q, "OR")) /\ WellFormed(Right(q, "OR"))
         /\ \A d \in Docs :
              Matches(d, q) <=> Matches(d, Left(q, "OR")) \/ Matches(d, Right(q, "OR"))
<1> DEFINE L == Len(q)
           k == Min(Splits(q, "OR"))
           l == Left(q, "OR")
           r == Right(q, "OR")
<1>1. /\ L \in Nat /\ L % 2 = 1 /\ DOMAIN q = 1 .. L
      /\ WordPlaces(q) = {i \in 1 .. L : i % 2 = 1}
      /\ \A i \in WordPlaces(q) : q[i] \in Words
      /\ \A i \in 1 .. L : i % 2 = 0 => q[i].kind \in {"AND", "OR"} /\ i \in 2 .. L - 1
      /\ \A i \in 1 .. L : q[i].kind \in {"AND", "OR"} => i % 2 = 0
  BY Alternates
<1>2. /\ k \in 2 .. L - 1 /\ q[k].kind = "OR"
      /\ \A i \in 2 .. L - 1 : q[i].kind = "OR" => k <= i
      /\ l \in Seq(Tokens) /\ Len(l) = k - 1 /\ \A i \in 1 .. k - 1 : l[i] = q[i]
      /\ r \in Seq(Tokens) /\ Len(r) = L - k /\ \A i \in 1 .. L - k : r[i] = q[k + i]
  BY Divides
<1>3. PartsUnquoted(q)
  BY DEF WellFormed
<1>4. \A i \in 1 .. L : q[i].kind # "AND"
  BY <1>1 DEF Splits
<1> HIDE DEF L, k, l, r
<1>5. k = 2
  <2>1. 2 \in 1 .. L /\ 2 % 2 = 0
    BY <1>1, <1>2
  <2>2. 2 \in 2 .. L - 1 /\ q[2].kind = "OR"
    BY <1>1, <1>4, <2>1
  <2> QED  BY <1>1, <1>2, <2>2
<1>6. /\ DOMAIN l = 1 .. 1 /\ DOMAIN r = 1 .. L - 2 /\ Len(l) = 1 /\ Len(r) = L - 2
      /\ l[1] = q[1] /\ \A i \in 1 .. L - 2 : r[i] = q[2 + i]
  BY <1>2, <1>5
<1>7. WordPlaces(l) = {1} /\ WordPlaces(r) = {i \in 1 .. L - 2 : i % 2 = 1}
  BY <1>6 DEF WordPlaces
<1>8. \A i \in Nat : (2 + i) % 2 = 1 <=> i % 2 = 1
  OBVIOUS
<1>9. \A i \in 1 .. L - 2 : 2 + i \in 1 .. L /\ (i \in WordPlaces(r) <=> 2 + i \in WordPlaces(q))
  BY <1>1, <1>2, <1>5, <1>7, <1>8
<1>10. \A i \in WordPlaces(q) : i = 1 \/ (i - 2 \in WordPlaces(r) /\ 2 + (i - 2) = i)
  <2> SUFFICES ASSUME NEW i \in WordPlaces(q), i # 1
               PROVE  i - 2 \in WordPlaces(r) /\ 2 + (i - 2) = i
    OBVIOUS
  <2>1. i \in 1 .. L /\ i % 2 = 1 /\ i # 2
    BY <1>1
  <2>2. i - 2 \in 1 .. L - 2 /\ 2 + (i - 2) = i
    BY <1>1, <2>1
  <2> QED  BY <1>9, <2>2
<1>11. 1 \in WordPlaces(q)
  BY <1>1, <1>2
<1>12. WellFormed(l)
  <2>1. \A i \in DOMAIN l : i = 1
    BY <1>6
  <2>2. Len(l) % 2 = 1 /\ 1 % 2 = 1
    BY <1>6
  <2>3. l[1] \in Words
    BY <1>1, <1>6, <1>11
  <2>4. PartsUnquoted(l)
    BY <1>7 DEF PartsUnquoted
  <2> QED  BY <2>1, <2>2, <2>3, <2>4 DEF WellFormed
<1>13. WellFormed(r)
  <2>1. Len(r) % 2 = 1
    BY <1>1, <1>2, <1>5, <1>6
  <2>2. ASSUME NEW i \in 1 .. L - 2
        PROVE  IF i % 2 = 1 THEN r[i] \in Words ELSE r[i].kind \in {"AND", "OR"}
    <3>1. 2 + i \in 1 .. L /\ i % 2 \in {0, 1} /\ ((2 + i) % 2 = i % 2)
      BY <1>1, <1>9
    <3>2. i % 2 = 1 => 2 + i \in WordPlaces(q)
      BY <1>1, <3>1
    <3> QED  BY <1>1, <1>6, <3>1, <3>2
  <2>3. PartsUnquoted(r)
    <3> SUFFICES ASSUME NEW i \in WordPlaces(r), NEW j \in WordPlaces(r), i < j,
                        r[i].kind = "all", r[j].kind = "all"
                 PROVE  j # Len(r) /\ (j + 1 \in 1 .. L - 2 => r[j + 1].kind # "AND")
      <4>1. \A j \in WordPlaces(r) : j # Len(r) => j + 1 \in 1 .. L - 2
        BY <1>1, <1>2, <1>5, <1>6, <1>7
      <4> QED  BY <4>1 DEF PartsUnquoted
    <3>1. /\ 2 + i \in WordPlaces(q) /\ 2 + j \in WordPlaces(q) /\ 2 + i < 2 + j
          /\ q[2 + i].kind = "all" /\ q[2 + j].kind = "all"
          /\ i \in 1 .. L - 2 /\ j \in 1 .. L - 2
      BY <1>6, <1>7, <1>9
    <3>2. Together(q, 2 + i, 2 + j)
      BY <1>1, <1>4 DEF Together
    <3>3. 2 + j # L
      BY <1>3, <3>1, <3>2 DEF PartsUnquoted, L
    <3>4. ASSUME j + 1 \in 1 .. L - 2 PROVE r[j + 1].kind # "AND"
      BY <1>4, <1>6, <1>9, <3>4
    <3> QED  BY <1>1, <1>6, <3>1, <3>3, <3>4
  <2> QED  BY <1>6, <2>1, <2>2, <2>3 DEF WellFormed
<1>14. \A i \in 1 .. Len(l) : l[i].kind # "AND"
  BY <1>1, <1>2, <1>4, <1>6
<1>15. \A i \in 1 .. Len(r) : r[i].kind # "AND"
  BY <1>4, <1>6, <1>9
<1>16. ASSUME NEW d \in Docs
       PROVE  Matches(d, q) <=> Matches(d, l) \/ Matches(d, r)
  <2>1. Matches(d, q) <=> \E j \in WordPlaces(q) : Satisfies(d, q[j])
    BY <1>4, NoAndMatches DEF L
  <2>2. Matches(d, l) <=> \E j \in WordPlaces(l) : Satisfies(d, l[j])
    BY <1>2, <1>12, <1>14, NoAndMatches
  <2>3. Matches(d, r) <=> \E j \in WordPlaces(r) : Satisfies(d, r[j])
    BY <1>2, <1>13, <1>15, NoAndMatches
  <2>4. \A j \in WordPlaces(r) : 2 + j \in WordPlaces(q) /\ r[j] = q[2 + j]
    BY <1>6, <1>7, <1>9
  <2>5. \A j \in WordPlaces(q) : j = 1 \/ (j - 2 \in WordPlaces(r) /\ r[j - 2] = q[j])
    BY <1>10, <2>4
  <2> QED  BY <1>6, <1>7, <1>11, <2>1, <2>2, <2>3, <2>4, <2>5
<1> QED  BY <1>12, <1>13, <1>16 DEF l, r

\* Without AND and OR, the query is a word.
LEMMA LoneWord ==
  ASSUME NEW q \in Seq(Tokens), WellFormed(q), Splits(q, "AND") = {}, Splits(q, "OR") = {}
  PROVE  /\ Len(q) = 1 /\ q[1] \in Words
         /\ \A d \in Docs : Matches(d, q) <=> Satisfies(d, q[1])
<1>1. /\ Len(q) \in Nat /\ Len(q) % 2 = 1 /\ Len(q) >= 1
      /\ WordPlaces(q) = {i \in 1 .. Len(q) : i % 2 = 1} /\ 1 \in WordPlaces(q)
      /\ \A i \in WordPlaces(q) : q[i] \in Words
      /\ \A i \in 1 .. Len(q) : i % 2 = 0 => q[i].kind \in {"AND", "OR"} /\ i \in 2 .. Len(q) - 1
      /\ \A i \in 1 .. Len(q) : q[i].kind \in {"AND", "OR"} => i % 2 = 0
  BY Alternates
<1>2. ~(2 <= Len(q))
  <2> SUFFICES ASSUME 2 <= Len(q) PROVE FALSE
    OBVIOUS
  <2>1. 2 % 2 = 0
    OBVIOUS
  <2>2. q[2].kind \in {"AND", "OR"} /\ 2 \in 2 .. Len(q) - 1
    BY <1>1, <2>1
  <2> QED  BY <2>2 DEF Splits
<1>3. Len(q) = 1
  <2>1. Len(q) \in Nat /\ Len(q) >= 1
    BY <1>1
  <2>2. \A n \in Nat : n >= 1 /\ ~(2 <= n) => n = 1
    OBVIOUS
  <2> QED  BY <1>2, <2>1, <2>2
<1>4. 1 % 2 = 1
  OBVIOUS
<1>5. WordPlaces(q) = {1}
  BY <1>1, <1>3, <1>4
<1>6. \A i \in 1 .. Len(q) : q[i].kind # "AND"
  BY <1>1 DEF Splits
<1>7. \A d \in Docs : Matches(d, q) <=> \E j \in WordPlaces(q) : Satisfies(d, q[j])
  BY <1>6, NoAndMatches
<1> QED  BY <1>1, <1>3, <1>5, <1>7

\* A word is found in just the documents of an unmerged segment that satisfy it.
LEMMA WordExact ==
  ASSUME NEW seg \in Sound, 0 \in DOMAIN seg.docs, NEW w \in Words
  PROVE  EvalWord(seg, w) = {n \in DOMAIN seg.docs : Satisfies(seg.docs[n], w)}
<1>1. w.kind \in {"any", "field", "all"} /\ w.terms \subseteq Terms
  BY TokenKinds
<1>2. \A t \in w.terms : \A n : n \in seg.postings[t] <=>
                            n \in DOMAIN seg.docs /\ t \in TermsOf[seg.docs[n]]
  <2>1. \A t \in w.terms : seg.postings[t] = Holding(seg, t)
    BY <1>1 DEF Sound
  <2> QED  BY <2>1 DEF Holding
<1> DEFINE lists == {seg.postings[t] : t \in w.terms}
<1>3. \A n : n \in UNION lists <=> \E t \in w.terms : n \in seg.postings[t]
  OBVIOUS
<1>4. \A n : (\A l \in lists : n \in l) <=> \A t \in w.terms : n \in seg.postings[t]
  OBVIOUS
<1>5. EvalWord(seg, w) = IF w.kind = "all" THEN {n \in UNION lists : \A l \in lists : n \in l}
                         ELSE UNION lists
  BY DEF EvalWord
<1> HIDE DEF lists
<1>6. CASE w.kind # "all"
  <2>1. \A n \in DOMAIN seg.docs : Satisfies(seg.docs[n], w) <=>
                                     \E t \in w.terms : t \in TermsOf[seg.docs[n]]
    BY <1>6 DEF Satisfies
  <2> QED  BY <1>2, <1>3, <1>5, <1>6, <2>1
<1>7. CASE w.kind = "all"
  <2>1. \A n \in DOMAIN seg.docs :
          Satisfies(seg.docs[n], w) <=> /\ \E t \in w.terms : TRUE
                                        /\ \A t \in w.terms : t \in TermsOf[seg.docs[n]]
    BY <1>7 DEF Satisfies
  <2> QED  BY <1>2, <1>3, <1>4, <1>5, <1>7, <2>1
<1> QED  BY <1>1, <1>6, <1>7

\* The shape of a query of words, AND and OR.
LEMMA PlainShapes ==
  ASSUME NEW p \in Seq(Tokens), WellFormed(p)
  PROVE  LET s == Parse(p)
         IN  \/ /\ s.node = "And" /\ Splits(p, "AND") # {}
                /\ s.left = Left(p, "AND") /\ s.right = Right(p, "AND")
             \/ /\ s.node = "Or" /\ Splits(p, "AND") = {} /\ Splits(p, "OR") # {}
                /\ s.left = Left(p, "OR") /\ s.right = Right(p, "OR")
             \/ s.node = "Word" /\ Splits(p, "AND") = {} /\ Splits(p, "OR") = {}
<1>1. p # <<>> /\ ~Quoted(p)
  BY NotQuoted
<1>2. CASE Splits(p, "AND") # {}
  BY <1>1, <1>2 DEF Parse
<1>3. CASE Splits(p, "AND") = {} /\ Splits(p, "OR") # {}
  BY <1>1, <1>3 DEF Parse
<1>4. CASE Splits(p, "AND") = {} /\ Splits(p, "OR") = {}
  <2>1. Len(p) = 1 /\ p[1] \in Words
    BY <1>4, LoneWord
  <2>2. Splits(p, "NOT") = {} /\ IsWord(p)
    BY <2>1 DEF Splits, IsWord
  <2> QED  BY <1>1, <1>4, <2>2 DEF Parse
<1> QED  BY <1>2, <1>3, <1>4

\* The documents of a segment that a query is about.
Answer(seg, p) == {n \in DOMAIN seg.docs : Matches(seg.docs[n], p)}

\* One step of the recursion: exact for the sides, exact for the query.
LEMMA ResultExact ==
  ASSUME NEW seg \in Sound, 0 \in DOMAIN seg.docs, NEW g, NEW p \in Seq(Tokens), WellFormed(p),
         \A s \in Seq(Tokens) : Len(s) < Len(p) /\ WellFormed(s) => g[s] = Answer(seg, s)
  PROVE  Result(seg, g, p) = Answer(seg, p)
<1> DEFINE s == Parse(p)
<1>1. \A n \in DOMAIN seg.docs : seg.docs[n] \in Docs
  BY SoundFacts
<1>2. CASE s.node = "And" /\ Splits(p, "AND") # {}
           /\ s.left = Left(p, "AND") /\ s.right = Right(p, "AND")
  <2> DEFINE l == Left(p, "AND")
             r == Right(p, "AND")
  <2>1. l \in Seq(Tokens) /\ r \in Seq(Tokens) /\ Len(l) < Len(p) /\ Len(r) < Len(p)
    BY <1>2, Divides
  <2>2. WellFormed(l) /\ WellFormed(r)
        /\ \A d \in Docs : Matches(d, p) <=> Matches(d, l) /\ Matches(d, r)
    BY <1>2, AndDivides
  <2>3. Result(seg, g, p) = g[l] \cap g[r]
    BY <1>2 DEF Result
  <2> HIDE DEF l, r
  <2>4. g[l] = Answer(seg, l) /\ g[r] = Answer(seg, r)
    BY <2>1, <2>2
  <2> QED  BY <1>1, <2>2, <2>3, <2>4 DEF Answer
<1>3. CASE s.node = "Or" /\ Splits(p, "AND") = {} /\ Splits(p, "OR") # {}
           /\ s.left = Left(p, "OR") /\ s.right = Right(p, "OR")
  <2> DEFINE l == Left(p, "OR")
             r == Right(p, "OR")
  <2>1. l \in Seq(Tokens) /\ r \in Seq(Tokens) /\ Len(l) < Len(p) /\ Len(r) < Len(p)
    BY <1>3, Divides
  <2>2. WellFormed(l) /\ WellFormed(r)
        /\ \A d \in Docs : Matches(d, p) <=> Matches(d, l) \/ Matches(d, r)
    BY <1>3, OrDivides
  <2>3. Result(seg, g, p) = g[l] \cup g[r]
    BY <1>3 DEF Result
  <2> HIDE DEF l, r
  <2>4. g[l] = Answer(seg, l) /\ g[r] = Answer(seg, r)
    BY <2>1, <2>2
  <2> QED  BY <1>1, <2>2, <2>3, <2>4 DEF Answer
<1>4. CASE s.node = "Word" /\ Splits(p, "AND") = {} /\ Splits(p, "OR") = {}
  <2>1. p[1] \in Words /\ \A d \in Docs : Matches(d, p) <=> Satisfies(d, p[1])
    BY <1>4, LoneWord
  <2>2. Len(p) = 1 /\ Last(p) = p[1]
    BY <1>4, LoneWord DEF Last
  <2>3. Result(seg, g, p) = EvalWord(seg, p[1])
    BY <1>4, <2>2 DEF Result
  <2> QED  BY <1>1, <2>1, <2>3, WordExact DEF Answer
<1> QED  BY <1>2, <1>3, <1>4, PlainShapes

\* An unmerged segment answers a query of words, AND and OR exactly.
LEMMA PlainExact ==
  ASSUME NEW seg \in Sound, 0 \in DOMAIN seg.docs, NEW q \in Seq(Tokens), WellFormed(q)
  PROVE  Eval(seg, q) = Answer(seg, q)
<1>1. PICK f : EvalRun(f, seg, q)
  BY EvalSteps
<1> DEFINE N == Len(q)
           Exact == {n \in 0 .. N : \A p \in Seq(Tokens) :
                       Len(p) <= n /\ WellFormed(p) => f[n][p] = Answer(seg, p)}
<1>2. N \in Nat
  OBVIOUS
<1>3. 0 \in Exact
  <2>1. \A p \in Seq(Tokens) : WellFormed(p) => ~(Len(p) <= 0)
    BY Alternates
  <2> QED  BY <1>2, <2>1
<1>4. ASSUME NEW n \in 0 .. N, n < N, n \in Exact
      PROVE  n + 1 \in Exact
  <2>1. n + 1 \in 1 .. N /\ (n + 1) - 1 = n
    BY <1>2, <1>4
  <2>2. ASSUME NEW p \in Seq(Tokens), Len(p) <= n + 1, WellFormed(p)
        PROVE  f[n + 1][p] = Answer(seg, p)
    <3>1. f[n + 1][p] = Result(seg, f[n], p)
      BY <1>1, <2>1 DEF EvalRun
    <3>2. \A s \in Seq(Tokens) : Len(s) < Len(p) /\ WellFormed(s) => f[n][s] = Answer(seg, s)
      <4>1. \A s \in Seq(Tokens) : Len(s) < Len(p) => Len(s) <= n
        BY <1>2, <2>2
      <4> QED  BY <1>4, <4>1
    <3> QED  BY <2>2, <3>1, <3>2, ResultExact
  <2> QED  BY <2>1, <2>2
<1> HIDE DEF Exact
<1>5. \A n \in 0 .. N : n \in Exact
  <2>1. \A n \in 0 .. N : n < N /\ n \in Exact => n + 1 \in Exact
    BY <1>4
  <2> HIDE DEF N
  <2> QED  BY <1>2, <1>3, <2>1, InductionUpTo
<1>6. f[N][q] = Answer(seg, q)
  BY <1>2, <1>5 DEF Exact
<1> QED  BY <1>1, <1>6 DEF EvalRun

\* A segment that a flush made answers every query of words, AND and OR with
\* exactly the documents that satisfy it (parser.rs, parse; search_executor.rs,
\* execute_query).
THEOREM FlushedExactHolds == IndexSpec => []FlushedExact
<1>1. ASSUME IndexInv PROVE FlushedExact
  <2> SUFFICES ASSUME NEW seg \in Range(segments), 0 \in DOMAIN seg.docs, NEW q \in Plain
               PROVE  Eval(seg, q) = Answer(seg, q)
    BY DEF FlushedExact, Answer
  <2>1. seg \in Sound
    BY <1>1, Stored1 DEF Range
  <2>2. q \in Seq(Tokens) /\ WellFormed(q)
    BY SearchConstants DEF Plain
  <2> QED  BY <2>1, <2>2, PlainExact
<1> QED  BY <1>1, IndexInvariant, PTL
=============================================================================
