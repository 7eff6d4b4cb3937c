--------------------------- MODULE NodeFileProofs ---------------------------
(***************************************************************************)
(* Proofs about what Node keeps in documents.jsonl: the type invariant,    *)
(* for any number of workers, and, when one request is handled at a time,  *)
(* that the file says what the replies promised.                           *)
(***************************************************************************)
EXTENDS NodeProofs, Recursion

-----------------------------------------------------------------------------
(* Lists.                                                                   *)

\* A run of the recursion of Only over s, whose lines are in D.
OnlyRun(k, D, s, S) ==
  /\ k[0] = <<>> /\ k[Len(s)] = Only(s, S)
  /\ \A n \in 0..Len(s) : k[n] \in Seq(D)
  /\ \A n \in 0..Len(s) : n < Len(s) =>
       /\ s[n + 1] \in D
       /\ k[n + 1] = IF s[n + 1] \in S THEN Append(k[n], s[n + 1]) ELSE k[n]

LEMMA OnlySteps ==
  ASSUME NEW D, NEW s \in Seq(D), NEW S
  PROVE  \E k : OnlyRun(k, D, s, S)
<1> DEFINE N == Len(s)
           V == Seq(D)
           Next1(n, l) == IF s[n] \in S THEN Append(l, s[n]) ELSE l
           base == <<>>
           step == [n \in 1..N |-> [l \in V |-> Next1(n, l)]]
           Good(f) == f = [n \in 0..N |-> IF n = 0 THEN base ELSE Next1(n, f[n - 1])]
           k == CHOOSE f : Good(f)
<1>1. N \in Nat /\ base \in V /\ \A n \in 1..N, l \in V : Next1(n, l) \in V
  OBVIOUS
<1>4. Only(s, S) = k[N]
  BY DEF Only
<1>s. step \in [1..N -> [V -> V]] /\ \A n \in 1..N, l \in V : step[n][l] = Next1(n, l)
  <2> HIDE DEF V, Next1, N
  <2> QED  BY <1>1
<1> HIDE DEF V, Next1, N, base
<1>2. \E f : Good(f)
  <2>2. PICK f \in [0..N -> V] :
          f[0] = base /\ \A n \in 1..N : f[n] = step[n][f[n - 1]]
    <3> HIDE DEF step
    <3>1. IsRecursion(N, V, base, step)
      BY <1>1, <1>s DEF IsRecursion
    <3>2. PICK f : SolvesRecursion(f, N, V, base, step)
      BY <3>1, RecursionSolved
    <3> QED  BY <3>2 DEF SolvesRecursion
  <2>3. \A n \in 1..N : f[n - 1] \in V
    BY <1>1, <2>2
  <2>4. \A n \in 1..N : f[n] = Next1(n, f[n - 1])
    <3> HIDE DEF step
    <3> QED BY <2>2, <2>3, <1>s
  <2>5. Good(f)
    <3> HIDE DEF step
    <3> QED  BY <1>1, <2>2, <2>4
  <2> HIDE DEF Good
  <2> QED  BY <2>5
<1>3. Good(k)
  <2> HIDE DEF Good
  <2> QED  BY <1>2
<1> HIDE DEF k
<1>5. k[0] = base /\ \A n \in 1..N : k[n] = Next1(n, k[n - 1])
  BY <1>1, <1>3
<1>6. \A n \in 0..N : k[n] \in V
  <2> DEFINE T == {n \in 0..N : k[n] \in V}
  <2>1. 0 \in T
    BY <1>1, <1>5
  <2>2. \A n \in 0..N : n < N /\ n \in T => n + 1 \in T
    <3> SUFFICES ASSUME NEW n \in 0..N, n < N, k[n] \in V
                 PROVE  k[n + 1] \in V
      BY <1>1
    <3>1. n + 1 \in 1..N /\ (n + 1) - 1 = n
      BY <1>1
    <3>2. k[n + 1] = Next1(n + 1, k[n])
      BY <1>5, <3>1
    <3> QED  BY <1>1, <3>1, <3>2
  <2> HIDE DEF T
  <2>3. \A n \in 0..N : n \in T
    BY <1>1, <2>1, <2>2, InductionUpTo
  <2> QED  BY <2>3 DEF T
<1>7. \A n \in 0..N : n < N =>
        s[n + 1] \in D /\ n + 1 \in 1..N /\ (n + 1) - 1 = n
  BY DEF N
<1>8. \A n \in 0..N : n < N => k[n + 1] = Next1(n + 1, k[n])
  BY <1>5, <1>7
<1> QED  BY <1>4, <1>5, <1>6, <1>7, <1>8 DEF OnlyRun, N, V, Next1, base

\* What Only yields are lines of the list, all of them among the given ones.
LEMMA OnlyType ==
  ASSUME NEW D, NEW s \in Seq(D), NEW S
  PROVE  Only(s, S) \in Seq(D \cap S)
<1>1. PICK k : OnlyRun(k, D, s, S)
  BY OnlySteps
<1> USE <1>1 DEF OnlyRun
<1>N. Len(s) \in Nat
  OBVIOUS
<1> DEFINE T == {n \in 0..Len(s) : k[n] \in Seq(D \cap S)}
<1>2. 0 \in T
  BY <1>1
<1>3. \A n \in 0..Len(s) : n < Len(s) /\ n \in T => n + 1 \in T
  <2> SUFFICES ASSUME NEW n \in 0..Len(s), n < Len(s), k[n] \in Seq(D \cap S)
               PROVE  k[n + 1] \in Seq(D \cap S)
    OBVIOUS
  <2>1. /\ s[n + 1] \in D
        /\ k[n + 1] = IF s[n + 1] \in S THEN Append(k[n], s[n + 1]) ELSE k[n]
    OBVIOUS
  <2> HIDE DEF OnlyRun
  <2> QED  BY <2>1
<1>4. \A n \in 0..Len(s) : n \in T
  <2> HIDE DEF T
  <2> QED  BY <1>2, <1>3, InductionUpTo, <1>N
<1>5. Len(s) \in T
  <2> HIDE DEF T
  <2> QED  BY <1>4, <1>N
<1> QED  BY <1>5

\* A line of the result is a line of the list, and the other way round.
LEMMA OnlyLines ==
  ASSUME NEW D, NEW s \in Seq(D), NEW S
  PROVE  /\ \A i \in 1..Len(Only(s, S)) : \E j \in 1..Len(s) : Only(s, S)[i] = s[j]
         /\ \A j \in 1..Len(s) : s[j] \in S => \E i \in 1..Len(Only(s, S)) : Only(s, S)[i] = s[j]
<1>1. PICK k : OnlyRun(k, D, s, S)
  BY OnlySteps
<1> USE <1>1 DEF OnlyRun
<1>N. Len(s) \in Nat
  OBVIOUS
<1> DEFINE From(n) == \A i \in 1..Len(k[n]) : \E j \in 1..n : k[n][i] = s[j]
           To(n)   == \A j \in 1..n : s[j] \in S => \E i \in 1..Len(k[n]) : k[n][i] = s[j]
           T == {n \in 0..Len(s) : From(n) /\ To(n)}
<1>2. 0 \in T
  BY <1>1
<1>3. ASSUME NEW n \in 0..Len(s), n < Len(s), From(n), To(n)
      PROVE  From(n + 1) /\ To(n + 1)
  <2>1. k[n + 1] = IF s[n + 1] \in S THEN Append(k[n], s[n + 1]) ELSE k[n]
    BY <1>3
  <2>2. k[n] \in Seq(D) /\ s[n + 1] \in D
    BY <1>3
  <2> HIDE <1>1 DEF OnlyRun
  <2>3. CASE s[n + 1] \notin S
    <3>1. k[n + 1] = k[n]
      BY <2>1, <2>3
    <3>2. From(n + 1)
      <4> SUFFICES ASSUME NEW i \in 1..Len(k[n])
                   PROVE  \E j \in 1..(n + 1) : k[n][i] = s[j]
        BY <3>1
      <4>1. PICK j \in 1..n : k[n][i] = s[j]
        BY <1>3
      <4> QED  BY <4>1
    <3>3. To(n + 1)
      <4> SUFFICES ASSUME NEW j \in 1..(n + 1), s[j] \in S
                   PROVE  \E i \in 1..Len(k[n]) : k[n][i] = s[j]
        BY <3>1
      <4>1. j \in 1..n
        BY <2>3
      <4> QED  BY <1>3, <4>1
    <3> QED  BY <3>2, <3>3
  <2>4. CASE s[n + 1] \in S
    <3>1. k[n + 1] = Append(k[n], s[n + 1])
      BY <2>1, <2>4
    <3>2. /\ Len(k[n + 1]) = Len(k[n]) + 1 /\ Len(k[n]) \in Nat
          /\ k[n + 1][Len(k[n]) + 1] = s[n + 1]
          /\ \A i \in 1..Len(k[n]) : k[n + 1][i] = k[n][i]
      BY <2>2, <3>1
    <3>3. From(n + 1)
      <4> SUFFICES ASSUME NEW i \in 1..Len(k[n + 1])
                   PROVE  \E j \in 1..(n + 1) : k[n + 1][i] = s[j]
        OBVIOUS
      <4>1. CASE i = Len(k[n]) + 1
        BY <3>2, <4>1
      <4>2. CASE i \in 1..Len(k[n])
        <5>1. PICK j \in 1..n : k[n][i] = s[j]
          BY <1>3, <4>2
        <5> QED  BY <3>2, <4>2, <5>1
      <4> QED  BY <3>2, <4>1, <4>2
    <3>4. To(n + 1)
      <4> SUFFICES ASSUME NEW j \in 1..(n + 1), s[j] \in S
                   PROVE  \E i \in 1..Len(k[n + 1]) : k[n + 1][i] = s[j]
        OBVIOUS
      <4>1. CASE j = n + 1
        BY <3>2, <4>1
      <4>2. CASE j \in 1..n
        <5>1. PICK i \in 1..Len(k[n]) : k[n][i] = s[j]
          BY <1>3, <4>2
        <5> QED  BY <3>2, <5>1
      <4> QED  BY <4>1, <4>2
    <3> QED  BY <3>3, <3>4
  <2> QED  BY <2>3, <2>4
<1>4. \A n \in 0..Len(s) : n \in T
  <2>1. \A n \in 0..Len(s) : n < Len(s) /\ n \in T => n + 1 \in T
    BY <1>3
  <2> HIDE DEF T
  <2> QED  BY <1>2, <2>1, InductionUpTo, <1>N
<1>5. Len(s) \in 0..Len(s)
  BY <1>N
<1>6. Len(s) \in T
  <2> HIDE DEF T
  <2> QED  BY <1>4, <1>5
<1>7. From(Len(s)) /\ To(Len(s))
  <2> HIDE <1>1 DEF From, To
  <2> QED  BY <1>6
<1> QED  BY <1>7

\* A list whose lines are all among the given ones stays as it is.
LEMMA OnlyAll ==
  ASSUME NEW D, NEW s \in Seq(D), NEW S, D \subseteq S
  PROVE  Only(s, S) = s
<1>1. PICK k : OnlyRun(k, D, s, S)
  BY OnlySteps
<1> USE <1>1 DEF OnlyRun
<1>N. Len(s) \in Nat
  OBVIOUS
<1> DEFINE T == {n \in 0..Len(s) : Len(k[n]) = n /\ \A i \in 1..n : k[n][i] = s[i]}
<1>2. 0 \in T
  BY <1>1
<1>3. \A n \in 0..Len(s) : n < Len(s) /\ n \in T => n + 1 \in T
  <2> SUFFICES ASSUME NEW n \in 0..Len(s), n < Len(s),
                      Len(k[n]) = n, \A i \in 1..n : k[n][i] = s[i]
               PROVE  Len(k[n + 1]) = n + 1 /\ \A i \in 1..(n + 1) : k[n + 1][i] = s[i]
    OBVIOUS
  <2>1. k[n + 1] = Append(k[n], s[n + 1]) /\ k[n] \in Seq(D) /\ s[n + 1] \in D
    OBVIOUS
  <2> HIDE <1>1 DEF OnlyRun
  <2> QED  BY <2>1
<1>4. \A n \in 0..Len(s) : n \in T
  <2> HIDE DEF T
  <2> QED  BY <1>2, <1>3, InductionUpTo, <1>N
<1>5. k[Len(s)] \in Seq(D) /\ Len(k[Len(s)]) = Len(s) /\ \A i \in 1..Len(s) : k[Len(s)][i] = s[i]
  BY <1>4
<1> QED  BY <1>1, <1>5

\* No line twice for an id.
Apart(list) ==
  \A i, j \in 1..Len(list) : KeyOf[list[i]] = KeyOf[list[j]] => i = j

LEMMA OnlyApart ==
  ASSUME NEW D, NEW s \in Seq(D), NEW S, Apart(s)
  PROVE  Apart(Only(s, S))
<1>1. PICK k : OnlyRun(k, D, s, S)
  BY OnlySteps
<1> USE <1>1 DEF OnlyRun
<1>N. Len(s) \in Nat
  OBVIOUS
<1> DEFINE From(n) == \A i \in 1..Len(k[n]) : \E j \in 1..n : k[n][i] = s[j]
           T == {n \in 0..Len(s) : From(n) /\ Apart(k[n])}
<1>2. 0 \in T
  BY DEF Apart
<1>3. ASSUME NEW n \in 0..Len(s), n < Len(s), From(n), Apart(k[n])
      PROVE  From(n + 1) /\ Apart(k[n + 1])
  <2>1. /\ k[n] \in Seq(D) /\ s[n + 1] \in D
        /\ k[n + 1] = IF s[n + 1] \in S THEN Append(k[n], s[n + 1]) ELSE k[n]
    BY <1>3
  <2> HIDE <1>1 DEF OnlyRun
  <2>2. CASE s[n + 1] \notin S
    <3>1. k[n + 1] = k[n]
      BY <2>1, <2>2
    <3>2. From(n + 1)
      <4> SUFFICES ASSUME NEW i \in 1..Len(k[n])
                   PROVE  \E j \in 1..(n + 1) : k[n][i] = s[j]
        BY <3>1
      <4>1. PICK j \in 1..n : k[n][i] = s[j]
        BY <1>3
      <4> QED  BY <4>1
    <3> QED  BY <1>3, <3>1, <3>2
  <2>3. CASE s[n + 1] \in S
    <3>1. /\ Len(k[n + 1]) = Len(k[n]) + 1 /\ Len(k[n]) \in Nat
          /\ k[n + 1][Len(k[n]) + 1] = s[n + 1]
          /\ \A i \in 1..Len(k[n]) : k[n + 1][i] = k[n][i]
      BY <2>1, <2>3
    <3>2. \A i \in 1..Len(k[n]) : KeyOf[k[n][i]] # KeyOf[s[n + 1]]
      <4> SUFFICES ASSUME NEW i \in 1..Len(k[n])
                   PROVE  KeyOf[k[n][i]] # KeyOf[s[n + 1]]
        OBVIOUS
      <4>1. PICK j \in 1..n : k[n][i] = s[j]
        BY <1>3
      <4>2. j \in 1..Len(s) /\ n + 1 \in 1..Len(s) /\ j # n + 1
        BY <1>3, <1>N
      <4> QED  BY <4>1, <4>2 DEF Apart
    <3>3. From(n + 1)
      <4> SUFFICES ASSUME NEW i \in 1..Len(k[n + 1])
                   PROVE  \E j \in 1..(n + 1) : k[n + 1][i] = s[j]
        OBVIOUS
      <4>1. CASE i = Len(k[n]) + 1
        BY <3>1, <4>1
      <4>2. CASE i \in 1..Len(k[n])
        <5>1. PICK j \in 1..n : k[n][i] = s[j]
          BY <1>3, <4>2
        <5> QED  BY <3>1, <4>2, <5>1
      <4> QED  BY <3>1, <4>1, <4>2
    <3>4. Apart(k[n + 1])
      <4> SUFFICES ASSUME NEW i \in 1..Len(k[n + 1]), NEW j \in 1..Len(k[n + 1]),
                          KeyOf[k[n + 1][i]] = KeyOf[k[n + 1][j]]
                   PROVE  i = j
        BY DEF Apart
      <4>1. CASE i \in 1..Len(k[n]) /\ j \in 1..Len(k[n])
        BY <1>3, <3>1, <4>1 DEF Apart
      <4>2. CASE i = Len(k[n]) + 1 \/ j = Len(k[n]) + 1
        <5>1. \A m \in 1..Len(k[n]) : KeyOf[k[n + 1][m]] # KeyOf[s[n + 1]]
          BY <3>1, <3>2
        <5>2. CASE i # j
          <6>1. \/ i \in 1..Len(k[n]) /\ j = Len(k[n]) + 1
                \/ j \in 1..Len(k[n]) /\ i = Len(k[n]) + 1
            BY <3>1, <4>2, <5>2
          <6> QED  BY <3>1, <5>1, <6>1
        <5> QED  BY <5>2
      <4> QED  BY <3>1, <4>1, <4>2
    <3> QED  BY <3>3, <3>4
  <2> QED  BY <2>2, <2>3
<1>4. \A n \in 0..Len(s) : n \in T
  <2>1. \A n \in 0..Len(s) : n < Len(s) /\ n \in T => n + 1 \in T
    BY <1>3
  <2> HIDE DEF T
  <2> QED  BY <1>2, <2>1, InductionUpTo, <1>N
<1>5. Len(s) \in T
  <2> HIDE DEF T
  <2> QED  BY <1>4, <1>N
<1> QED  BY <1>5

\* One line is among the given ones: it is the result.
LEMMA OnlyOne ==
  ASSUME NEW D, NEW s \in Seq(D), NEW S, NEW p \in 1..Len(s), s[p] \in S,
         \A j \in 1..Len(s) : s[j] \in S => j = p
  PROVE  Only(s, S) = <<s[p]>>
<1>1. PICK k : OnlyRun(k, D, s, S)
  BY OnlySteps
<1> USE <1>1 DEF OnlyRun
<1>N. Len(s) \in Nat
  OBVIOUS
<1> DEFINE T == {n \in 0..Len(s) : k[n] = IF n < p THEN <<>> ELSE <<s[p]>>}
<1>2. 0 \in T
  OBVIOUS
<1>3. ASSUME NEW n \in 0..Len(s), n < Len(s), n \in T
      PROVE  n + 1 \in T
  <2>1. /\ n + 1 \in 0..Len(s)
        /\ k[n + 1] = IF s[n + 1] \in S THEN Append(k[n], s[n + 1]) ELSE k[n]
        /\ k[n] = IF n < p THEN <<>> ELSE <<s[p]>>
    BY <1>3
  <2> HIDE <1>1 DEF OnlyRun
  <2>2. CASE n + 1 = p
    <3>1. k[n] = <<>> /\ k[n + 1] = Append(<<>>, s[p])
      <4>1. n < p /\ s[n + 1] = s[p]
        BY <2>2
      <4> QED  BY <2>1, <4>1
    <3>2. k[n + 1] = <<s[p]>>
      BY <3>1
    <3> QED  BY <2>1, <2>2, <3>2
  <2>3. CASE n + 1 # p
    <3>1. s[n + 1] \notin S
      BY <1>3, <2>3
    <3> QED  BY <2>1, <2>3, <3>1
  <2> QED  BY <2>2, <2>3
<1>4. \A n \in 0..Len(s) : n \in T
  <2>1. \A n \in 0..Len(s) : n < Len(s) /\ n \in T => n + 1 \in T
    BY <1>3
  <2> HIDE DEF T
  <2> QED  BY <1>2, <2>1, InductionUpTo, <1>N
<1>5. Len(s) \in T
  <2> HIDE DEF T
  <2> QED  BY <1>4, <1>N
<1> QED  BY <1>5

\* No line is among the given ones: the result is empty.
LEMMA OnlyNone ==
  ASSUME NEW D, NEW s \in Seq(D), NEW S, \A j \in 1..Len(s) : s[j] \notin S
  PROVE  Only(s, S) = <<>>
<1>1. Only(s, S) \in Seq(D \cap S)
  BY OnlyType
<1>2. \A i \in 1..Len(Only(s, S)) : \E j \in 1..Len(s) : Only(s, S)[i] = s[j]
  BY OnlyLines
<1> DEFINE r == Only(s, S)
<1> HIDE DEF r
<1>3. r \in Seq(D \cap S) /\ \A i \in 1..Len(r) : \E j \in 1..Len(s) : r[i] = s[j]
  BY <1>1, <1>2 DEF r
<1>4. Len(r) = 0
  <2> SUFFICES ASSUME 1 \in 1..Len(r) PROVE FALSE
    BY <1>3
  <2>1. r[1] \in S
    BY <1>3
  <2> QED  BY <1>3, <2>1
<1> QED  BY <1>1, <1>4 DEF r

-----------------------------------------------------------------------------
(* Files.                                                                   *)

FileLines == Docs \cup {Hole}

LEMMA ParsedType ==
  ASSUME NEW file \in Seq(FileLines) \cup {NoFile}
  PROVE  Parsed(file) \in Seq(Docs)
<1>1. CASE file = NoFile
  BY <1>1 DEF Parsed
<1>2. CASE file # NoFile
  <2> DEFINE parses(i) == file[i] # Hole /\ (i > 1 => file[i - 1] # Hole)
             list == [i \in DOMAIN file |-> IF parses(i) THEN file[i] ELSE Hole]
  <2>1. file \in Seq(FileLines)
    BY <1>2
  <2>2. list \in Seq(FileLines)
    BY <2>1 DEF FileLines
  <2>3. Parsed(file) = Only(list, Docs)
    BY <1>2 DEF Parsed
  <2> HIDE DEF list
  <2>4. Only(list, Docs) \in Seq(FileLines \cap Docs)
    BY <2>2, OnlyType
  <2>5. FileLines \cap Docs = Docs
    BY DEF FileLines
  <2> QED  BY <2>3, <2>4, <2>5
<1> QED  BY <1>1, <1>2

\* A file without holes parses line for line.
LEMMA ParsedWhole ==
  ASSUME NEW file \in Seq(Docs)
  PROVE  file # NoFile /\ Parsed(file) = file
<1>1. file \in Seq(FileLines)
  BY DEF FileLines
<1>2. file # NoFile
  BY <1>1, FileAssumption DEF FileLines
<1> DEFINE parses(i) == file[i] # Hole /\ (i > 1 => file[i - 1] # Hole)
           list == [i \in DOMAIN file |-> IF parses(i) THEN file[i] ELSE Hole]
<1>3. Parsed(file) = Only(list, Docs)
  BY <1>2 DEF Parsed
<1>4. list = file
  <2>1. \A i \in DOMAIN file : parses(i)
    BY FileAssumption
  <2> QED  BY <2>1
<1>5. Only(file, Docs) = file
  BY OnlyAll
<1> QED  BY <1>2, <1>3, <1>4, <1>5

LEMMA WithLineType ==
  ASSUME NEW file \in Seq(FileLines), NEW i \in Nat \ {0}, NEW line \in FileLines
  PROVE  WithLine(file, i, line) \in Seq(FileLines) /\ WithLine(file, i, line) # NoFile
<1>1. WithLine(file, i, line) \in Seq(FileLines)
  BY DEF WithLine, FileLines
<1> QED  BY <1>1, FileAssumption DEF FileLines

\* A line written at the end of the file is appended.
LEMMA WithLineEnd ==
  ASSUME NEW file \in Seq(Docs), NEW line \in Docs
  PROVE  WithLine(file, Len(file) + 1, line) = Append(file, line)
<1> DEFINE l == Len(file)
           g == Append(file, line)
           h == WithLine(file, l + 1, line)
<1>1. l \in Nat /\ g \in Seq(Docs) /\ Len(g) = l + 1
  OBVIOUS
<1>2. \A n \in 1..(l + 1) : g[n] = IF n = l + 1 THEN line ELSE file[n]
  OBVIOUS
<1>3. h = [n \in 1..(l + 1) |-> IF n = l + 1 THEN line ELSE IF n <= l THEN file[n] ELSE Hole]
  BY <1>1 DEF WithLine
<1>4. \A n \in 1..(l + 1) : h[n] = g[n]
  <2> HIDE DEF h, g
  <2> QED  BY <1>1, <1>2, <1>3
<1>5. h \in Seq(Docs) /\ Len(h) = l + 1
  <2> HIDE DEF h, l
  <2>1. \A n \in 1..(l + 1) : h[n] \in Docs
    BY <1>1, <1>4
  <2> QED  BY <1>1, <1>3, <2>1
<1> HIDE DEF h, g, l
<1>6. h = g
  BY <1>1, <1>4, <1>5
<1> QED  BY <1>6 DEF h, g, l

\* What a restart loads are documents.
LEMMA LoadedType ==
  ASSUME NEW c, disk[c].docs \in Seq(FileLines) \cup {NoFile}, disk[c].segments \subseteq Docs
  PROVE  Loaded(c).buffer \subseteq Docs /\ Loaded(c).segments \subseteq Docs
<1> DEFINE docs == Parsed(disk[c].docs)
           N == Len(docs)
           V == [buffer : SUBSET Docs, segments : SUBSET Docs]
           base == [buffer |-> {}, segments |-> disk[c].segments]
           step == [n \in 1..N |-> [s \in V |-> Ingest(s, docs[n])]]
           Good(f) == f = [n \in 0..N |-> IF n = 0 THEN base ELSE Ingest(f[n - 1], docs[n])]
           after == CHOOSE f : Good(f)
<1>1. Loaded(c) = after[N]
  BY DEF Loaded
<1>2. docs \in Seq(Docs)
  BY ParsedType
<1>3. N \in Nat /\ \A n \in 1..N : docs[n] \in Docs
  BY <1>2
<1>4. base \in V
  OBVIOUS
<1>5. ASSUME NEW s \in V, NEW d \in Docs PROVE Ingest(s, d) \in V
  BY <1>5 DEF Ingest
<1> HIDE DEF docs, N, V, base
<1>6. step \in [1..N -> [V -> V]] /\ \A n \in 1..N, s \in V : step[n][s] = Ingest(s, docs[n])
  BY <1>3, <1>5
<1> HIDE DEF step
<1>7. \E f : Good(f)
  <2>1. IsRecursion(N, V, base, step)
    BY <1>3, <1>4, <1>6 DEF IsRecursion
  <2>2. PICK f : SolvesRecursion(f, N, V, base, step)
    BY <2>1, RecursionSolved
  <2>3. f \in [0..N -> V] /\ f[0] = base /\ \A n \in 1..N : f[n] = step[n][f[n - 1]]
    BY <2>2 DEF SolvesRecursion
  <2>4. \A n \in 1..N : f[n] = Ingest(f[n - 1], docs[n])
    <3>1. \A n \in 1..N : f[n - 1] \in V
      BY <1>3, <2>3
    <3> QED  BY <1>6, <2>3, <3>1
  <2>5. Good(f)
    BY <1>3, <2>3, <2>4
  <2> HIDE DEF Good
  <2> QED  BY <2>5
<1>8. Good(after)
  <2> HIDE DEF Good
  <2> QED  BY <1>7
<1> HIDE DEF after
<1>9. after[0] = base /\ \A n \in 1..N : after[n] = Ingest(after[n - 1], docs[n])
  BY <1>3, <1>8
<1>10. after[N] \in V
  <2> DEFINE T == {n \in 0..N : after[n] \in V}
  <2>1. 0 \in T
    BY <1>3, <1>4, <1>9
  <2>2. ASSUME NEW n \in 0..N, n < N, after[n] \in V
        PROVE  n + 1 \in T
    <3>1. n + 1 \in 1..N /\ (n + 1) - 1 = n
      BY <1>3, <2>2
    <3>2. after[n + 1] = Ingest(after[n], docs[n + 1])
      BY <1>9, <3>1
    <3> QED  BY <1>3, <1>5, <2>2, <3>1, <3>2
  <2>3. \A n \in 0..N : n < N /\ n \in T => n + 1 \in T
    BY <2>2
  <2> HIDE DEF T
  <2>4. \A n \in 0..N : n \in T
    BY <1>3, <2>1, <2>3, InductionUpTo
  <2>5. N \in T
    BY <1>3, <2>4
  <2> QED  BY <2>5 DEF T
<1> QED  BY <1>1, <1>10 DEF V

-----------------------------------------------------------------------------
(* Types.                                                                   *)

FileThere(c) == disk[c].exists /\ disk[c].docs # NoFile

DirectoryTyped(c) ==
  /\ disk[c].exists \in BOOLEAN /\ disk[c].wal \in BOOLEAN
  /\ disk[c].meta \in {"absent", "empty", "full"}
  /\ disk[c].docs \in Seq(FileLines) \cup {NoFile}
  /\ disk[c].segments \subseteq Docs
  /\ ~disk[c].exists => disk[c] = NoDirectory

EngineTyped ==
  /\ up \in BOOLEAN
  /\ open \subseteq Collections /\ managed \subseteq open
  /\ buffer \in [Collections -> SUBSET Docs]
  /\ \A c \in Collections : DirectoryTyped(c)

\* A handler writes from the first line on, to a file that is there unless its
\* name was removed.
HandlerTyped(w) ==
  /\ todo[w] \subseteq Docs \cup Keys \cup Entries
  /\ item[w] \in Docs \cup Keys \cup {None}
  /\ lines[w] \in Seq(Docs)
  /\ pos[w] \in 1..(Len(lines[w]) + 1)
  /\ pc[w] # "write" => pos[w] = 1
  /\ req[w].op = "insert" /\ pc[w] \in {"read", "truncate", "write"} => item[w] \in Docs
  /\ pc[w] = "write" /\ linked[w] => FileThere(Coll(w))

HandlersTyped ==
  /\ pc \in [Workers -> Labels]
  /\ linked \in [Workers -> BOOLEAN]
  /\ DOMAIN item = Workers /\ DOMAIN lines = Workers /\ DOMAIN pos = Workers
  /\ \A w \in Workers : HandlerTyped(w)

RepliesTyped ==
  /\ sure \in [Workers -> SUBSET (Keys \cup {"collection"})]
  /\ fate \in [Collections -> [Keys -> Docs \cup {"absent", "unknown"}]]
  /\ promise \in [Collections -> {"none", "create", "drop"}]

TypeInv == EngineTyped /\ HandlersTyped /\ RepliesTyped

LEMMA TypeInvTypes == ASSUME TypeInv PROVE NodeTypeOK
  BY DEF TypeInv, EngineTyped, HandlersTyped, RepliesTyped, DirectoryTyped, HandlerTyped,
         NodeTypeOK, FileLines

\* A step of one handler leaves the others typed.
LEMMA OthersTyped ==
  ASSUME HandlersTyped, Places, NEW w \in Workers,
         pc' \in [Workers -> Labels], linked' \in [Workers -> BOOLEAN],
         DOMAIN item' = Workers, DOMAIN lines' = Workers, DOMAIN pos' = Workers,
         \A v \in Workers \ {w} :
           /\ pc'[v] = pc[v] /\ req'[v] = req[v] /\ todo'[v] = todo[v]
           /\ item'[v] = item[v] /\ lines'[v] = lines[v] /\ pos'[v] = pos[v]
           /\ pc[v] = "write" /\ linked'[v] =>
                linked[v] /\ \A c \in Collections : c = Coll(v) /\ FileThere(c) => FileThere(c)',
         HandlerTyped(w)'
  PROVE  HandlersTyped'
<1>1. ASSUME NEW v \in Workers \ {w} PROVE HandlerTyped(v)'
  <2>1. HandlerTyped(v) /\ Coll(v)' = Coll(v)
    BY <1>1 DEF HandlersTyped, Coll
  <2>2. /\ pc'[v] = pc[v] /\ req'[v] = req[v] /\ todo'[v] = todo[v]
        /\ item'[v] = item[v] /\ lines'[v] = lines[v] /\ pos'[v] = pos[v]
        /\ pc[v] = "write" /\ linked'[v] =>
             linked[v] /\ \A c \in Collections : c = Coll(v) /\ FileThere(c) => FileThere(c)'
    BY <1>1
  <2>3. pc'[v] = "write" /\ linked'[v] => FileThere(Coll(v))'
    <3>1. pc[v] = "write" => Coll(v) \in Collections
      BY DEF Places, PlaceOK, ValidRequest, Coll
    <3>2. \A c \in Collections : pc'[v] = "write" /\ linked'[v] /\ c = Coll(v) => FileThere(c)'
      BY <2>1, <2>2 DEF HandlerTyped
    <3> QED  BY <2>1, <2>2, <3>1, <3>2 DEF FileThere
  <2> QED  BY <2>1, <2>2, <2>3 DEF HandlerTyped
<1> QED  BY <1>1 DEF HandlersTyped

\* A reply leaves handlers typed.
LEMMA ReturnTyped ==
  ASSUME HandlersTyped, Shape, Places, NEW w \in Workers, Return(w),
         \A v \in Workers \ {w} : pc[v] = "write" =>
           \A c \in Collections : c = Coll(v) /\ FileThere(c) => FileThere(c)'
  PROVE  HandlersTyped'
<1>1. HandlerTyped(w)'
  BY DEF Return, Goto, Shape, HandlersTyped, HandlerTyped, NoRequest
<1>2. pc' \in [Workers -> Labels] /\ linked' \in [Workers -> BOOLEAN]
        /\ DOMAIN item' = Workers /\ DOMAIN lines' = Workers /\ DOMAIN pos' = Workers
  BY DEF Return, Goto, HandlersTyped, Labels
<1>3. \A v \in Workers \ {w} :
        /\ pc'[v] = pc[v] /\ req'[v] = req[v] /\ todo'[v] = todo[v]
        /\ item'[v] = item[v] /\ lines'[v] = lines[v] /\ pos'[v] = pos[v]
        /\ linked'[v] = linked[v]
  BY DEF Return, Goto, Shape, HandlersTyped
<1> QED  BY <1>1, <1>2, <1>3, OthersTyped

LEMMA SucceedTyped ==
  ASSUME RepliesTyped, Shape, Places, Overlap, NEW w \in Workers, Active(w), Succeed(w)
  PROVE  RepliesTyped'
<1> DEFINE r == req[w]
<1>1. ValidRequest(r) /\ sure[w] \subseteq Touches(r)
  BY DEF Places, PlaceOK, Active, Overlap
<1>2. ASSUME NEW k \in r.keys PROVE OutcomeOf(r, k) \in Docs \cup {"absent", "unknown"}
  <2>1. CASE r.op \in {"insert", "bulk"}
    <3>1. \E d \in r.docs : KeyOf[d] = k
      BY <1>1, <1>2, <2>1 DEF ValidRequest
    <3>2. OutcomeOf(r, k) \in r.docs
      BY <2>1, <3>1 DEF OutcomeOf
    <3> QED  BY <1>1, <3>2 DEF ValidRequest
  <2>2. CASE r.op \notin {"insert", "bulk"}
    BY <2>2 DEF OutcomeOf
  <2> QED  BY <2>1, <2>2
<1>3. "collection" \in sure[w] => r.op \in {"create", "drop"}
  BY <1>1, NamesAssumption DEF Touches, ValidRequest
<1>4. sure' \in [Workers -> SUBSET (Keys \cup {"collection"})]
  BY DEF Succeed, Return, RepliesTyped
<1>5. promise' \in [Collections -> {"none", "create", "drop"}]
  BY <1>3 DEF Succeed, RepliesTyped
<1>6. fate' \in [Collections -> [Keys -> Docs \cup {"absent", "unknown"}]]
  <2> DEFINE row == [k \in Keys |-> IF k \in r.keys \cap sure[w]
                                      THEN OutcomeOf(r, k) ELSE fate[r.coll][k]]
  <2>1. r.coll \in Collections
    BY <1>1 DEF ValidRequest
  <2>2. row \in [Keys -> Docs \cup {"absent", "unknown"}]
    BY <1>2, <2>1 DEF RepliesTyped
  <2>3. fate' = [fate EXCEPT ![r.coll] = row]
    BY <2>1 DEF Succeed, RepliesTyped
  <2> HIDE DEF row
  <2> QED  BY <2>1, <2>2, <2>3 DEF RepliesTyped
<1> QED  BY <1>4, <1>5, <1>6 DEF RepliesTyped

LEMMA FailTyped ==
  ASSUME RepliesTyped, NEW w \in Workers, Fail(w)
  PROVE  RepliesTyped'
  BY DEF RepliesTyped, Fail, Return

\* The file of a handler is done.
LEMMA NextIdTyped ==
  ASSUME TypeInv, PromiseInv, NEW w \in Workers, pc[w] \in {"read", "truncate", "write"},
         NextId(w), UNCHANGED disk
  PROVE  HandlersTyped' /\ RepliesTyped'
<1> USE DEF TypeInv, PromiseInv
<1>1. \A c \in Collections : FileThere(c) => FileThere(c)'
  BY DEF FileThere
<1>2. CASE todo[w] = {}
  <2>1. Succeed(w) /\ Active(w)
    BY <1>2 DEF NextId, Active
  <2> QED  BY <1>1, <2>1, SucceedTyped, ReturnTyped DEF Succeed
<1>3. CASE todo[w] # {}
  <2>1. /\ Goto(w, "apply")
        /\ lines' = [lines EXCEPT ![w] = <<>>]
        /\ pos' = [pos EXCEPT ![w] = 1]
        /\ UNCHANGED <<req, todo, item, linked, clientVars>>
    BY <1>3 DEF NextId
  <2>2. RepliesTyped'
    BY <2>1 DEF RepliesTyped, clientVars
  <2>3. HandlerTyped(w)'
    BY <2>1 DEF HandlersTyped, HandlerTyped, Goto
  <2>4. \A v \in Workers \ {w} : pc'[v] = pc[v] /\ lines'[v] = lines[v] /\ pos'[v] = pos[v]
    BY <2>1 DEF HandlersTyped, Goto
  <2>5. pc' \in [Workers -> Labels] /\ DOMAIN lines' = Workers /\ DOMAIN pos' = Workers
    BY <2>1 DEF HandlersTyped, Goto, Labels
  <2>6. linked' \in [Workers -> BOOLEAN] /\ DOMAIN item' = Workers
    BY <2>1 DEF HandlersTyped
  <2> QED  BY <1>1, <2>1, <2>2, <2>3, <2>4, <2>5, <2>6, OthersTyped
<1> QED  BY <1>2, <1>3
-----------------------------------------------------------------------------
(* Each step keeps the types.                                               *)

LEMMA CollOf ==
  ASSUME Places, NEW w \in Workers, pc[w] # "idle"
  PROVE  Coll(w) \in Collections /\ ValidRequest(req[w])
  BY DEF Places, PlaceOK, ValidRequest, Coll

\* A step that leaves every field but pc of the handlers alone.
LEMMA GotoTyped ==
  ASSUME HandlersTyped, Shape, Places, NEW w \in Workers, NEW l \in Labels \ {"read", "truncate", "write"},
         pc[w] # "write", Goto(w, l), linked' \in [Workers -> BOOLEAN],
         \A v \in Workers : pc[v] = "write" => linked'[v] = linked[v],
         UNCHANGED <<req, todo, item, lines, pos>>,
         \A c \in Collections : FileThere(c) => FileThere(c)'
  PROVE  HandlersTyped'
<1>1. HandlerTyped(w)'
  BY DEF HandlersTyped, HandlerTyped, Goto
<1>2. pc' \in [Workers -> Labels] /\ \A v \in Workers \ {w} : pc'[v] = pc[v]
  BY DEF HandlersTyped, Goto
<1>3. DOMAIN item' = Workers /\ DOMAIN lines' = Workers /\ DOMAIN pos' = Workers
  BY DEF HandlersTyped
<1> QED  BY <1>1, <1>2, <1>3, OthersTyped

LEMMA CreateCollectionTyped ==
  ASSUME TypeInv, PromiseInv, NEW w \in Workers, CreateCollection(w)
  PROVE  TypeInv'
<1> USE DEF TypeInv, PromiseInv
<1> DEFINE c == Coll(w)
<1>1. c \in Collections
  BY CollOf DEF CreateCollection
<1>2. \A e \in Collections : FileThere(e) => FileThere(e)'
  BY <1>1 DEF CreateCollection, FileThere, Shape, Fields
<1>3. \A e \in Collections : DirectoryTyped(e)'
  BY <1>1 DEF CreateCollection, EngineTyped, DirectoryTyped, Shape, Fields
<1>4. EngineTyped'
  BY <1>1, <1>3 DEF CreateCollection, EngineTyped
<1>5. HandlersTyped'
  BY <1>2, GotoTyped DEF CreateCollection, Labels, HandlersTyped
<1>6. RepliesTyped'
  BY DEF CreateCollection, clientVars, RepliesTyped
<1> QED  BY <1>4, <1>5, <1>6

LEMMA OpenWalTyped ==
  ASSUME TypeInv, PromiseInv, NEW w \in Workers, OpenWal(w)
  PROVE  TypeInv'
<1> USE DEF TypeInv, PromiseInv
<1> DEFINE c == Coll(w)
<1>1. c \in Collections /\ pc[w] = "wal"
  BY CollOf DEF OpenWal
<1>2. \A e \in Collections : FileThere(e) => FileThere(e)'
  BY <1>1 DEF OpenWal, FileThere, Shape, Fields
<1>3. ASSUME NEW e \in Collections PROVE DirectoryTyped(e)'
  <2>1. DirectoryTyped(e) /\ DOMAIN disk[e] = Fields
    BY DEF EngineTyped, Shape
  <2>2. CASE UNCHANGED disk
    BY <2>1, <2>2 DEF DirectoryTyped
  <2>3. CASE disk[c].exists /\ disk' = [disk EXCEPT ![c].wal = TRUE]
    <3>1. CASE e # c
      <4>1. disk'[e] = disk[e]
        BY <1>1, <2>3, <3>1 DEF Shape
      <4> QED  BY <2>1, <4>1 DEF DirectoryTyped
    <3>2. CASE e = c
      <4>1. disk'[e] = [disk[e] EXCEPT !.wal = TRUE]
        BY <1>1, <2>3, <3>2 DEF Shape
      <4>2. /\ disk'[e].exists = disk[e].exists /\ disk'[e].wal = TRUE
            /\ disk'[e].meta = disk[e].meta /\ disk'[e].docs = disk[e].docs
            /\ disk'[e].segments = disk[e].segments
        BY <2>1, <4>1 DEF Fields
      <4> QED  BY <2>1, <2>3, <3>2, <4>2 DEF DirectoryTyped
    <3> QED  BY <3>1, <3>2
  <2> QED  BY <2>2, <2>3 DEF OpenWal
<1>4. EngineTyped'
  BY <1>1, <1>3 DEF OpenWal, EngineTyped
<1>5. HandlersTyped'
  <2>1. \E l \in {"load", "save"} : Goto(w, l)
    BY DEF OpenWal
  <2> QED  BY <1>1, <1>2, <2>1, GotoTyped DEF OpenWal, Labels, HandlersTyped
<1>6. RepliesTyped'
  BY DEF OpenWal, clientVars, RepliesTyped
<1> QED  BY <1>4, <1>5, <1>6

LEMMA LoadSegmentsTyped ==
  ASSUME TypeInv, PromiseInv, NEW w \in Workers, LoadSegments(w)
  PROVE  TypeInv'
<1> USE DEF TypeInv, PromiseInv
<1>1. Coll(w) \in Collections /\ pc[w] = "load"
  BY CollOf DEF LoadSegments
<1>2. EngineTyped'
  BY <1>1 DEF LoadSegments, EngineTyped, DirectoryTyped
<1>3. HandlersTyped'
  BY <1>1, GotoTyped DEF LoadSegments, Labels, HandlersTyped, FileThere
<1>4. RepliesTyped'
  BY DEF LoadSegments, clientVars, RepliesTyped
<1> QED  BY <1>2, <1>3, <1>4

LEMMA SaveCollectionTyped ==
  ASSUME TypeInv, PromiseInv, NEW w \in Workers, SaveCollection(w)
  PROVE  TypeInv'
<1> USE DEF TypeInv, PromiseInv
<1> DEFINE c == Coll(w)
<1>1. c \in Collections
  BY CollOf DEF SaveCollection
<1>2. \A e \in Collections : FileThere(e) => FileThere(e)'
  BY <1>1 DEF SaveCollection, FileThere, Shape, Fields
<1>3. \A e \in Collections : DirectoryTyped(e)'
  BY <1>1 DEF SaveCollection, EngineTyped, DirectoryTyped, Shape, Fields
<1>4. EngineTyped'
  BY <1>1, <1>3 DEF SaveCollection, EngineTyped
<1>5. HandlersTyped'
  BY <1>2, GotoTyped DEF SaveCollection, Labels, HandlersTyped
<1>6. RepliesTyped'
  BY DEF SaveCollection, clientVars, RepliesTyped
<1> QED  BY <1>4, <1>5, <1>6

LEMMA WriteMetaTyped ==
  ASSUME TypeInv, PromiseInv, NEW w \in Workers, WriteMeta(w)
  PROVE  TypeInv'
<1> USE DEF TypeInv, PromiseInv
<1> DEFINE c == Coll(w)
<1>1. c \in Collections /\ Active(w)
  BY CollOf DEF WriteMeta, Active
<1>2. \A e \in Collections : FileThere(e) => FileThere(e)'
  BY <1>1 DEF WriteMeta, FileThere, Shape, Fields
<1>3. \A e \in Collections : DirectoryTyped(e)'
  <2>1. linked[w] => disk[c].exists
    BY DEF WriteMeta, Promises
  <2> QED  BY <1>1, <2>1 DEF WriteMeta, EngineTyped, DirectoryTyped, Shape, Fields
<1>4. EngineTyped'
  BY <1>3 DEF WriteMeta, EngineTyped
<1>5. HandlersTyped' /\ RepliesTyped'
  BY <1>1, <1>2, ReturnTyped, SucceedTyped DEF WriteMeta, Succeed
<1> QED  BY <1>4, <1>5

LEMMA IngestTyped ==
  ASSUME NEW s, s.buffer \subseteq Docs, s.segments \subseteq Docs, NEW d \in Docs
  PROVE  /\ Ingest(s, d).buffer \subseteq Docs
         /\ Ingest(s, d).segments \subseteq Docs
         /\ Ingest(s, d).buffer # {} => Ingest(s, d).segments = s.segments
  BY DEF Ingest

LEMMA InsertDocumentTyped ==
  ASSUME TypeInv, PromiseInv, NEW w \in Workers, InsertDocument(w)
  PROVE  TypeInv'
<1> USE DEF TypeInv, PromiseInv
<1> DEFINE c == Coll(w)
<1>1. c \in Collections /\ Active(w) /\ ValidRequest(req[w]) /\ todo[w] \subseteq req[w].docs
        /\ pc[w] = "apply"
  BY CollOf DEF InsertDocument, Active, Places, PlaceOK
<1>2. PICK d \in todo[w] :
       /\ LET s == Ingest(Storage(Coll(w)), d)
          IN IF Coll(w) \in managed
               THEN /\ buffer' = [buffer EXCEPT ![Coll(w)] = s.buffer]
                    /\ disk' = [disk EXCEPT ![Coll(w)].segments = s.segments,
                                            ![Coll(w)].exists = @ \/ s.buffer = {}]
               ELSE UNCHANGED <<buffer, disk>>
       /\ IF req[w].op = "insert"
            THEN /\ Goto(w, "read")
                 /\ item' = [item EXCEPT ![w] = d]
                 /\ todo' = [todo EXCEPT ![w] = {}]
                 /\ UNCHANGED <<req, lines, pos, linked, clientVars>>
          ELSE IF todo[w] = {d}
            THEN Succeed(w)
            ELSE /\ todo' = [todo EXCEPT ![w] = @ \ {d}]
                 /\ UNCHANGED <<pc, req, item, lines, pos, linked, clientVars>>
  BY DEF InsertDocument
<1>3. d \in Docs
  BY <1>1 DEF ValidRequest
<1> DEFINE s == Ingest(Storage(c), d)
<1>4. s.buffer \subseteq Docs /\ s.segments \subseteq Docs
        /\ (s.buffer # {} => s.segments = disk[c].segments)
  <2>1. Storage(c).buffer \subseteq Docs /\ Storage(c).segments \subseteq Docs
          /\ Storage(c).segments = disk[c].segments
    BY <1>1 DEF Storage, EngineTyped, DirectoryTyped
  <2> QED  BY <1>3, <2>1, IngestTyped
<1>5. IF c \in managed
        THEN /\ buffer' = [buffer EXCEPT ![c] = s.buffer]
             /\ disk' = [disk EXCEPT ![c].segments = s.segments,
                                     ![c].exists = @ \/ s.buffer = {}]
        ELSE UNCHANGED <<buffer, disk>>
  BY <1>2
<1> HIDE DEF s
<1>6. \A e \in Collections : FileThere(e) => FileThere(e)'
  BY <1>1, <1>5 DEF FileThere, Shape, Fields
<1>7. \A e \in Collections : DirectoryTyped(e)'
  <2>1. CASE c \notin managed
    BY <1>5, <2>1 DEF EngineTyped, DirectoryTyped
  <2>2. CASE c \in managed
    <3>1. \A e \in Collections \ {c} : disk'[e] = disk[e]
      BY <1>5, <2>2 DEF Shape
    <3>2. /\ disk'[c] = [disk[c] EXCEPT !.segments = s.segments,
                                        !.exists = @ \/ s.buffer = {}]
      BY <1>1, <1>5, <2>2 DEF Shape
    <3>3. ASSUME NEW e, e = c PROVE DirectoryTyped(e)'
      <4>1. DirectoryTyped(e) /\ DOMAIN disk[e] = Fields
        BY <1>1, <3>3 DEF EngineTyped, Shape
      <4>2. /\ disk'[e].exists = (disk[e].exists \/ s.buffer = {})
            /\ disk'[e].segments = s.segments /\ disk'[e].docs = disk[e].docs
            /\ disk'[e].meta = disk[e].meta /\ disk'[e].wal = disk[e].wal
        BY <3>2, <3>3, <4>1 DEF Fields
      <4>3. ASSUME ~disk'[e].exists PROVE disk'[e] = NoDirectory
        <5>1. ~disk[e].exists /\ s.buffer # {}
          BY <4>2, <4>3
        <5>2. disk[e] = NoDirectory /\ s.segments = {}
          BY <1>4, <3>3, <4>1, <5>1 DEF DirectoryTyped, NoDirectory
        <5>3. NoDirectory.exists = FALSE /\ NoDirectory.segments = {}
          BY DEF NoDirectory
        <5>4. /\ DOMAIN disk'[e] = Fields
              /\ disk'[e] = [x \in Fields |-> disk'[e][x]]
          BY <3>2, <3>3, <4>1
        <5>5. /\ DOMAIN NoDirectory = Fields
              /\ NoDirectory = [x \in Fields |-> NoDirectory[x]]
          BY DEF NoDirectory, Fields
        <5>6. \A x \in Fields : disk'[e][x] = NoDirectory[x]
          BY <4>2, <4>3, <5>1, <5>2, <5>3, <3>2, <3>3 DEF Fields
        <5> HIDE DEF NoDirectory
        <5> QED  BY <5>4, <5>5, <5>6
      <4> QED  BY <1>4, <3>3, <4>1, <4>2, <4>3 DEF DirectoryTyped
    <3> QED  BY <3>1, <3>3 DEF EngineTyped, DirectoryTyped
  <2> QED  BY <2>1, <2>2
<1>8. EngineTyped'
  BY <1>1, <1>4, <1>5, <1>7 DEF InsertDocument, EngineTyped
<1>9. CASE req[w].op = "insert"
  <2>1. /\ Goto(w, "read")
        /\ item' = [item EXCEPT ![w] = d]
        /\ todo' = [todo EXCEPT ![w] = {}]
        /\ UNCHANGED <<req, lines, pos, linked, clientVars>>
    BY <1>2, <1>9
  <2>2. HandlerTyped(w)'
    BY <1>1, <1>3, <2>1 DEF HandlersTyped, HandlerTyped, Goto, Shape
  <2>3. pc' \in [Workers -> Labels] /\ DOMAIN item' = Workers /\ DOMAIN lines' = Workers
          /\ DOMAIN pos' = Workers /\ linked' \in [Workers -> BOOLEAN]
    BY <2>1 DEF HandlersTyped, Goto, Labels
  <2>4. \A v \in Workers \ {w} : pc'[v] = pc[v] /\ item'[v] = item[v] /\ todo'[v] = todo[v]
    BY <2>1 DEF HandlersTyped, Goto, Shape
  <2>5. HandlersTyped'
    BY <1>6, <2>1, <2>2, <2>3, <2>4, OthersTyped
  <2>6. RepliesTyped'
    BY <2>1 DEF RepliesTyped, clientVars
  <2> QED  BY <1>8, <2>5, <2>6
<1>10. CASE req[w].op # "insert" /\ todo[w] = {d}
  <2>1. Succeed(w)
    BY <1>2, <1>10
  <2> QED  BY <1>1, <1>6, <1>8, <2>1, ReturnTyped, SucceedTyped DEF Succeed
<1>11. CASE req[w].op # "insert" /\ todo[w] # {d}
  <2>1. /\ todo' = [todo EXCEPT ![w] = @ \ {d}]
        /\ UNCHANGED <<pc, req, item, lines, pos, linked, clientVars>>
    BY <1>2, <1>11
  <2>2. HandlerTyped(w)'
    BY <1>1, <2>1 DEF HandlersTyped, HandlerTyped, Shape
  <2>3. \A v \in Workers \ {w} : todo'[v] = todo[v]
    BY <2>1 DEF Shape
  <2>4. HandlersTyped'
    BY <1>6, <2>1, <2>2, <2>3, OthersTyped DEF HandlersTyped
  <2>5. RepliesTyped'
    BY <2>1 DEF RepliesTyped, clientVars
  <2> QED  BY <1>8, <2>4, <2>5
<1> QED  BY <1>9, <1>10, <1>11

LEMMA DeleteDocumentTyped ==
  ASSUME TypeInv, PromiseInv, NEW w \in Workers, DeleteDocument(w)
  PROVE  TypeInv'
<1> USE DEF TypeInv, PromiseInv
<1> DEFINE c == Coll(w)
<1>1. c \in Collections /\ ValidRequest(req[w]) /\ todo[w] \subseteq req[w].keys
        /\ pc[w] = "apply" /\ req[w].op = "delete"
  BY CollOf DEF DeleteDocument, Places, PlaceOK
<1>2. PICK k \in todo[w] :
       /\ buffer' = [buffer EXCEPT ![Coll(w)] = {b \in @ : KeyOf[b] # k}]
       /\ todo' = [todo EXCEPT ![w] = @ \ {k}]
       /\ item' = [item EXCEPT ![w] = k]
  BY DEF DeleteDocument
<1>3. /\ Goto(w, "read")
      /\ UNCHANGED <<up, open, managed, disk, req, lines, pos, linked, clientVars, crashes>>
  BY DEF DeleteDocument
<1>4. EngineTyped'
  BY <1>1, <1>2, <1>3 DEF EngineTyped, DirectoryTyped
<1>5. HandlerTyped(w)'
  BY <1>1, <1>2, <1>3 DEF HandlersTyped, HandlerTyped, Goto, Shape, ValidRequest
<1>6. pc' \in [Workers -> Labels] /\ DOMAIN item' = Workers /\ DOMAIN lines' = Workers
        /\ DOMAIN pos' = Workers /\ linked' \in [Workers -> BOOLEAN]
  BY <1>2, <1>3 DEF HandlersTyped, Goto, Labels
<1>7. \A v \in Workers \ {w} : pc'[v] = pc[v] /\ item'[v] = item[v] /\ todo'[v] = todo[v]
  BY <1>2, <1>3 DEF HandlersTyped, Goto, Shape
<1>8. \A e \in Collections : FileThere(e) => FileThere(e)'
  BY <1>3 DEF FileThere
<1>9. HandlersTyped'
  BY <1>3, <1>5, <1>6, <1>7, <1>8, OthersTyped
<1>10. RepliesTyped'
  BY <1>3 DEF RepliesTyped, clientVars
<1> QED  BY <1>4, <1>9, <1>10

\* A step that goes from one place of the file's rewriting to the next.
LEMMA FileTyped ==
  ASSUME HandlersTyped, Shape, Places, NEW w \in Workers, NEW l \in Labels,
         Goto(w, l), UNCHANGED <<req, todo, item>>,
         linked' \in [Workers -> BOOLEAN],
         DOMAIN lines' = Workers, DOMAIN pos' = Workers,
         \A v \in Workers \ {w} : /\ linked'[v] = linked[v]
                                  /\ lines'[v] = lines[v] /\ pos'[v] = pos[v],
         \A c \in Collections : FileThere(c) => FileThere(c)',
         HandlerTyped(w)'
  PROVE  HandlersTyped'
<1>1. pc' \in [Workers -> Labels] /\ \A v \in Workers \ {w} : pc'[v] = pc[v]
  BY DEF HandlersTyped, Goto
<1>2. DOMAIN item' = Workers
  BY DEF HandlersTyped
<1> QED  BY <1>1, <1>2, OthersTyped

LEMMA SaveDocumentTyped ==
  ASSUME TypeInv, PromiseInv, NEW w \in Workers, SaveDocument(w)
  PROVE  TypeInv'
<1> USE DEF TypeInv, PromiseInv
<1> DEFINE c == Coll(w)
           kept == Only(Parsed(disk[c].docs), VersionsNotOf(KeyOf[item[w]]))
<1>1. c \in Collections /\ pc[w] = "read" /\ req[w].op = "insert" /\ HandlerTyped(w)
  BY CollOf DEF SaveDocument, HandlersTyped
<1>2. \A e \in Collections : FileThere(e) => FileThere(e)'
  BY <1>1 DEF SaveDocument, FileThere, Shape, Fields
<1>3. \A e \in Collections : DirectoryTyped(e)'
  BY <1>1 DEF SaveDocument, EngineTyped, DirectoryTyped, Shape, Fields
<1>4. EngineTyped'
  BY <1>3 DEF SaveDocument, EngineTyped
<1>5. item[w] \in Docs /\ pos[w] = 1
  BY <1>1 DEF HandlerTyped
<1>6. kept \in Seq(Docs)
  <2>1. disk[c].docs \in Seq(FileLines) \cup {NoFile}
    BY <1>1 DEF EngineTyped, DirectoryTyped
  <2>2. Parsed(disk[c].docs) \in Seq(Docs)
    BY <2>1, ParsedType
  <2>3. kept \in Seq(Docs \cap VersionsNotOf(KeyOf[item[w]]))
    BY <2>2, OnlyType
  <2> QED  BY <2>3
<1>7. lines' = [lines EXCEPT ![w] = Append(kept, item[w])]
  BY DEF SaveDocument
<1> HIDE DEF kept
<1>8. Append(kept, item[w]) \in Seq(Docs) /\ Len(Append(kept, item[w])) \in Nat
  BY <1>5, <1>6
<1>9. lines'[w] \in Seq(Docs)
  BY <1>7, <1>8 DEF HandlersTyped
<1>10. HandlerTyped(w)'
  BY <1>1, <1>5, <1>9 DEF SaveDocument, HandlersTyped, HandlerTyped, Goto
<1>11. HandlersTyped'
  BY <1>2, <1>7, <1>10, FileTyped DEF SaveDocument, HandlersTyped, Labels
<1>12. RepliesTyped'
  BY DEF SaveDocument, clientVars, RepliesTyped
<1> QED  BY <1>4, <1>11, <1>12

LEMMA RemoveDocumentTyped ==
  ASSUME TypeInv, PromiseInv, NEW w \in Workers, RemoveDocument(w)
  PROVE  TypeInv'
<1> USE DEF TypeInv, PromiseInv
<1> DEFINE c == Coll(w)
           kept == Only(Parsed(disk[c].docs), VersionsNotOf(item[w]))
<1>1. c \in Collections /\ pc[w] = "read" /\ req[w].op = "delete" /\ HandlerTyped(w)
  BY CollOf DEF RemoveDocument, HandlersTyped
<1>2. EngineTyped' /\ UNCHANGED disk
  BY DEF RemoveDocument, EngineTyped, DirectoryTyped
<1>3. CASE disk[c].docs = NoFile
  <2>1. NextId(w)
    BY <1>3 DEF RemoveDocument
  <2> QED  BY <1>1, <1>2, <2>1, NextIdTyped
<1>4. CASE disk[c].docs # NoFile
  <2>1. /\ lines' = [lines EXCEPT ![w] = kept]
        /\ Goto(w, "truncate")
        /\ UNCHANGED <<req, todo, item, pos, linked, clientVars>>
    BY <1>4 DEF RemoveDocument
  <2>2. kept \in Seq(Docs)
    <3>1. disk[c].docs \in Seq(FileLines) \cup {NoFile}
      BY <1>1 DEF EngineTyped, DirectoryTyped
    <3>2. Parsed(disk[c].docs) \in Seq(Docs)
      BY <3>1, ParsedType
    <3>3. kept \in Seq(Docs \cap VersionsNotOf(item[w]))
      BY <3>2, OnlyType
    <3> QED  BY <3>3
  <2> HIDE DEF kept
  <2>3. HandlerTyped(w)'
    BY <1>1, <2>1, <2>2 DEF HandlersTyped, HandlerTyped, Goto
  <2>4. HandlersTyped'
    BY <1>2, <2>1, <2>3, FileTyped DEF HandlersTyped, Labels, FileThere
  <2>5. RepliesTyped'
    BY <2>1 DEF clientVars, RepliesTyped
  <2> QED  BY <1>2, <2>4, <2>5
<1> QED  BY <1>3, <1>4

LEMMA TruncateFileTyped ==
  ASSUME TypeInv, PromiseInv, NEW w \in Workers, TruncateFile(w)
  PROVE  TypeInv'
<1> USE DEF TypeInv, PromiseInv
<1> DEFINE c == Coll(w)
<1>1. c \in Collections /\ pc[w] = "truncate" /\ HandlerTyped(w)
  BY CollOf DEF TruncateFile, HandlersTyped
<1>2. CASE disk[c].exists
  <2>1. /\ disk' = [disk EXCEPT ![c].docs = <<>>]
        /\ linked' = [linked EXCEPT ![w] = TRUE]
        /\ pos' = [pos EXCEPT ![w] = 1]
        /\ Goto(w, "write")
        /\ UNCHANGED <<up, open, managed, buffer, req, todo, item, lines, clientVars>>
    BY <1>2 DEF TruncateFile
  <2>2. <<>> \in Seq(FileLines) /\ <<>> # NoFile
    <3>1. <<>> \in Seq(FileLines)
      OBVIOUS
    <3> QED  BY <3>1, FileAssumption DEF FileLines
  <2>3. \A e \in Collections : FileThere(e) => FileThere(e)'
    BY <1>1, <2>1, <2>2 DEF FileThere, Shape, Fields
  <2>4. \A e \in Collections : DirectoryTyped(e)'
    BY <1>1, <1>2, <2>1, <2>2 DEF EngineTyped, DirectoryTyped, Shape, Fields
  <2>5. EngineTyped'
    BY <2>1, <2>4 DEF EngineTyped
  <2>6. \A e \in Collections : e = c => FileThere(e)'
    BY <1>1, <1>2, <2>1, <2>2 DEF FileThere, Shape, Fields
  <2>7. FileThere(Coll(w))'
    BY <1>1, <2>1, <2>6 DEF FileThere, Coll
  <2>8. HandlerTyped(w)'
    BY <1>1, <2>1, <2>7 DEF HandlersTyped, HandlerTyped, Goto
  <2>9. HandlersTyped'
    BY <2>1, <2>3, <2>8, FileTyped DEF HandlersTyped, Labels
  <2>10. RepliesTyped'
    BY <2>1 DEF clientVars, RepliesTyped
  <2> QED  BY <2>5, <2>9, <2>10
<1>3. CASE ~disk[c].exists
  <2>1. UNCHANGED <<up, open, managed, buffer, disk>> /\ (Fail(w) \/ NextId(w))
    BY <1>3 DEF TruncateFile
  <2>2. EngineTyped'
    BY <2>1 DEF EngineTyped, DirectoryTyped
  <2>3. CASE NextId(w)
    BY <1>1, <2>1, <2>2, <2>3, NextIdTyped
  <2>4. CASE Fail(w)
    <3>1. HandlersTyped'
      BY <2>1, <2>4, ReturnTyped DEF Fail, FileThere
    <3> QED  BY <2>2, <2>4, <3>1, FailTyped
  <2> QED  BY <2>1, <2>3, <2>4
<1> QED  BY <1>2, <1>3

LEMMA WriteLineTyped ==
  ASSUME TypeInv, PromiseInv, NEW w \in Workers, WriteLine(w)
  PROVE  TypeInv'
<1> USE DEF TypeInv, PromiseInv
<1> DEFINE c == Coll(w)
           file == WithLine(disk[c].docs, pos[w], lines[w][pos[w]])
<1>1. c \in Collections /\ pc[w] = "write" /\ HandlerTyped(w) /\ pos[w] <= Len(lines[w])
  BY CollOf DEF WriteLine, HandlersTyped
<1>2. /\ lines[w] \in Seq(Docs) /\ pos[w] \in Nat \ {0}
      /\ pos[w] \in 1..Len(lines[w]) /\ lines[w][pos[w]] \in FileLines
  BY <1>1 DEF HandlerTyped, FileLines
<1>3. linked[w] => disk[c].exists /\ file \in Seq(FileLines) /\ file # NoFile
  <2> SUFFICES ASSUME linked[w] PROVE disk[c].exists /\ file \in Seq(FileLines) /\ file # NoFile
    OBVIOUS
  <2>1. disk[c].exists /\ disk[c].docs \in Seq(FileLines)
    BY <1>1 DEF HandlerTyped, FileThere, EngineTyped, DirectoryTyped
  <2> QED  BY <1>2, <2>1, WithLineType
<1>4. disk' = IF linked[w] THEN [disk EXCEPT ![c].docs = file] ELSE disk
  BY <1>1 DEF WriteLine, Shape, Fields
<1> HIDE DEF file
<1>5. \A e \in Collections : FileThere(e) => FileThere(e)'
  BY <1>1, <1>3, <1>4 DEF FileThere, Shape, Fields
<1>6. \A e \in Collections : DirectoryTyped(e)'
  BY <1>1, <1>3, <1>4 DEF EngineTyped, DirectoryTyped, Shape, Fields
<1>7. EngineTyped'
  BY <1>6 DEF WriteLine, EngineTyped
<1>8. /\ pos' = [pos EXCEPT ![w] = @ + 1]
      /\ UNCHANGED <<pc, req, todo, item, lines, linked, clientVars>>
  BY DEF WriteLine
<1>9. HandlerTyped(w)'
  <2>1. pos'[w] = pos[w] + 1
    BY <1>8 DEF HandlersTyped
  <2>2. pos'[w] \in 1..(Len(lines'[w]) + 1)
    BY <1>2, <1>8, <2>1
  <2>3. linked[w] => FileThere(Coll(w))'
    BY <1>1, <1>5, <1>8 DEF HandlerTyped, FileThere, Coll
  <2> QED  BY <1>1, <1>8, <2>2, <2>3 DEF HandlerTyped
<1>10. \A v \in Workers \ {w} : pos'[v] = pos[v]
  BY <1>8 DEF HandlersTyped
<1>11. HandlersTyped'
  BY <1>5, <1>8, <1>9, <1>10, OthersTyped DEF HandlersTyped
<1>12. RepliesTyped'
  BY <1>8 DEF clientVars, RepliesTyped
<1> QED  BY <1>7, <1>11, <1>12

LEMMA FileWrittenTyped ==
  ASSUME TypeInv, PromiseInv, NEW w \in Workers, FileWritten(w)
  PROVE  TypeInv'
<1>1. EngineTyped' /\ UNCHANGED disk
  BY DEF FileWritten, EngineTyped, DirectoryTyped, TypeInv
<1> QED  BY <1>1, NextIdTyped DEF FileWritten, TypeInv

LEMMA DeleteCollectionTyped ==
  ASSUME TypeInv, PromiseInv, NEW w \in Workers, DeleteCollection(w)
  PROVE  TypeInv'
<1> USE DEF TypeInv, PromiseInv
<1>1. Coll(w) \in Collections
  BY CollOf DEF DeleteCollection
<1>2. EngineTyped'
  BY <1>1 DEF DeleteCollection, EngineTyped, DirectoryTyped
<1>3. HandlersTyped'
  BY GotoTyped DEF DeleteCollection, Labels, HandlersTyped, FileThere
<1>4. RepliesTyped'
  BY DEF DeleteCollection, clientVars, RepliesTyped
<1> QED  BY <1>2, <1>3, <1>4

LEMMA ListDirectoryTyped ==
  ASSUME TypeInv, PromiseInv, NEW w \in Workers, ListDirectory(w)
  PROVE  TypeInv'
<1> USE DEF TypeInv, PromiseInv
<1>1. pc[w] = "list" /\ Active(w) /\ UNCHANGED <<up, open, managed, buffer, disk>>
  BY DEF ListDirectory, Active
<1>2. EngineTyped'
  BY <1>1 DEF EngineTyped, DirectoryTyped
<1>3. CASE Succeed(w)
  BY <1>1, <1>2, <1>3, ReturnTyped, SucceedTyped DEF Succeed, FileThere
<1>4. CASE disk[Coll(w)].exists
  <2>1. /\ todo' = [todo EXCEPT ![w] = {e \in Entries : Has(disk[Coll(w)], e)}]
        /\ Goto(w, "remove")
        /\ UNCHANGED <<req, item, lines, pos, linked, clientVars>>
    BY <1>4 DEF ListDirectory
  <2>2. HandlerTyped(w)'
    BY <1>1, <2>1 DEF HandlersTyped, HandlerTyped, Goto, Shape
  <2>3. \A v \in Workers \ {w} : pc'[v] = pc[v] /\ todo'[v] = todo[v]
    BY <2>1 DEF HandlersTyped, Goto, Shape
  <2>4. pc' \in [Workers -> Labels]
    BY <2>1 DEF HandlersTyped, Goto, Labels
  <2>5. HandlersTyped'
    BY <1>1, <2>1, <2>2, <2>3, <2>4, OthersTyped DEF HandlersTyped, FileThere
  <2>6. RepliesTyped'
    BY <2>1 DEF clientVars, RepliesTyped
  <2> QED  BY <1>2, <2>5, <2>6
<1> QED  BY <1>3, <1>4 DEF ListDirectory

LEMMA RemoveEntryTyped ==
  ASSUME TypeInv, PromiseInv, NEW w \in Workers, RemoveEntry(w)
  PROVE  TypeInv'
<1> USE DEF TypeInv, PromiseInv
<1> DEFINE c == Coll(w)
<1>1. c \in Collections /\ pc[w] = "remove" /\ todo[w] \subseteq Entries
  BY CollOf DEF RemoveEntry, Places, PlaceOK
<1>2. PICK e \in todo[w] :
        /\ disk' = [disk EXCEPT ![Coll(w)] = Without(@, e)]
        /\ todo' = [todo EXCEPT ![w] = @ \ {e}]
        /\ linked' = [v \in Workers |->
                        linked[v] /\ ~(/\ Coll(v) = Coll(w)
                                       /\ \/ e = "docs" /\ pc[v] = "write"
                                          \/ e = "meta" /\ pc[v] = "meta")]
  BY DEF RemoveEntry
<1>3. UNCHANGED <<up, open, managed, buffer, pc, req, item, lines, pos, clientVars>>
  BY DEF RemoveEntry
<1>4. e \in {"meta", "docs", "segments", "wal"}
  BY <1>1, <1>2 DEF Entries
<1>5. \A f \in Collections : disk'[f] = IF f = c THEN Without(disk[f], e) ELSE disk[f]
  BY <1>1, <1>2 DEF Shape
<1>6. \A f \in Collections : DirectoryTyped(f)'
  <2> SUFFICES ASSUME NEW f \in Collections PROVE DirectoryTyped(f)'
    OBVIOUS
  <2>1. DirectoryTyped(f) /\ DOMAIN disk[f] = Fields
    BY DEF EngineTyped, Shape
  <2>2. CASE f # c
    BY <1>5, <2>1, <2>2 DEF DirectoryTyped
  <2>3. CASE f = c
    <3>1. disk'[f] = Without(disk[f], e)
      BY <1>5, <2>3
    <3>2. /\ disk'[f].exists = disk[f].exists
          /\ disk'[f].wal \in BOOLEAN
          /\ disk'[f].meta \in {"absent", "empty", "full"}
          /\ disk'[f].docs \in Seq(FileLines) \cup {NoFile}
          /\ disk'[f].segments \subseteq Docs
      <4>1. CASE e = "meta"
        BY <2>1, <3>1, <4>1 DEF Without, DirectoryTyped, Fields
      <4>2. CASE e = "docs"
        BY <2>1, <3>1, <4>2 DEF Without, DirectoryTyped, Fields
      <4>3. CASE e = "segments"
        BY <2>1, <3>1, <4>3 DEF Without, DirectoryTyped, Fields
      <4>4. CASE e = "wal"
        BY <2>1, <3>1, <4>4 DEF Without, DirectoryTyped, Fields
      <4> QED  BY <1>4, <4>1, <4>2, <4>3, <4>4
    <3>3. ASSUME ~disk[f].exists PROVE disk'[f] = NoDirectory
      <4>1. disk'[f] = Without(NoDirectory, e)
        BY <2>1, <3>1, <3>3 DEF DirectoryTyped
      <4> QED  BY <1>4, <4>1 DEF Without, NoDirectory
    <3> QED  BY <2>1, <3>2, <3>3 DEF DirectoryTyped
  <2> QED  BY <2>2, <2>3
<1>7. EngineTyped'
  BY <1>3, <1>6 DEF EngineTyped
<1>8. ASSUME NEW v \in Workers, pc[v] = "write", linked'[v]
      PROVE  linked[v] /\ \A f \in Collections : f = Coll(v) /\ FileThere(f) => FileThere(f)'
  <2>1. linked[v] /\ (Coll(v) = c => e # "docs")
    BY <1>2, <1>8 DEF HandlersTyped
  <2>2. CASE Coll(v) # c
    BY <1>5, <2>1, <2>2 DEF FileThere
  <2>3. CASE e # "docs"
    <3>1. \A f \in Collections : disk'[f].exists = disk[f].exists /\ disk'[f].docs = disk[f].docs
      BY <1>4, <1>5, <2>3 DEF Without, Shape, Fields
    <3> QED  BY <2>1, <3>1 DEF FileThere
  <2> QED  BY <2>1, <2>2, <2>3
<1>9. HandlerTyped(w)'
  BY <1>1, <1>2, <1>3 DEF HandlersTyped, HandlerTyped, Shape
<1>10. linked' \in [Workers -> BOOLEAN] /\ \A v \in Workers \ {w} : todo'[v] = todo[v]
  BY <1>2 DEF Shape, HandlersTyped
<1>11. HandlersTyped'
  BY <1>3, <1>8, <1>9, <1>10, OthersTyped DEF HandlersTyped
<1>12. RepliesTyped'
  BY <1>3 DEF clientVars, RepliesTyped
<1> QED  BY <1>7, <1>11, <1>12

LEMMA RemoveDirectoryTyped ==
  ASSUME TypeInv, PromiseInv, NEW w \in Workers, RemoveDirectory(w)
  PROVE  TypeInv'
<1> USE DEF TypeInv, PromiseInv
<1> DEFINE c == Coll(w)
<1>1. c \in Collections /\ Active(w)
  BY CollOf DEF RemoveDirectory, Active
<1>2. UNCHANGED <<up, open, managed, buffer>>
  BY DEF RemoveDirectory
<1>3. CASE UNCHANGED disk /\ Fail(w)
  BY <1>2, <1>3, ReturnTyped, FailTyped DEF Fail, FileThere, EngineTyped, DirectoryTyped
<1>4. CASE /\ ~\E e \in Entries : Has(disk[c], e)
           /\ disk' = [disk EXCEPT ![c] = NoDirectory] /\ Succeed(w)
  <2>1. disk[c].docs = NoFile
    <3>1. "docs" \in Entries
      BY DEF Entries
    <3>2. Has(disk[c], "docs") = (disk[c].docs # NoFile)
      BY DEF Has
    <3> QED  BY <1>4, <3>1, <3>2
  <2>2. \A f \in Collections : disk'[f] = IF f = c THEN NoDirectory ELSE disk[f]
    BY <1>1, <1>4 DEF Shape
  <2>3. \A f \in Collections : FileThere(f) => FileThere(f)'
    BY <2>1, <2>2 DEF FileThere
  <2>4. \A f \in Collections : DirectoryTyped(f)'
    <3>1. /\ NoDirectory.exists \in BOOLEAN /\ NoDirectory.wal \in BOOLEAN
          /\ NoDirectory.meta \in {"absent", "empty", "full"}
          /\ NoDirectory.docs \in Seq(FileLines) \cup {NoFile}
          /\ NoDirectory.segments \subseteq Docs
      BY DEF NoDirectory
    <3> HIDE DEF NoDirectory
    <3> QED  BY <2>2, <3>1 DEF EngineTyped, DirectoryTyped
  <2>5. EngineTyped'
    BY <1>2, <2>4 DEF EngineTyped
  <2>6. HandlersTyped'
    BY <1>4, <2>3, ReturnTyped DEF Succeed
  <2> QED  BY <1>1, <1>4, <2>5, <2>6, SucceedTyped
<1> QED  BY <1>3, <1>4 DEF RemoveDirectory

LEMMA ReceiveTyped ==
  ASSUME TypeInv, PromiseInv, NEW w \in Workers, NEW r \in Requests, Receive(w, r)
  PROVE  TypeInv'
<1> USE DEF TypeInv, PromiseInv
<1>1. ValidRequest(r) /\ pc[w] = "idle"
  BY ReceiveStep DEF Receive
<1>2. UNCHANGED <<up, open, managed, buffer, disk, item, lines, pos, linked>>
  BY DEF Receive
<1>3. EngineTyped'
  BY <1>2 DEF EngineTyped, DirectoryTyped
<1>4. /\ req' = [req EXCEPT ![w] = r]
      /\ todo' = [todo EXCEPT ![w] = IF r.op = "delete" THEN r.keys ELSE r.docs]
      /\ pc' = [pc EXCEPT ![w] = "apply"]
  BY DEF Receive, Goto
<1>5. HandlerTyped(w)'
  BY <1>1, <1>2, <1>4 DEF HandlersTyped, HandlerTyped, Shape, ValidRequest
<1>6. \A v \in Workers \ {w} : pc'[v] = pc[v] /\ req'[v] = req[v] /\ todo'[v] = todo[v]
  BY <1>4 DEF HandlersTyped, Shape
<1>7. pc' \in [Workers -> Labels]
  BY <1>4 DEF HandlersTyped, Labels
<1>8. HandlersTyped'
  BY <1>2, <1>5, <1>6, <1>7, OthersTyped DEF HandlersTyped, FileThere
<1>9. Touches(r) \subseteq Keys \cup {"collection"}
  BY <1>1 DEF Touches, ValidRequest
<1>10. sure' \in [Workers -> SUBSET (Keys \cup {"collection"})]
  <2> DEFINE others == {v \in Workers : pc[v] # "idle" /\ Coll(v) = r.coll}
             taken == UNION {Touches(req[o]) : o \in others}
  <2>1. sure' = [v \in Workers |->
                   IF v = w THEN Touches(r) \ taken
                   ELSE IF v \in others THEN sure[v] \ Touches(r) ELSE sure[v]]
    BY DEF Receive
  <2> HIDE DEF taken, others
  <2> QED  BY <1>9, <2>1 DEF RepliesTyped
<1>11. fate' \in [Collections -> [Keys -> Docs \cup {"absent", "unknown"}]]
  BY <1>1 DEF Receive, RepliesTyped, ValidRequest
<1>12. promise' \in [Collections -> {"none", "create", "drop"}]
  BY DEF Receive, RepliesTyped
<1> QED  BY <1>3, <1>8, <1>10, <1>11, <1>12 DEF RepliesTyped

LEMMA CrashTyped ==
  ASSUME TypeInv, Crash
  PROVE  TypeInv'
<1> USE DEF TypeInv
<1>1. EngineTyped'
  BY DEF Crash, EngineTyped, DirectoryTyped
<1>2. \A w \in Workers : HandlerTyped(w)'
  BY DEF Crash, HandlerTyped, NoRequest
<1>3. HandlersTyped'
  BY <1>2 DEF Crash, HandlersTyped, Labels
<1>4. RepliesTyped'
  BY DEF Crash, RepliesTyped
<1> QED  BY <1>1, <1>3, <1>4

LEMMA RestartTyped ==
  ASSUME TypeInv, PromiseInv, Restart
  PROVE  TypeInv'
<1> USE DEF TypeInv, PromiseInv
<1>1. PICK L \in LoadSets :
       /\ open' = {c \in L : disk[c].meta = "full"}
       /\ managed' = open'
       /\ buffer' = [c \in Collections |-> IF c \in open' THEN Loaded(c).buffer ELSE {}]
       /\ disk' = [c \in Collections |->
                     IF c \in open'
                       THEN [disk[c] EXCEPT !.segments = Loaded(c).segments, !.wal = TRUE]
                       ELSE disk[c]]
  BY DEF Restart
<1>2. L \subseteq Directories
  BY DEF LoadSets
<1>3. open' \subseteq Collections /\ \A c \in open' : disk[c].exists
  BY <1>1, <1>2 DEF Directories
<1>4. \A c \in Collections : Loaded(c).buffer \subseteq Docs /\ Loaded(c).segments \subseteq Docs
  BY LoadedType DEF EngineTyped, DirectoryTyped
<1>5. buffer' \in [Collections -> SUBSET Docs]
  BY <1>1, <1>4
<1>6. ASSUME NEW c \in Collections
      PROVE  DirectoryTyped(c)' /\ (FileThere(c) => FileThere(c)')
  <2>1. DirectoryTyped(c) /\ DOMAIN disk[c] = Fields
    BY DEF EngineTyped, Shape
  <2>2. CASE c \notin open'
    BY <1>1, <2>1, <2>2 DEF DirectoryTyped, FileThere
  <2>3. CASE c \in open'
    <3>1. disk'[c] = [disk[c] EXCEPT !.segments = Loaded(c).segments, !.wal = TRUE]
      BY <1>1, <2>3
    <3> QED  BY <1>3, <1>4, <2>1, <2>3, <3>1 DEF DirectoryTyped, FileThere, Fields
  <2> QED  BY <2>2, <2>3
<1>7. EngineTyped'
  BY <1>1, <1>3, <1>5, <1>6 DEF Restart, EngineTyped
<1>8. UNCHANGED <<pc, req, todo, item, lines, pos, linked, sure, fate, promise>>
  BY DEF Restart, handlerVars, clientVars
<1>9. RepliesTyped'
  BY <1>8 DEF RepliesTyped
<1>10. \A w \in Workers : pc[w] # "write"
  BY DEF Restart, Places, PlaceOK
<1>11. HandlersTyped'
  BY <1>8, <1>10 DEF HandlersTyped, HandlerTyped
<1> QED  BY <1>7, <1>9, <1>11

LEMMA TypeInit == ASSUME Init PROVE TypeInv
<1>1. EngineTyped
  <2>1. \A c \in Collections : DirectoryTyped(c)
    BY DEF Init, DirectoryTyped, NoDirectory
  <2> QED  BY <2>1 DEF Init, EngineTyped
<1>2. \A w \in Workers : HandlerTyped(w)
  BY DEF Init, HandlerTyped, NoRequest
<1>3. HandlersTyped
  BY <1>2 DEF Init, HandlersTyped, Labels
<1>4. RepliesTyped
  BY DEF Init, RepliesTyped
<1> QED  BY <1>1, <1>3, <1>4 DEF TypeInv

LEMMA TypeStep ==
  ASSUME TypeInv, PromiseInv, [Next]_vars
  PROVE  TypeInv'
<1>1. ASSUME NEW w \in Workers, NEW r \in Requests, Receive(w, r) PROVE TypeInv'
  BY <1>1, ReceiveTyped
<1>2. ASSUME NEW w \in Workers, HandlerStep(w) PROVE TypeInv'
  <2>1. CASE CreateCollection(w) \/ OpenWal(w) \/ LoadSegments(w)
               \/ SaveCollection(w) \/ WriteMeta(w)
    BY <2>1, CreateCollectionTyped, OpenWalTyped, LoadSegmentsTyped, SaveCollectionTyped,
       WriteMetaTyped
  <2>2. CASE InsertDocument(w) \/ DeleteDocument(w)
    BY <2>2, InsertDocumentTyped, DeleteDocumentTyped
  <2>3. CASE SaveDocument(w) \/ RemoveDocument(w) \/ TruncateFile(w)
               \/ WriteLine(w) \/ FileWritten(w)
    BY <2>3, SaveDocumentTyped, RemoveDocumentTyped, TruncateFileTyped, WriteLineTyped,
       FileWrittenTyped
  <2>4. CASE DeleteCollection(w) \/ ListDirectory(w) \/ RemoveEntry(w) \/ RemoveDirectory(w)
    BY <2>4, DeleteCollectionTyped, ListDirectoryTyped, RemoveEntryTyped, RemoveDirectoryTyped
  <2> QED  BY <1>2, <2>1, <2>2, <2>3, <2>4 DEF HandlerStep
<1>3. CASE Crash
  BY <1>3, CrashTyped
<1>4. CASE Restart
  BY <1>4, RestartTyped
<1>5. CASE UNCHANGED vars
  BY <1>5 DEF vars, handlerVars, clientVars, TypeInv, EngineTyped, HandlersTyped, RepliesTyped,
              DirectoryTyped, HandlerTyped, FileThere, Coll
<1> QED  BY <1>1, <1>2, <1>3, <1>4, <1>5 DEF Next

\* Whatever handlers, kills and restarts do, the state has its types: a document
\* that a restart reads back from documents.jsonl is one a client sent, a handler
\* writes within its list, and a directory that is not there has nothing in it
\* (persistence.rs, save_document, delete_document, load_collection).
THEOREM NodeTypes == Spec => []NodeTypeOK
<1>1. Init => TypeInv
  BY TypeInit
<1>2. TypeInv /\ PromiseInv /\ [Next]_vars => TypeInv'
  BY TypeStep
<1>3. TypeInv => NodeTypeOK
  BY TypeInvTypes
<1> QED  BY <1>1, <1>2, <1>3, PromisesInvariant, PTL DEF Spec

-----------------------------------------------------------------------------
(* One request at a time.                                                   *)

OneHandler == \A v, w \in Workers : v = w

FileOf(c) == IF disk[c].docs = NoFile THEN <<>> ELSE disk[c].docs

HasLine(list, d) == \E i \in 1..Len(list) : list[i] = d
NoLine(list, k)  == \A i \in 1..Len(list) : KeyOf[list[i]] # k

\* A list of lines that says nothing false about the replies ...
Truthful(c, list) ==
  /\ list \in Seq(Docs)
  /\ Apart(list)
  /\ \A k \in Keys : fate[c][k] = "absent" => NoLine(list, k)

\* ... and one that leaves out nothing.
Complete(c, list) ==
  \A k \in Keys : fate[c][k] \in Docs \ BulkDocs => HasLine(list, fate[c][k])

Rewriting(w) == pc[w] \in {"truncate", "write"}

\* What a handler has in hand while the file does not say it.
RewriteOK(w) ==
  LET c == Coll(w)
  IN  /\ disk[c].exists
      /\ Truthful(c, lines[w])
      /\ crashes = 0 => Complete(c, lines[w])
      /\ req[w].op = "insert" => HasLine(lines[w], item[w])
      /\ req[w].op = "delete" => \A k \in req[w].keys \ todo[w] : NoLine(lines[w], k)
      /\ pc[w] = "write" => /\ linked[w]
                            /\ Len(FileOf(c)) = pos[w] - 1
                            /\ \A i \in 1..(pos[w] - 1) : FileOf(c)[i] = lines[w][i]

HandlerFileOK(w) ==
  /\ req[w].op = "bulk" => req[w].docs \subseteq BulkDocs
  /\ req[w].op = "insert" /\ pc[w] \in {"read", "truncate", "write"}
       => req[w].docs = {item[w]}
  /\ req[w].op = "delete" =>
       \A k \in req[w].keys \ todo[w] :
         (pc[w] \in {"read", "truncate"} /\ k = item[w]) \/ NoLine(FileOf(Coll(w)), k)
  /\ req[w].op = "delete" /\ pc[w] \in {"read", "truncate"} => item[w] \in req[w].keys
  /\ Rewriting(w) => RewriteOK(w)

FileInv ==
  /\ \A c \in Collections : Truthful(c, FileOf(c))
  /\ crashes = 0 => \A c \in Collections :
        (\A w \in Workers : Rewriting(w) => Coll(w) # c) => Complete(c, FileOf(c))
  /\ \A w \in Workers : HandlerFileOK(w)

\* What is known before a step.
Before == OneHandler /\ PromiseInv /\ TypeInv /\ Fates /\ FileInv

LEMMA FileOfDocs ==
  ASSUME NEW c, Truthful(c, FileOf(c))
  PROVE  /\ Parsed(disk[c].docs) = FileOf(c)
         /\ disk[c].docs # NoFile => disk[c].docs = FileOf(c)
<1>1. CASE disk[c].docs = NoFile
  BY <1>1 DEF Parsed, FileOf
<1>2. CASE disk[c].docs # NoFile
  BY <1>2, ParsedWhole DEF Truthful, FileOf
<1> QED  BY <1>1, <1>2

\* The lines of a part of the file that is kept.
LEMMA OnlyTruthful ==
  ASSUME NEW c, NEW list, Truthful(c, list), NEW S
  PROVE  /\ Truthful(c, Only(list, S))
         /\ \A i \in 1..Len(Only(list, S)) : Only(list, S)[i] \in S
         /\ \A k : NoLine(list, k) => NoLine(Only(list, S), k)
         /\ \A d \in S : HasLine(list, d) => HasLine(Only(list, S), d)
<1>1. list \in Seq(Docs)
  BY DEF Truthful
<1>2. Only(list, S) \in Seq(Docs \cap S)
  BY <1>1, OnlyType
<1>3. \A i \in 1..Len(Only(list, S)) : \E j \in 1..Len(list) : Only(list, S)[i] = list[j]
  BY <1>1, OnlyLines
<1>4. \A j \in 1..Len(list) : list[j] \in S => \E i \in 1..Len(Only(list, S)) : Only(list, S)[i] = list[j]
  BY <1>1, OnlyLines
<1>5. Apart(Only(list, S))
  BY <1>1, OnlyApart DEF Truthful
<1> DEFINE r == Only(list, S)
<1>6. r \in Seq(Docs) /\ \A i \in 1..Len(r) : r[i] \in S
  <2> HIDE DEF r
  <2>1. r \in Seq(Docs \cap S)
    BY <1>2 DEF r
  <2> QED  BY <2>1
<1>7. ASSUME NEW k, NoLine(list, k) PROVE NoLine(r, k)
  BY <1>3, <1>7 DEF NoLine
<1>8. ASSUME NEW d \in S, HasLine(list, d) PROVE HasLine(r, d)
  BY <1>4, <1>8 DEF HasLine
<1>9. \A k \in Keys : fate[c][k] = "absent" => NoLine(r, k)
  BY <1>7 DEF Truthful
<1> QED  BY <1>5, <1>6, <1>7, <1>8, <1>9 DEF Truthful

\* A list truthful to the replies stays so as the file grows along it.
LEMMA PrefixTruthful ==
  ASSUME NEW c, NEW list, Truthful(c, list), NEW file \in Seq(Docs),
         Len(file) <= Len(list), \A i \in 1..Len(file) : file[i] = list[i]
  PROVE  Truthful(c, file) /\ \A k : NoLine(list, k) => NoLine(file, k)
<1>1. list \in Seq(Docs) /\ Len(list) \in Nat /\ Len(file) \in Nat
  BY DEF Truthful
<1>2. \A i \in 1..Len(file) : i \in 1..Len(list)
  BY <1>1
<1>3. Apart(file)
  BY <1>2 DEF Truthful, Apart
<1>4. \A k : NoLine(list, k) => NoLine(file, k)
  BY <1>2 DEF NoLine
<1> QED  BY <1>3, <1>4 DEF Truthful

\* A step that leaves the files and the replies as they are, and is no part of
\* a rewriting.
LEMMA StaysFile ==
  ASSUME Before, NEW w \in Workers, ~Rewriting(w), ~Rewriting(w)',
         UNCHANGED <<fate, crashes>>,
         \A c \in Collections : FileOf(c)' = FileOf(c),
         HandlerFileOK(w)'
  PROVE  FileInv'
<1>1. \A v \in Workers : v = w
  BY DEF Before, OneHandler
<1>2. ASSUME NEW c \in Collections
      PROVE  Truthful(c, FileOf(c))' /\ (crashes = 0 => Complete(c, FileOf(c)))'
  <2>1. Truthful(c, FileOf(c)) /\ (crashes = 0 => Complete(c, FileOf(c)))
    BY <1>1 DEF Before, FileInv
  <2> QED  BY <2>1 DEF Truthful, Complete
<1> QED  BY <1>1, <1>2 DEF FileInv

\* A reply: what it promises, the file says.
LEMMA ReplyFile ==
  ASSUME Before, NEW w \in Workers, Ends(w), Failed \/ Succeeded(w),
         \A c \in Collections : FileOf(c)' = FileOf(c),
         crashes = 0 => \A c \in Collections : Complete(c, FileOf(c)),
         req[w].op \in {"delete", "drop"} =>
           \A k \in req[w].keys : NoLine(FileOf(Coll(w)), k),
         req[w].op = "insert" => \A d \in req[w].docs : HasLine(FileOf(Coll(w)), d)
  PROVE  FileInv'
<1> DEFINE r == req[w]
<1>1. \A v \in Workers : v = w
  BY DEF Before, OneHandler
<1>2. ValidRequest(r) /\ (r.op = "bulk" => r.docs \subseteq BulkDocs)
  BY DEF Before, PromiseInv, Places, PlaceOK, Ends, Active, FileInv, HandlerFileOK
<1>3. ASSUME NEW c \in Collections, NEW k \in Keys
      PROVE  \/ fate'[c][k] = fate[c][k]
             \/ c = Coll(w) /\ k \in r.keys /\ fate'[c][k] = OutcomeOf(r, k)
  BY DEF Failed, Succeeded
<1>4. ASSUME NEW k \in r.keys, OutcomeOf(r, k) = "absent"
      PROVE  NoLine(FileOf(Coll(w)), k)
  <2>1. CASE r.op \in {"insert", "bulk"}
    <3>1. \E d \in r.docs : KeyOf[d] = k
      BY <1>2, <1>4, <2>1 DEF ValidRequest
    <3>2. OutcomeOf(r, k) \in Docs
      BY <1>2, <2>1, <3>1 DEF OutcomeOf, ValidRequest
    <3> QED  BY <1>4, <3>2, NamesAssumption
  <2>2. CASE r.op \notin {"insert", "bulk"}
    BY <1>2, <1>4, <2>2 DEF ValidRequest
  <2> QED  BY <2>1, <2>2
<1>5. ASSUME NEW k \in r.keys, OutcomeOf(r, k) \in Docs \ BulkDocs
      PROVE  HasLine(FileOf(Coll(w)), OutcomeOf(r, k))
  <2>1. r.op \in {"insert", "bulk"}
    BY <1>5, NamesAssumption DEF OutcomeOf
  <2>2. \E d \in r.docs : KeyOf[d] = k
    BY <1>2, <1>5, <2>1 DEF ValidRequest
  <2>3. OutcomeOf(r, k) \in r.docs
    BY <2>1, <2>2 DEF OutcomeOf
  <2> QED  BY <1>2, <1>5, <2>1, <2>3
<1>6. ASSUME NEW c \in Collections
      PROVE  Truthful(c, FileOf(c))' /\ (crashes = 0 => Complete(c, FileOf(c)))'
  <2>1. Truthful(c, FileOf(c)) /\ (crashes = 0 => Complete(c, FileOf(c)))
    BY DEF Before, FileInv
  <2>2. \A k \in Keys : fate'[c][k] = "absent" => NoLine(FileOf(c), k)
    BY <1>3, <1>4, <2>1 DEF Truthful
  <2>3. crashes = 0 => \A k \in Keys : fate'[c][k] \in Docs \ BulkDocs => HasLine(FileOf(c), fate'[c][k])
    BY <1>3, <1>5, <2>1 DEF Complete
  <2>4. crashes' = crashes /\ FileOf(c)' = FileOf(c)
    BY DEF Ends, Frame
  <2> QED  BY <2>1, <2>2, <2>3, <2>4 DEF Truthful, Complete
<1>7. HandlerFileOK(w)'
  BY DEF Ends, Active, NoRequest, HandlerFileOK, Rewriting
<1> QED  BY <1>1, <1>6, <1>7 DEF FileInv

\* A handler outside a rewriting finds complete files.
LEMMA FilesComplete ==
  ASSUME Before, NEW w \in Workers, ~Rewriting(w), crashes = 0
  PROVE  \A c \in Collections : Complete(c, FileOf(c))
  BY DEF Before, OneHandler, FileInv

-----------------------------------------------------------------------------
(* Each step keeps the file true to the replies.                            *)

\* The directory steps of a creation or a drop, but for the removal of the file.
LEMMA CollectionFile ==
  ASSUME Before, NEW w \in Workers, Stays(w), ~Rewriting(w), ~Rewriting(w)',
         req[w].op \in {"create", "drop"},
         \A c \in Collections : disk'[c].docs = disk[c].docs
  PROVE  FileInv'
<1>1. HandlerFileOK(w)'
  BY DEF Stays, HandlerFileOK
<1>2. \A c \in Collections : FileOf(c)' = FileOf(c)
  BY DEF FileOf
<1> QED  BY <1>1, <1>2, StaysFile DEF Stays, Frame

LEMMA CreationFile ==
  ASSUME Before, NEW w \in Workers,
         CreateCollection(w) \/ OpenWal(w) \/ LoadSegments(w) \/ SaveCollection(w)
  PROVE  FileInv'
<1> USE DEF Before, PromiseInv
<1>1. Stays(w) /\ pc'[w] \in {"wal", "load", "save", "meta"}
  BY CreateCollectionStep, OpenWalStep, LoadSegmentsStep, SaveCollectionStep
<1>2. pc[w] \in {"apply", "wal", "load", "save"} /\ req[w].op = "create" /\ Coll(w) \in Collections
  BY CollOf DEF CreateCollection, OpenWal, LoadSegments, SaveCollection, Places, PlaceOK
<1>3. \A c \in Collections : disk'[c].docs = disk[c].docs
  BY <1>2 DEF CreateCollection, OpenWal, LoadSegments, SaveCollection, Shape, Fields
<1> QED  BY <1>1, <1>2, <1>3, CollectionFile DEF Rewriting

LEMMA WriteMetaFile ==
  ASSUME Before, NEW w \in Workers, WriteMeta(w)
  PROVE  FileInv'
<1> USE DEF Before, PromiseInv
<1>1. Ends(w) /\ Succeeded(w)
  <2>1. Active(w) /\ Coll(w) \in Collections /\ Succeed(w) /\ UNCHANGED <<up, open, managed, buffer, crashes>>
    BY CollOf DEF WriteMeta, Active
  <2>2. DOMAIN disk' = Collections /\ \A c \in Collections : DOMAIN disk'[c] = Fields
    BY <2>1 DEF WriteMeta, Shape, Fields
  <2> QED  BY <2>1, <2>2, SucceedEnds DEF Shape
<1>2. pc[w] = "meta" /\ req[w].op = "create" /\ Coll(w) \in Collections
  BY CollOf DEF WriteMeta, Places, PlaceOK
<1>3. \A c \in Collections : FileOf(c)' = FileOf(c)
  BY <1>2 DEF WriteMeta, Shape, Fields, FileOf
<1>4. crashes = 0 => \A c \in Collections : Complete(c, FileOf(c))
  BY <1>2, FilesComplete DEF Rewriting
<1> QED  BY <1>1, <1>2, <1>3, <1>4, ReplyFile

LEMMA InsertDocumentFile ==
  ASSUME Before, NEW w \in Workers, InsertDocument(w)
  PROVE  FileInv'
<1> USE DEF Before, PromiseInv
<1>1. /\ pc[w] = "apply" /\ req[w].op \in {"insert", "bulk"} /\ ValidRequest(req[w])
      /\ Coll(w) \in Collections /\ todo[w] \subseteq req[w].docs /\ ~Rewriting(w)
  BY CollOf DEF InsertDocument, Places, PlaceOK, Rewriting
<1>2. \A c \in Collections : FileOf(c)' = FileOf(c)
  BY <1>1 DEF InsertDocument, Shape, Fields, FileOf
<1>3. DataStep(w)
  BY InsertDocumentStep
<1>4. HandlerFileOK(w)
  BY DEF FileInv
<1>5. PICK d \in todo[w] :
        IF req[w].op = "insert"
          THEN /\ Goto(w, "read")
               /\ item' = [item EXCEPT ![w] = d]
               /\ UNCHANGED req
          ELSE IF todo[w] = {d} THEN Succeed(w) ELSE UNCHANGED <<req, pc>>
  BY DEF InsertDocument
<1>6. CASE req[w].op = "insert"
  <2>1. pc'[w] = "read" /\ item'[w] = d /\ req'[w] = req[w]
    BY <1>5, <1>6 DEF Goto, TypeInv, HandlersTyped
  <2>2. req[w].docs = {d}
    BY <1>1, <1>5, <1>6 DEF ValidRequest
  <2>3. HandlerFileOK(w)' /\ ~Rewriting(w)'
    BY <1>6, <2>1, <2>2 DEF HandlerFileOK, Rewriting
  <2>4. UNCHANGED <<fate, crashes>>
    BY <1>3, <2>1 DEF DataStep, Stays, Ends, Frame, Active
  <2> QED  BY <1>1, <1>2, <2>3, <2>4, StaysFile
<1>7. CASE req[w].op = "bulk"
  <2>1. CASE Ends(w)
    <3>1. Failed \/ Succeeded(w)
      BY <1>3, <2>1 DEF DataStep, Stays, Ends
    <3>2. crashes = 0 => \A c \in Collections : Complete(c, FileOf(c))
      BY <1>1, FilesComplete
    <3> QED  BY <1>2, <1>7, <2>1, <3>1, <3>2, ReplyFile
  <2>2. CASE Stays(w)
    <3>1. pc'[w] = "apply" /\ req'[w] = req[w]
      BY <1>1, <1>5, <1>7, <2>2 DEF Stays, Succeed, Return, Goto, Active, Shape
    <3>2. HandlerFileOK(w)' /\ ~Rewriting(w)'
      BY <1>4, <1>7, <3>1 DEF HandlerFileOK, Rewriting
    <3> QED  BY <1>1, <1>2, <2>2, <3>2, StaysFile DEF Stays, Frame
  <2> QED  BY <1>3, <2>1, <2>2 DEF DataStep
<1> QED  BY <1>1, <1>6, <1>7

LEMMA DeleteDocumentFile ==
  ASSUME Before, NEW w \in Workers, DeleteDocument(w)
  PROVE  FileInv'
<1> USE DEF Before, PromiseInv
<1>1. /\ pc[w] = "apply" /\ req[w].op = "delete" /\ Coll(w) \in Collections
      /\ todo[w] \subseteq req[w].keys /\ HandlerFileOK(w)
  BY CollOf DEF DeleteDocument, Places, PlaceOK, FileInv
<1>2. PICK k \in todo[w] : /\ todo' = [todo EXCEPT ![w] = @ \ {k}]
                           /\ item' = [item EXCEPT ![w] = k]
  BY DEF DeleteDocument
<1>3. /\ pc' = [pc EXCEPT ![w] = "read"]
      /\ UNCHANGED <<disk, req, fate, crashes>>
  BY DEF DeleteDocument, Goto, clientVars
<1>4. pc'[w] = "read" /\ todo'[w] = todo[w] \ {k} /\ item'[w] = k
  BY <1>2, <1>3 DEF Shape, TypeInv, HandlersTyped
<1>5. \A c : FileOf(c)' = FileOf(c)
  BY <1>3 DEF FileOf
<1>6. HandlerFileOK(w)'
  BY <1>1, <1>3, <1>4, <1>5 DEF HandlerFileOK, Rewriting, Coll
<1> QED  BY <1>1, <1>3, <1>4, <1>5, <1>6, StaysFile DEF Rewriting

\* A request for k is under way: nothing is promised of k.
LEMMA Unpromised ==
  ASSUME Before, NEW w \in Workers, Active(w), NEW k \in req[w].keys
  PROVE  k \in Keys /\ fate[Coll(w)][k] = "unknown"
  BY DEF Before, PromiseInv, Places, PlaceOK, Active, ValidRequest, Fates

\* A handler that has read the file, without the lines of some id it is asked
\* for, may write it.
LEMMA ReadComplete ==
  ASSUME Before, NEW w \in Workers, Active(w), ~Rewriting(w), crashes = 0,
         NEW k \in req[w].keys
  PROVE  Complete(Coll(w), Only(FileOf(Coll(w)), VersionsNotOf(k)))
<1> USE DEF Before, PromiseInv
<1> DEFINE c == Coll(w)
<1>1. c \in Collections
  BY CollOf DEF Active
<1>2. Complete(c, FileOf(c)) /\ Truthful(c, FileOf(c))
  BY <1>1, FilesComplete DEF FileInv
<1>3. k \in Keys /\ fate[c][k] = "unknown"
  BY Unpromised
<1>4. ASSUME NEW j \in Keys, fate[c][j] \in Docs \ BulkDocs
      PROVE  HasLine(Only(FileOf(c), VersionsNotOf(k)), fate[c][j])
  <2>1. KeyOf[fate[c][j]] = j /\ j # k
    BY <1>1, <1>3, <1>4, NamesAssumption DEF Fates
  <2>2. fate[c][j] \in VersionsNotOf(k) /\ HasLine(FileOf(c), fate[c][j])
    BY <1>2, <1>4, <2>1 DEF VersionsNotOf, Complete
  <2> QED  BY <1>2, <2>2, OnlyTruthful
<1> QED  BY <1>4 DEF Complete

\* A handler that begins to rewrite the file of its collection.
LEMMA RewriteBegins ==
  ASSUME Before, NEW w \in Workers, ~Rewriting(w), Active(w), pc'[w] = "truncate",
         UNCHANGED <<fate, crashes, req, todo, item>>,
         \A c \in Collections : FileOf(c)' = FileOf(c),
         HandlerFileOK(w)'
  PROVE  FileInv'
<1>1. \A v \in Workers : v = w
  BY DEF Before, OneHandler
<1>2. ASSUME NEW c \in Collections
      PROVE  Truthful(c, FileOf(c))' /\ (crashes = 0 => Complete(c, FileOf(c)))'
  <2>1. Truthful(c, FileOf(c)) /\ (crashes = 0 => Complete(c, FileOf(c)))
    BY FilesComplete DEF Before, FileInv
  <2> QED  BY <2>1 DEF Truthful, Complete
<1> QED  BY <1>1, <1>2 DEF FileInv

LEMMA SaveDocumentFile ==
  ASSUME Before, NEW w \in Workers, SaveDocument(w)
  PROVE  FileInv'
<1> USE DEF Before, PromiseInv
<1> DEFINE c == Coll(w)
           k == KeyOf[item[w]]
           kept == Only(FileOf(c), VersionsNotOf(k))
           list == Append(kept, item[w])
<1>1. /\ pc[w] = "read" /\ req[w].op = "insert" /\ c \in Collections /\ ValidRequest(req[w])
      /\ HandlerFileOK(w) /\ Active(w) /\ ~Rewriting(w) /\ Truthful(c, FileOf(c))
  BY CollOf DEF SaveDocument, FileInv, Active, Rewriting
<1>2. item[w] \in Docs /\ req[w].docs = {item[w]} /\ req[w].keys = {k}
  BY <1>1 DEF HandlerFileOK, ValidRequest
<1>3. k \in Keys /\ fate[c][k] = "unknown"
  BY <1>1, <1>2, Unpromised
<1>4. /\ lines' = [lines EXCEPT ![w] = Append(Only(Parsed(disk[c].docs), VersionsNotOf(k)), item[w])]
      /\ disk' = [disk EXCEPT ![c].exists = TRUE]
      /\ pc' = [pc EXCEPT ![w] = "truncate"]
      /\ UNCHANGED <<req, todo, item, fate, crashes>>
  BY DEF SaveDocument, Goto, clientVars
<1>5. lines'[w] = list /\ pc'[w] = "truncate"
  <2>1. Parsed(disk[c].docs) = FileOf(c)
    BY <1>1, FileOfDocs
  <2> QED  BY <1>4, <2>1 DEF TypeInv, HandlersTyped
<1>6. /\ Truthful(c, kept)
      /\ \A i \in 1..Len(kept) : kept[i] \in VersionsNotOf(k)
      /\ crashes = 0 => Complete(c, kept)
  BY <1>1, <1>2, OnlyTruthful, ReadComplete
<1> HIDE DEF kept
<1>7. /\ kept \in Seq(Docs) /\ Len(kept) \in Nat
      /\ list \in Seq(Docs) /\ Len(list) = Len(kept) + 1
      /\ list[Len(kept) + 1] = item[w] /\ \A i \in 1..Len(kept) : list[i] = kept[i]
  BY <1>2, <1>6 DEF Truthful
<1> HIDE DEF list
<1>8. \A i \in 1..Len(kept) : KeyOf[list[i]] # k
  BY <1>6, <1>7 DEF VersionsNotOf
<1>9. Truthful(c, list)
  <2>1. Apart(list)
    <3> SUFFICES ASSUME NEW i \in 1..Len(list), NEW j \in 1..Len(list),
                        KeyOf[list[i]] = KeyOf[list[j]]
                 PROVE  i = j
      BY DEF Apart
    <3>1. CASE i \in 1..Len(kept) /\ j \in 1..Len(kept)
      BY <1>6, <1>7, <3>1 DEF Truthful, Apart
    <3>2. CASE i # j /\ ~(i \in 1..Len(kept) /\ j \in 1..Len(kept))
      <4>1. \/ i \in 1..Len(kept) /\ j = Len(kept) + 1
            \/ j \in 1..Len(kept) /\ i = Len(kept) + 1
        BY <1>7, <3>2
      <4> QED  BY <1>7, <1>8, <4>1
    <3> QED  BY <3>1, <3>2
  <2>2. ASSUME NEW j \in Keys, fate[c][j] = "absent" PROVE NoLine(list, j)
    <3>1. NoLine(kept, j) /\ j # k
      BY <1>3, <1>6, <2>2 DEF Truthful
    <3> QED  BY <1>7, <3>1 DEF NoLine
  <2> QED  BY <1>7, <2>1, <2>2 DEF Truthful
<1>10. crashes = 0 => Complete(c, list)
  BY <1>6, <1>7 DEF Complete, HasLine
<1>11. HasLine(list, item[w])
  BY <1>7 DEF HasLine
<1>12. \A e \in Collections : FileOf(e)' = FileOf(e)
  BY <1>1, <1>4 DEF FileOf, Shape, Fields
<1>13. disk'[c].exists /\ Coll(w)' = c
  BY <1>1, <1>4 DEF Shape, Fields, Coll
<1>14. RewriteOK(w)'
  BY <1>1, <1>4, <1>5, <1>9, <1>10, <1>11, <1>13 DEF RewriteOK, Truthful, Complete
<1>15. HandlerFileOK(w)'
  BY <1>1, <1>2, <1>4, <1>5, <1>14 DEF HandlerFileOK
<1> QED  BY <1>1, <1>4, <1>5, <1>12, <1>15, RewriteBegins

\* A handler has done with the file, which says what its request asked for.
LEMMA NextIdFile ==
  ASSUME Before, NEW w \in Workers, pc[w] \in {"read", "truncate", "write"},
         NextId(w), UNCHANGED <<up, open, managed, buffer, disk, crashes>>,
         crashes = 0 => \A c \in Collections : Complete(c, FileOf(c)),
         req[w].op = "delete" =>
           \A k \in req[w].keys \ todo[w] : NoLine(FileOf(Coll(w)), k),
         req[w].op = "insert" => \A d \in req[w].docs : HasLine(FileOf(Coll(w)), d)
  PROVE  FileInv'
<1> USE DEF Before, PromiseInv
<1>1. \/ Stays(w) /\ pc'[w] = "apply" /\ todo'[w] = todo[w]
      \/ Ends(w) /\ Succeeded(w) /\ todo[w] = {}
  <2>1. DOMAIN disk' = Collections /\ (\A c \in Collections : DOMAIN disk'[c] = Fields)
          /\ DOMAIN buffer' = Collections
    BY DEF Shape
  <2> QED  BY <2>1, NextIdStep
<1>2. \A c : FileOf(c)' = FileOf(c)
  BY DEF FileOf
<1>3. req[w].op \in {"insert", "delete"}
  BY DEF Places, PlaceOK
<1>4. CASE Ends(w) /\ Succeeded(w) /\ todo[w] = {}
  BY <1>2, <1>3, <1>4, ReplyFile
<1>5. CASE Stays(w) /\ pc'[w] = "apply" /\ todo'[w] = todo[w]
  <2>1. UNCHANGED <<fate, crashes>> /\ req'[w] = req[w]
    BY <1>5 DEF Stays, Frame
  <2>2. HandlerFileOK(w)'
    BY <1>2, <1>3, <1>5, <2>1 DEF HandlerFileOK, Rewriting, Coll
  <2>3. \A v \in Workers : v = w
    BY DEF OneHandler
  <2>4. ASSUME NEW c \in Collections
        PROVE  Truthful(c, FileOf(c))' /\ (crashes = 0 => Complete(c, FileOf(c)))'
    <3>1. Truthful(c, FileOf(c)) /\ (crashes = 0 => Complete(c, FileOf(c)))
      BY DEF FileInv
    <3> QED  BY <1>2, <2>1, <3>1 DEF Truthful, Complete
  <2> QED  BY <2>2, <2>3, <2>4 DEF FileInv
<1> QED  BY <1>1, <1>4, <1>5

LEMMA RemoveDocumentFile ==
  ASSUME Before, NEW w \in Workers, RemoveDocument(w)
  PROVE  FileInv'
<1> USE DEF Before, PromiseInv
<1> DEFINE c == Coll(w)
           k == item[w]
           kept == Only(FileOf(c), VersionsNotOf(k))
<1>1. /\ pc[w] = "read" /\ req[w].op = "delete" /\ c \in Collections /\ ValidRequest(req[w])
      /\ HandlerFileOK(w) /\ Active(w) /\ ~Rewriting(w) /\ Truthful(c, FileOf(c))
      /\ UNCHANGED <<up, open, managed, buffer, disk, crashes>>
  BY CollOf DEF RemoveDocument, FileInv, Active, Rewriting
<1>2. k \in req[w].keys
        /\ \A j \in req[w].keys \ todo[w] : j = k \/ NoLine(FileOf(c), j)
  BY <1>1 DEF HandlerFileOK
<1>3. CASE disk[c].docs = NoFile
  <2>1. NextId(w)
    BY <1>3 DEF RemoveDocument
  <2>2. \A j : NoLine(FileOf(c), j)
    BY <1>3 DEF FileOf, NoLine
  <2> QED  BY <1>1, <2>1, <2>2, FilesComplete, NextIdFile
<1>4. CASE disk[c].docs # NoFile
  <2>1. /\ lines' = [lines EXCEPT ![w] = Only(Parsed(disk[c].docs), VersionsNotOf(k))]
        /\ pc' = [pc EXCEPT ![w] = "truncate"]
        /\ UNCHANGED <<req, todo, item, fate>>
    BY <1>4 DEF RemoveDocument, Goto, clientVars
  <2>2. lines'[w] = kept /\ pc'[w] = "truncate"
    <3>1. Parsed(disk[c].docs) = FileOf(c)
      BY <1>1, FileOfDocs
    <3> QED  BY <2>1, <3>1 DEF TypeInv, HandlersTyped
  <2>3. /\ Truthful(c, kept)
        /\ \A i \in 1..Len(kept) : kept[i] \in VersionsNotOf(k)
        /\ \A j : NoLine(FileOf(c), j) => NoLine(kept, j)
        /\ crashes = 0 => Complete(c, kept)
    BY <1>1, <1>2, OnlyTruthful, ReadComplete
  <2> HIDE DEF kept
  <2>4. NoLine(kept, k)
    BY <2>3 DEF NoLine, VersionsNotOf
  <2>5. \A j \in req[w].keys \ todo[w] : NoLine(kept, j)
    BY <1>2, <2>3, <2>4
  <2>6. disk[c].exists
    BY <1>1, <1>4 DEF TypeInv, EngineTyped, DirectoryTyped, NoDirectory
  <2>7. \A e : FileOf(e)' = FileOf(e)
    BY <1>1 DEF FileOf
  <2>8. RewriteOK(w)'
    BY <1>1, <2>1, <2>2, <2>3, <2>5, <2>6 DEF RewriteOK, Truthful, Complete, Coll
  <2>9. HandlerFileOK(w)'
    BY <1>1, <1>2, <2>1, <2>2, <2>7, <2>8 DEF HandlerFileOK, Coll
  <2> QED  BY <1>1, <2>1, <2>2, <2>7, <2>9, RewriteBegins
<1> QED  BY <1>3, <1>4

\* A step within a rewriting: the file is a part of what the handler has in hand.
LEMMA RewriteGoesOn ==
  ASSUME Before, NEW w \in Workers, Rewriting(w), pc'[w] = "write", linked'[w],
         UNCHANGED <<fate, crashes, req, todo, item, lines>>,
         \A c \in Collections : disk'[c].exists = disk[c].exists,
         \A c \in Collections : c # Coll(w) => FileOf(c)' = FileOf(c),
         NEW file \in Seq(Docs), \A c \in Collections : c = Coll(w) => FileOf(c)' = file,
         Len(file) = pos'[w] - 1, Len(file) <= Len(lines[w]),
         \A i \in 1..Len(file) : file[i] = lines[w][i]
  PROVE  FileInv'
<1> USE DEF Before, PromiseInv
<1> DEFINE c == Coll(w)
<1>1. c \in Collections /\ \A v \in Workers : v = w
  BY CollOf DEF Rewriting, OneHandler
<1>2. RewriteOK(w) /\ HandlerFileOK(w)
  BY DEF FileInv, HandlerFileOK
<1>3. Truthful(c, file) /\ \A k : NoLine(lines[w], k) => NoLine(file, k)
  BY <1>2, PrefixTruthful DEF RewriteOK
<1>4. ASSUME NEW e \in Collections
      PROVE  Truthful(e, FileOf(e))'
  <2>1. CASE e = c
    BY <1>3, <2>1 DEF Truthful
  <2>2. CASE e # c
    BY <2>2 DEF FileInv, Truthful
  <2> QED  BY <2>1, <2>2
<1>5. ASSUME NEW e \in Collections, crashes = 0, e # c
      PROVE  Complete(e, FileOf(e))'
  BY <1>1, <1>5 DEF FileInv, Complete
<1>6. RewriteOK(w)'
  <2>1. \A e \in Collections : e = c => FileOf(e)' = file /\ disk'[e].exists
    BY <1>2 DEF RewriteOK
  <2>2. Coll(w)' = c /\ FileOf(Coll(w))' = file /\ disk'[c].exists
    BY <1>1, <2>1 DEF Coll, FileOf
  <2> QED  BY <1>2, <2>2 DEF RewriteOK, Truthful, Complete
<1>7. HandlerFileOK(w)'
  <2>1. FileOf(Coll(w))' = file
    BY <1>1 DEF Coll, FileOf
  <2>2. req[w].op = "delete" => \A k \in req[w].keys \ todo[w] : NoLine(file, k)
    BY <1>2, <1>3 DEF RewriteOK
  <2>3. req[w].op = "insert" => req[w].docs = {item[w]}
    BY <1>2 DEF HandlerFileOK, Rewriting
  <2> QED  BY <1>2, <1>6, <2>1, <2>2, <2>3 DEF HandlerFileOK, Rewriting
<1>8. Rewriting(w)' /\ Coll(w)' = c
  BY DEF Rewriting, Coll
<1> QED  BY <1>1, <1>4, <1>5, <1>7, <1>8 DEF FileInv

LEMMA TruncateFileFile ==
  ASSUME Before, NEW w \in Workers, TruncateFile(w)
  PROVE  FileInv'
<1> USE DEF Before, PromiseInv
<1> DEFINE c == Coll(w)
<1>1. pc[w] = "truncate" /\ Rewriting(w) /\ c \in Collections /\ disk[c].exists
  BY CollOf DEF TruncateFile, Rewriting, FileInv, HandlerFileOK, RewriteOK
<1>2. /\ disk' = [disk EXCEPT ![c].docs = <<>>]
      /\ linked' = [linked EXCEPT ![w] = TRUE]
      /\ pos' = [pos EXCEPT ![w] = 1]
      /\ pc' = [pc EXCEPT ![w] = "write"]
      /\ UNCHANGED <<fate, crashes, req, todo, item, lines>>
  BY <1>1 DEF TruncateFile, Goto, clientVars
<1>3. pc'[w] = "write" /\ linked'[w] /\ pos'[w] = 1
  BY <1>2 DEF TypeInv, HandlersTyped
<1>4. \A e \in Collections : /\ disk'[e].exists = disk[e].exists
                             /\ e # c => FileOf(e)' = FileOf(e)
                             /\ e = c => FileOf(e)' = <<>>
  BY <1>1, <1>2 DEF Shape, Fields, FileOf
<1>5. lines[w] \in Seq(Docs)
  BY DEF TypeInv, HandlersTyped, HandlerTyped
<1>6. <<>> \in Seq(Docs) /\ Len(<<>>) = 0
  OBVIOUS
<1>7. Len(<<>>) = pos'[w] - 1 /\ Len(<<>>) <= Len(lines[w])
        /\ \A i \in 1..Len(<<>>) : <<>>[i] = lines[w][i]
  BY <1>3, <1>5, <1>6
<1> QED  BY <1>1, <1>2, <1>3, <1>4, <1>6, <1>7, RewriteGoesOn

LEMMA WriteLineFile ==
  ASSUME Before, NEW w \in Workers, WriteLine(w)
  PROVE  FileInv'
<1> USE DEF Before, PromiseInv
<1> DEFINE c == Coll(w)
           file == Append(FileOf(c), lines[w][pos[w]])
<1>1. pc[w] = "write" /\ Rewriting(w) /\ c \in Collections /\ RewriteOK(w) /\ HandlerTyped(w)
        /\ Truthful(c, FileOf(c))
  BY CollOf DEF WriteLine, Rewriting, FileInv, HandlerFileOK, TypeInv, HandlersTyped
<1>2. /\ linked[w] /\ Len(FileOf(c)) = pos[w] - 1
      /\ \A i \in 1..(pos[w] - 1) : FileOf(c)[i] = lines[w][i]
  BY <1>1 DEF RewriteOK
<1>3. lines[w] \in Seq(Docs) /\ pos[w] \in 1..Len(lines[w]) /\ lines[w][pos[w]] \in Docs
  BY <1>1 DEF HandlerTyped, WriteLine
<1>4. FileOf(c) \in Seq(Docs) /\ disk[c].docs = FileOf(c)
  <2>1. disk[c].docs # NoFile
    BY <1>1, <1>2 DEF HandlerTyped, FileThere
  <2> QED  BY <1>1, <2>1, FileOfDocs DEF Truthful
<1>5. WithLine(disk[c].docs, pos[w], lines[w][pos[w]]) = file
  <2>1. pos[w] = Len(FileOf(c)) + 1
    BY <1>2, <1>3
  <2> QED  BY <1>3, <1>4, <2>1, WithLineEnd
<1>6. /\ file \in Seq(Docs) /\ Len(file) = pos[w] /\ Len(file) <= Len(lines[w])
      /\ \A i \in 1..Len(file) : file[i] = lines[w][i]
  BY <1>2, <1>3, <1>4
<1> HIDE DEF file
<1>7. disk' = [disk EXCEPT ![c].docs = file]
  BY <1>1, <1>2, <1>5 DEF WriteLine, Shape, Fields
<1>8. file # NoFile
  BY <1>6, ParsedWhole
<1>9. \A e \in Collections : /\ disk'[e].exists = disk[e].exists
                             /\ e # c => FileOf(e)' = FileOf(e)
                             /\ e = c => FileOf(e)' = file
  BY <1>1, <1>7, <1>8 DEF Shape, Fields, FileOf
<1>10. /\ pos' = [pos EXCEPT ![w] = @ + 1]
       /\ UNCHANGED <<pc, linked, fate, crashes, req, todo, item, lines>>
  BY DEF WriteLine, clientVars
<1>11. pos'[w] - 1 = Len(file)
  BY <1>3, <1>6, <1>10 DEF TypeInv, HandlersTyped
<1> QED  BY <1>1, <1>2, <1>6, <1>9, <1>10, <1>11, RewriteGoesOn

LEMMA FileWrittenFile ==
  ASSUME Before, NEW w \in Workers, FileWritten(w)
  PROVE  FileInv'
<1> USE DEF Before, PromiseInv
<1> DEFINE c == Coll(w)
<1>1. /\ pc[w] = "write" /\ Rewriting(w) /\ c \in Collections /\ RewriteOK(w)
      /\ HandlerTyped(w) /\ HandlerFileOK(w) /\ pos[w] > Len(lines[w]) /\ NextId(w)
      /\ Truthful(c, FileOf(c)) /\ UNCHANGED <<up, open, managed, buffer, disk, crashes>>
  BY CollOf DEF FileWritten, Rewriting, FileInv, HandlerFileOK, TypeInv, HandlersTyped
<1>2. pos[w] - 1 = Len(lines[w]) /\ lines[w] \in Seq(Docs)
  BY <1>1 DEF HandlerTyped
<1>3. FileOf(c) = lines[w]
  BY <1>1, <1>2 DEF RewriteOK, Truthful
<1>4. crashes = 0 => \A e \in Collections : Complete(e, FileOf(e))
  <2>1. crashes = 0 => \A e \in Collections : e # c => Complete(e, FileOf(e))
    BY <1>1 DEF FileInv, OneHandler
  <2> QED  BY <1>1, <1>3, <2>1 DEF RewriteOK
<1>5. req[w].op = "delete" => \A k \in req[w].keys \ todo[w] : NoLine(FileOf(c), k)
  BY <1>1, <1>3 DEF RewriteOK
<1>6. req[w].op = "insert" => \A d \in req[w].docs : HasLine(FileOf(c), d)
  BY <1>1, <1>3 DEF RewriteOK, HandlerFileOK
<1> QED  BY <1>1, <1>4, <1>5, <1>6, NextIdFile

LEMMA DropFile ==
  ASSUME Before, NEW w \in Workers, DeleteCollection(w) \/ ListDirectory(w)
  PROVE  FileInv'
<1> USE DEF Before, PromiseInv
<1> DEFINE c == Coll(w)
<1>1. /\ pc[w] \in {"apply", "list"} /\ req[w].op = "drop" /\ ~Rewriting(w)
      /\ c \in Collections /\ UNCHANGED disk /\ HandlerFileOK(w)
  BY CollOf DEF DeleteCollection, ListDirectory, Places, PlaceOK, Rewriting, FileInv
<1>2. \A e : FileOf(e)' = FileOf(e)
  BY <1>1 DEF FileOf
<1>3. CollectionStep(w)
  BY DeleteCollectionStep, ListDirectoryStep
<1>4. CASE Stays(w)
  <2>1. pc'[w] \in {"list", "remove"}
    BY <1>4 DEF DeleteCollection, ListDirectory, Goto, Shape, Succeed, Return, Stays, Active
  <2> QED  BY <1>1, <1>4, <2>1, CollectionFile DEF Rewriting
<1>5. CASE Ends(w)
  <2>1. ~disk[c].exists
    BY <1>5 DEF DeleteCollection, ListDirectory, Goto, Shape, Ends, Active
  <2>2. \A k : NoLine(FileOf(c), k)
    BY <1>1, <2>1 DEF TypeInv, EngineTyped, DirectoryTyped, NoDirectory, FileOf, NoLine
  <2>3. Failed \/ Succeeded(w)
    BY <1>3, <1>5 DEF CollectionStep, Stays, Ends
  <2>4. crashes = 0 => \A e \in Collections : Complete(e, FileOf(e))
    BY <1>1, FilesComplete
  <2> QED  BY <1>1, <1>2, <1>5, <2>2, <2>3, <2>4, ReplyFile
<1> QED  BY <1>3, <1>4, <1>5 DEF CollectionStep

\* Nothing is promised of the documents of a collection that is being dropped.
LEMMA RemoveEntryFile ==
  ASSUME Before, NEW w \in Workers, RemoveEntry(w)
  PROVE  FileInv'
<1> USE DEF Before, PromiseInv
<1> DEFINE c == Coll(w)
<1>1. /\ pc[w] = "remove" /\ req[w].op = "drop" /\ c \in Collections /\ Active(w)
      /\ req[w].keys = Keys /\ todo[w] \subseteq Entries /\ HandlerFileOK(w)
  BY CollOf DEF RemoveEntry, Places, PlaceOK, ValidRequest, FileInv, Active
<1>2. PICK e \in todo[w] : disk' = [disk EXCEPT ![c] = Without(@, e)]
  BY DEF RemoveEntry
<1>3. e \in {"meta", "docs", "segments", "wal"}
  BY <1>1, <1>2 DEF Entries
<1>4. UNCHANGED <<pc, req, fate, crashes>>
  BY DEF RemoveEntry, clientVars
<1>5. \A f \in Collections : f # c => FileOf(f)' = FileOf(f)
  BY <1>1, <1>2 DEF Shape, FileOf
<1>6. \A f \in Collections : f = c => FileOf(f)' = FileOf(f) \/ FileOf(f)' = <<>>
  <2>1. disk'[c] = Without(disk[c], e)
    BY <1>1, <1>2 DEF Shape
  <2>2. disk'[c].docs = disk[c].docs \/ disk'[c].docs = NoFile
    BY <1>1, <1>3, <2>1 DEF Without, Shape, Fields
  <2> QED  BY <2>2 DEF FileOf
<1>7. \A k \in Keys : fate[c][k] = "unknown"
  BY <1>1, Unpromised
<1>8. \A v \in Workers : v = w
  BY DEF OneHandler
<1>9. ASSUME NEW f \in Collections
      PROVE  Truthful(f, FileOf(f))' /\ (crashes = 0 => Complete(f, FileOf(f)))'
  <2>1. CASE f = c
    <3>1. Truthful(f, <<>>) /\ Truthful(f, FileOf(f))
      BY DEF Truthful, Apart, NoLine, FileInv
    <3>2. Truthful(f, FileOf(f))'
      BY <1>4, <1>6, <2>1, <3>1 DEF Truthful
    <3>3. Complete(f, FileOf(f))'
      BY <1>4, <1>7, <2>1, NamesAssumption DEF Complete
    <3> QED  BY <3>2, <3>3
  <2>2. CASE f # c
    <3>1. Truthful(f, FileOf(f)) /\ (crashes = 0 => Complete(f, FileOf(f)))
      BY <1>1, FilesComplete DEF FileInv, Rewriting
    <3> QED  BY <1>4, <1>5, <2>2, <3>1 DEF Truthful, Complete
  <2> QED  BY <2>1, <2>2
<1>10. HandlerFileOK(w)'
  BY <1>1, <1>4 DEF HandlerFileOK, Rewriting
<1> QED  BY <1>8, <1>9, <1>10 DEF FileInv

LEMMA RemoveDirectoryFile ==
  ASSUME Before, NEW w \in Workers, RemoveDirectory(w)
  PROVE  FileInv'
<1> USE DEF Before, PromiseInv
<1> DEFINE c == Coll(w)
<1>1. /\ pc[w] = "remove" /\ req[w].op = "drop" /\ ~Rewriting(w) /\ c \in Collections
  BY CollOf DEF RemoveDirectory, Places, PlaceOK, Rewriting
<1>2. CollectionStep(w) /\ Active(w) /\ UNCHANGED <<up, open, managed, buffer, crashes>>
  BY RemoveDirectoryStep DEF RemoveDirectory, Active
<1>3. crashes = 0 => \A e \in Collections : Complete(e, FileOf(e))
  BY <1>1, FilesComplete
<1>4. CASE UNCHANGED disk /\ Fail(w)
  <2>1. Ends(w) /\ Failed
    BY <1>2, <1>4, FailEnds DEF Shape
  <2>2. \A v \in Workers : v = w
    BY DEF OneHandler
  <2>3. HandlerFileOK(w)'
    BY <2>1 DEF Ends, Active, NoRequest, HandlerFileOK, Rewriting
  <2>4. ASSUME NEW e \in Collections
        PROVE  Truthful(e, FileOf(e))' /\ (crashes = 0 => Complete(e, FileOf(e)))'
    BY <1>2, <1>3, <1>4, <2>1 DEF FileInv, Truthful, Complete, FileOf, Failed
  <2> QED  BY <2>2, <2>3, <2>4 DEF FileInv
<1>5. CASE /\ ~\E e \in Entries : Has(disk[c], e)
           /\ disk' = [disk EXCEPT ![c] = NoDirectory] /\ Succeed(w)
  <2>1. disk[c].docs = NoFile
    <3>1. "docs" \in Entries
      BY DEF Entries
    <3>2. Has(disk[c], "docs") = (disk[c].docs # NoFile)
      BY DEF Has
    <3> QED  BY <1>5, <3>1, <3>2
  <2>2. \A e \in Collections : disk'[e] = IF e = c THEN NoDirectory ELSE disk[e]
    BY <1>1, <1>5 DEF Shape
  <2>3. \A e \in Collections : FileOf(e)' = FileOf(e)
    BY <2>1, <2>2 DEF FileOf, NoDirectory
  <2>4. \A k : NoLine(FileOf(c), k)
    BY <2>1 DEF FileOf, NoLine
  <2>5. Ends(w) /\ (Failed \/ Succeeded(w))
    BY <1>2, <1>5 DEF CollectionStep, Stays, Ends, Succeed, Return, Goto, Shape, Active
  <2> QED  BY <1>1, <1>3, <2>3, <2>4, <2>5, ReplyFile
<1> QED  BY <1>4, <1>5 DEF RemoveDirectory

LEMMA ReceiveFile ==
  ASSUME Before, NEW w \in Workers, NEW r \in Requests, Receive(w, r)
  PROVE  FileInv'
<1> USE DEF Before, PromiseInv
<1>1. /\ ValidRequest(r) /\ pc[w] = "idle" /\ pc'[w] = "apply" /\ req'[w] = r
      /\ todo'[w] = IF r.op = "delete" THEN r.keys ELSE r.docs
  BY ReceiveStep
<1>2. UNCHANGED <<disk, crashes>>
  BY DEF Receive
<1>3. \A c \in Collections, k \in Keys :
        fate'[c][k] = IF c = r.coll /\ k \in r.keys THEN "unknown" ELSE fate[c][k]
  BY <1>1 DEF Receive, Shape, ValidRequest
<1>4. r.op = "bulk" => r.docs \subseteq BulkDocs
  BY DEF Requests, InsertRequests, BulkRequests, DeleteRequests, CreateRequests, DropRequests
<1>5. HandlerFileOK(w)'
  BY <1>1, <1>4 DEF HandlerFileOK, Rewriting
<1>6. \A v \in Workers : v = w
  BY DEF OneHandler
<1>7. ASSUME NEW c \in Collections
      PROVE  Truthful(c, FileOf(c))' /\ (crashes = 0 => Complete(c, FileOf(c)))'
  <2>1. Truthful(c, FileOf(c)) /\ (crashes = 0 => Complete(c, FileOf(c)))
    BY <1>1, FilesComplete DEF FileInv, Rewriting
  <2>2. FileOf(c)' = FileOf(c)
    BY <1>2 DEF FileOf
  <2> QED  BY <1>2, <1>3, <2>1, <2>2, NamesAssumption DEF Truthful, Complete
<1> QED  BY <1>5, <1>6, <1>7 DEF FileInv

LEMMA KillFile ==
  ASSUME Before, Crash \/ Restart
  PROVE  FileInv'
<1> USE DEF Before, PromiseInv
<1>1. crashes' > 0 /\ UNCHANGED fate
  <2>1. crashes \in Nat /\ (~up => crashes > 0)
    BY DEF Shape
  <2>2. CASE Crash
    BY <2>1, <2>2 DEF Crash
  <2>3. CASE Restart
    BY <2>1, <2>3 DEF Restart, clientVars
  <2> QED  BY <2>2, <2>3
<1>2. \A c \in Collections : disk'[c].docs = disk[c].docs
  <2>1. CASE Crash
    BY <2>1 DEF Crash
  <2>2. CASE Restart
    <3> SUFFICES ASSUME NEW c \in Collections PROVE disk'[c].docs = disk[c].docs
      OBVIOUS
    <3>1. DOMAIN disk[c] = Fields
      BY DEF Shape
    <3>2. disk'[c] = IF c \in open'
                       THEN [disk[c] EXCEPT !.segments = Loaded(c).segments, !.wal = TRUE]
                       ELSE disk[c]
      BY <2>2 DEF Restart
    <3> QED  BY <3>1, <3>2 DEF Fields
  <2> QED  BY <2>1, <2>2
<1>3. \A c \in Collections : Truthful(c, FileOf(c))'
  BY <1>1, <1>2 DEF FileInv, Truthful, FileOf
<1>4. ASSUME NEW w \in Workers PROVE pc'[w] = "idle" /\ req'[w].op = "none"
  <2>1. CASE Crash
    BY <2>1 DEF Crash, NoRequest
  <2>2. CASE Restart
    BY <2>2 DEF Restart, handlerVars, Places, PlaceOK
  <2> QED  BY <2>1, <2>2
<1>5. \A w \in Workers : HandlerFileOK(w)'
  BY <1>4 DEF HandlerFileOK, Rewriting
<1> QED  BY <1>1, <1>3, <1>5 DEF FileInv

LEMMA FileInit == ASSUME Init PROVE FileInv
<1>1. \A c \in Collections : FileOf(c) = <<>> /\ \A k \in Keys : fate[c][k] = "absent"
  BY DEF Init, FileOf, NoDirectory
<1>2. ASSUME NEW c \in Collections PROVE Truthful(c, FileOf(c)) /\ Complete(c, FileOf(c))
  <2>1. FileOf(c) \in Seq(Docs) /\ Len(FileOf(c)) = 0
    <3>1. <<>> \in Seq(Docs) /\ Len(<<>>) = 0
      OBVIOUS
    <3> QED  BY <1>1, <3>1
  <2>2. Apart(FileOf(c)) /\ \A k : NoLine(FileOf(c), k)
    BY <2>1 DEF Apart, NoLine
  <2> QED  BY <1>1, <2>1, <2>2, NamesAssumption DEF Truthful, Complete
<1>3. \A w \in Workers : HandlerFileOK(w)
  BY DEF Init, NoRequest, HandlerFileOK, Rewriting
<1> QED  BY <1>2, <1>3 DEF FileInv

LEMMA FileStepKept ==
  ASSUME Before, [Next]_vars
  PROVE  FileInv'
<1>1. ASSUME NEW w \in Workers, NEW r \in Requests, Receive(w, r) PROVE FileInv'
  BY <1>1, ReceiveFile
<1>2. ASSUME NEW w \in Workers, HandlerStep(w) PROVE FileInv'
  <2>1. CASE CreateCollection(w) \/ OpenWal(w) \/ LoadSegments(w)
               \/ SaveCollection(w) \/ WriteMeta(w)
    BY <2>1, CreationFile, WriteMetaFile
  <2>2. CASE InsertDocument(w) \/ DeleteDocument(w)
    BY <2>2, InsertDocumentFile, DeleteDocumentFile
  <2>3. CASE SaveDocument(w) \/ RemoveDocument(w) \/ TruncateFile(w)
               \/ WriteLine(w) \/ FileWritten(w)
    BY <2>3, SaveDocumentFile, RemoveDocumentFile, TruncateFileFile, WriteLineFile,
       FileWrittenFile
  <2>4. CASE DeleteCollection(w) \/ ListDirectory(w) \/ RemoveEntry(w) \/ RemoveDirectory(w)
    BY <2>4, DropFile, RemoveEntryFile, RemoveDirectoryFile
  <2> QED  BY <1>2, <2>1, <2>2, <2>3, <2>4 DEF HandlerStep
<1>3. CASE Crash \/ Restart
  BY <1>3, KillFile
<1>4. CASE UNCHANGED vars
  BY <1>4 DEF vars, handlerVars, clientVars, Before, FileInv, Truthful, Complete, HandlerFileOK,
              RewriteOK, Rewriting, FileOf, Coll
<1> QED  BY <1>1, <1>2, <1>3, <1>4 DEF Next

\* What the invariant says of the lines of an id.
LEMMA FileAnswers ==
  ASSUME Before
  PROVE  NoResurrection /\ FileMatchesReplies
<1>1. ASSUME NEW c \in Collections, NEW k \in Keys, fate[c][k] = "absent"
      PROVE  LinesOf(c, k) = <<>>
  <2>1. Truthful(c, FileOf(c))
    BY DEF Before, FileInv
  <2>2. LinesOf(c, k) = Only(FileOf(c), VersionsOf(k)) /\ FileOf(c) \in Seq(Docs)
    BY <2>1, FileOfDocs DEF LinesOf, Truthful
  <2>3. \A j \in 1..Len(FileOf(c)) : FileOf(c)[j] \notin VersionsOf(k)
    BY <1>1, <2>1 DEF Truthful, NoLine, VersionsOf
  <2> QED  BY <2>2, <2>3, OnlyNone
<1>2. ASSUME crashes = 0, NEW c \in Collections, NEW k \in Keys,
             fate[c][k] \in Docs \ BulkDocs, \A w \in Workers : pc[w] = "idle"
      PROVE  LinesOf(c, k) = <<fate[c][k]>>
  <2>1. Truthful(c, FileOf(c)) /\ Complete(c, FileOf(c))
    BY <1>2 DEF Before, FileInv, Rewriting
  <2>2. LinesOf(c, k) = Only(FileOf(c), VersionsOf(k)) /\ FileOf(c) \in Seq(Docs)
    BY <2>1, FileOfDocs DEF LinesOf, Truthful
  <2>3. KeyOf[fate[c][k]] = k
    BY <1>2 DEF Before, Fates
  <2>4. PICK p \in 1..Len(FileOf(c)) : FileOf(c)[p] = fate[c][k]
    BY <1>2, <2>1 DEF Complete, HasLine
  <2>5. FileOf(c)[p] \in VersionsOf(k)
    BY <1>2, <2>3, <2>4 DEF VersionsOf
  <2>6. \A j \in 1..Len(FileOf(c)) : FileOf(c)[j] \in VersionsOf(k) => j = p
    BY <2>1, <2>3, <2>4 DEF Truthful, Apart, VersionsOf
  <2>7. Only(FileOf(c), VersionsOf(k)) = <<FileOf(c)[p]>>
    BY <2>2, <2>5, <2>6, OnlyOne
  <2> QED  BY <2>2, <2>4, <2>7
<1> QED  BY <1>1, <1>2 DEF NoResurrection, FileMatchesReplies

LEMMA OneHandlerInvariant == OneHandler /\ Spec => []Before
<1>1. OneHandler /\ Init => Before
  BY TypeInit, FatesInit, FileInit, PromiseInit DEF Before
<1>2. Before /\ [Next]_vars => Before'
  BY TypeStep, FatesStep, FileStepKept, PromiseStep DEF Before, OneHandler
<1> QED  BY <1>1, <1>2, PTL DEF Spec

\* One request at a time: neither a kill in the middle of a rewrite or of a drop,
\* nor the restart after it, brings back a line of a document whose deletion was
\* acknowledged (persistence.rs, delete_document, delete_collection).
THEOREM NoResurrectionHolds == OneHandler /\ Spec => []NoResurrection
  BY OneHandlerInvariant, FileAnswers, PTL

\* One request at a time and until a kill: documents.jsonl has each document
\* inserted on its own in one line, the acknowledged version of it
\* (persistence.rs, save_document).
THEOREM FileMatchesRepliesHolds == OneHandler /\ Spec => []FileMatchesReplies
  BY OneHandlerInvariant, FileAnswers, PTL
=============================================================================
