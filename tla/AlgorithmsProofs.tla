-------------------------- MODULE AlgorithmsProofs --------------------------
(***************************************************************************)
(* The algorithms do what they promise, for all inputs and all values of   *)
(* the constants: pages, posting lists, edit distances, words, phrases and *)
(* highlighted fragments.  Each part runs through the recursion of its     *)
(* operator with an invariant of the loop that the code has there.         *)
(***************************************************************************)
EXTENDS Algorithms, Recursion, SequenceTheorems, FiniteSetTheorems

-----------------------------------------------------------------------------
(* Numbers and sequences                                                   *)

\* A sum that overflows is less than its parts by the modulus, and the
\* difference overflows back.
LEMMA Wraps ==
  ASSUME NEW M \in Nat, NEW s \in Nat, NEW l \in Nat, s < M, l < M
  PROVE  /\ s + l < M => (s + l) % M = s + l
         /\ s + l >= M => (s + l) % M = s + l - M
<1>1. ASSUME s + l >= M PROVE (s + l) % M = s + l - M
  <2>1. s + l - M \in 0 .. M - 1 /\ s + l = M + (s + l - M)
    BY <1>1
  <2> QED  BY <2>1
<1> QED  BY <1>1

LEMMA WrapsBack ==
  ASSUME NEW M \in Nat, NEW s \in Nat, NEW e \in Nat, s < M, e < M
  PROVE  /\ e >= s => (M + e - s) % M = e - s
         /\ e < s => (M + e - s) % M = M + e - s
<1>1. ASSUME e >= s PROVE (M + e - s) % M = e - s
  <2>1. e - s \in 0 .. M - 1 /\ M + e - s = M + (e - s)
    BY <1>1
  <2> QED  BY <2>1
<1> QED  BY <1>1

\* A set of numbers has a least one.
LEMMA MinIn ==
  ASSUME NEW S, S \subseteq Nat, S # {}
  PROVE  Min(S) \in S /\ \A x \in S : Min(S) <= x
<1> DEFINE R == OpToRel(<, Nat)
<1>1. PICK x \in S : \A y \in S : ~(<<y, x>> \in R)
  <2> HIDE DEF R
  <2>1. IsWellFoundedOn(R, Nat)
    BY NatLessThanWellFounded DEF R
  <2> QED  BY <2>1, WFMin
<1>2. \A y \in S : ~(y < x)
  BY <1>1 DEF OpToRel
<1>3. \A y \in S : x <= y
  BY <1>2
<1> QED  BY <1>3 DEF Min

\* The least of a set of numbers is the one that is not above any.
LEMMA MinIs ==
  ASSUME NEW S, S \subseteq Int, NEW m \in S, \A x \in S : m <= x
  PROVE  Min(S) = m
<1> DEFINE Least(x) == x \in S /\ \A y \in S : x <= y
<1>1. Min(S) = CHOOSE x : Least(x)
  BY DEF Min
<1>2. \A x : Least(x) => x = m
  OBVIOUS
<1>3. Least(m)
  OBVIOUS
<1> HIDE DEF Least
<1> QED  BY <1>1, <1>2, <1>3

\* The smaller of two numbers.
LEMMA LeastOfTwo ==
  ASSUME NEW a \in Nat, NEW b \in Nat
  PROVE  Min({a, b}) = IF a <= b THEN a ELSE b
<1>1. CASE a <= b
  <2>1. a \in {a, b} /\ \A y \in {a, b} : a <= y
    BY <1>1
  <2>2. \A x \in {a, b} : (\A y \in {a, b} : x <= y) => x = a
    BY <1>1
  <2> QED  BY <1>1, <2>1, <2>2 DEF Min
<1>2. CASE ~(a <= b)
  <2>1. b \in {a, b} /\ \A y \in {a, b} : b <= y
    BY <1>2
  <2>2. \A x \in {a, b} : (\A y \in {a, b} : x <= y) => x = b
    BY <1>2
  <2> QED  BY <1>2, <2>1, <2>2 DEF Min
<1> QED  BY <1>1, <1>2

LEMMA MinOfTwo ==
  ASSUME NEW x \in Nat, NEW y \in Nat
  PROVE  LET m == Min({x, y})
         IN  m \in Nat /\ m <= x /\ m <= y /\ (m = x \/ m = y)
BY LeastOfTwo

\* A set of numbers below a bound has a greatest one.
LEMMA MaxIn ==
  ASSUME NEW L \in Nat, NEW S, S \subseteq 0 .. L, S # {}
  PROVE  Max(S) \in S /\ \A x \in S : x <= Max(S)
<1> DEFINE T == {L - x : x \in S}
<1>1. T \subseteq Nat /\ T # {}
  <2>1. \A x \in S : L - x \in Nat
    OBVIOUS
  <2>2. PICK x : x \in S
    OBVIOUS
  <2> QED  BY <2>1, <2>2
<1>2. PICK m \in S : \A x \in S : L - m <= L - x
  <2>1. Min(T) \in T /\ \A y \in T : Min(T) <= y
    <3> HIDE DEF T
    <3> QED  BY <1>1, MinIn
  <2> QED  BY <2>1
<1>3. \A x \in S : x <= m
  BY <1>2
<1> QED  BY <1>3 DEF Max

\* The greater of two numbers.
LEMMA MaxOfTwo ==
  ASSUME NEW L \in Nat, NEW x \in 0 .. L, NEW y \in 0 .. L
  PROVE  LET m == Max({x, y})
         IN  m \in 0 .. L /\ x <= m /\ y <= m /\ (m = x \/ m = y)
<1>1. {x, y} \subseteq 0 .. L /\ {x, y} # {}
  OBVIOUS
<1>2. Max({x, y}) \in {x, y} /\ \A v \in {x, y} : v <= Max({x, y})
  BY <1>1, MaxIn
<1> QED  BY <1>2

\* A part of a list, from behind the a-th place to the b-th.
IsPiece(S, h, a, b, p) ==
  /\ p \in Seq(S)
  /\ p # <<>> <=> a < b
  /\ a < b => Last(p) = h[b]
  /\ a <= b => Len(p) = b - a
  /\ \A i \in 1 .. b - a : p[i] = h[a + i]

\* It is what SubSeq makes.
LEMMA PieceFacts ==
  ASSUME NEW S, NEW h \in Seq(S), NEW a \in Nat, NEW b \in Nat, b <= Len(h)
  PROVE  IsPiece(S, h, a, b, SubSeq(h, a + 1, b))
<1> DEFINE p == SubSeq(h, a + 1, b)
<1>1. CASE a < b
  <2>1. Len(p) = b - a /\ p \in Seq(S)
    BY <1>1
  <2>2. \A i \in 1 .. b - a : p[i] = h[a + i]
    <3>1. ASSUME NEW i \in 1 .. b - a PROVE p[i] = h[(a + 1) + i - 1]
      BY <1>1
    <3>2. \A i \in 1 .. b - a : (a + 1) + i - 1 = a + i
      OBVIOUS
    <3> HIDE DEF p
    <3> QED  BY <3>1, <3>2
  <2> HIDE DEF p
  <2>3. p # <<>> /\ Last(p) = h[b]
    <3>1. b - a \in 1 .. b - a /\ a + (b - a) = b
      BY <1>1
    <3> QED  BY <1>1, <2>1, <2>2, <3>1 DEF Last
  <2> QED  BY <1>1, <2>1, <2>2, <2>3 DEF p, IsPiece
<1>2. CASE ~(a < b)
  <2>1. p = <<>> /\ 1 .. b - a = {} /\ (a <= b => b - a = 0)
    BY <1>2, SubSeqEmpty
  <2> QED  BY <1>2, <2>1 DEF IsPiece
<1> QED  BY <1>1, <1>2

-----------------------------------------------------------------------------
(* Pages                                                                   *)

\* What SkipTake leaves of a list.
LEMMA SkipTakeIs ==
  ASSUME NEW S, NEW h \in Seq(S), NEW s \in Nat, NEW t \in Nat
  PROVE  SkipTake(h, s, t) = SubSeq(h, s + 1, IF s + t <= Len(h) THEN s + t ELSE Len(h))
<1> DEFINE rest == SubSeq(h, s + 1, Len(h))
<1>1. Len(h) \in Nat /\ rest \in Seq(S) /\ Len(rest) \in Nat
  OBVIOUS
<1>2. SkipTake(h, s, t) = SubSeq(rest, 1, IF t <= Len(rest) THEN t ELSE Len(rest))
  BY <1>1, LeastOfTwo DEF SkipTake
<1>3. CASE s >= Len(h)
  <2>1. rest = <<>> /\ Len(rest) = 0
    BY <1>1, <1>3, SubSeqEmpty
  <2>2. SubSeq(h, s + 1, IF s + t <= Len(h) THEN s + t ELSE Len(h)) = <<>>
    BY <1>1, <1>3, SubSeqEmpty
  <2> QED  BY <1>2, <2>1, <2>2
<1>4. CASE s < Len(h)
  <2>1. Len(rest) = Len(h) - s
    BY <1>1, <1>4
  <2> DEFINE n == IF t <= Len(rest) THEN t ELSE Len(rest)
  <2>2. n \in 0 .. Len(h) - s /\ s + n = IF s + t <= Len(h) THEN s + t ELSE Len(h)
    BY <1>1, <2>1
  <2>3. SkipTake(h, s, t) = SubSeq(rest, 1, n)
    BY <1>2
  <2> HIDE DEF n
  <2>4. SubSeq(rest, 1, n) = SubSeq(h, s + 1, s + n)
    BY <1>1, <1>4, <2>1, <2>2
  <2> QED  BY <2>2, <2>3, <2>4
<1> QED  BY <1>1, <1>3, <1>4

\* The end of a page.
PageEnd(h, limit, offset) == IF offset + limit <= Len(h) THEN offset + limit ELSE Len(h)

PagesOf(S) == [hits : Seq(S), cursor : SUBSET S]

IsPage(S, h, limit, offset, page) ==
  LET e == PageEnd(h, limit, offset)
  IN  /\ page.hits = SubSeq(h, offset + 1, e)
      /\ page.cursor = {} \/ (offset < e /\ page.cursor = {h[e]})
      /\ limit > 0 /\ page.cursor = {} => e = Len(h)
      /\ page \in PagesOf(S)
      /\ e \in 0 .. Len(h) /\ (limit > 0 => e = Len(h) \/ offset < e)

\* The page at an offset has the hits from there to its end, and a cursor if there
\* are more.
LEMMA PageIs ==
  ASSUME NEW S, NEW h \in Seq(S), Len(h) <= MaxIndex,
         NEW limit \in 0 .. MaxIndex, NEW offset \in 0 .. MaxIndex
  PROVE  IsPage(S, h, limit, offset, PageAt(h, limit, offset))
<1> DEFINE M == IndexModulus
           L == Len(h)
           sum == (offset + limit) % M
           end == IF sum <= L THEN sum ELSE L
           taken == (M + end - offset) % M
           page == PageAt(h, limit, offset)
           e == PageEnd(h, limit, offset)
<1>1. M \in Nat /\ M > 0 /\ L \in Nat /\ L < M /\ limit \in Nat /\ offset \in Nat
      /\ limit < M /\ offset < M
  BY PagesConstants DEF MaxIndex
<1>2. /\ offset + limit < M => sum = offset + limit
      /\ offset + limit >= M => sum = offset + limit - M
  <2> HIDE DEF M
  <2> QED  BY <1>1, Wraps
<1>3. page = PageFrom(h, offset, Min({sum, L}))
  BY DEF PageAt
<1> HIDE DEF M, L, sum
<1>4. sum \in Nat /\ end \in Nat /\ end <= L /\ end = Min({sum, L})
  BY <1>1, <1>2, LeastOfTwo
<1>5. end = IF sum <= L THEN sum ELSE L
  OBVIOUS
<1> HIDE DEF end
<1>6. /\ end >= offset => taken = end - offset
      /\ end < offset => taken = M + end - offset
  <2>1. end < M /\ M \in Nat /\ offset \in Nat /\ end \in Nat /\ offset < M
    BY <1>1, <1>4
  <2> HIDE DEF page, e
  <2> QED  BY <2>1, WrapsBack
<1>7. /\ page.hits = SkipTake(h, offset, taken)
      /\ page.cursor = IF end < L /\ page.hits # <<>> THEN {Last(page.hits)} ELSE {}
  BY <1>3, <1>4 DEF PageFrom, M, L
<1> HIDE DEF taken, page
<1>8. taken \in Nat
  BY <1>1, <1>4, <1>6
<1>9. e \in Nat /\ e <= L /\ e = IF offset + limit <= L THEN offset + limit ELSE L
  BY <1>1 DEF PageEnd, L
<1> HIDE DEF e
<1>10. SkipTake(h, offset, taken)
         = SubSeq(h, offset + 1, IF offset + taken <= L THEN offset + taken ELSE L)
  BY <1>1, <1>8, SkipTakeIs DEF L
<1>11. SkipTake(h, offset, taken) = SubSeq(h, offset + 1, e)
  <2>1. CASE offset >= L
    <3>1. SkipTake(h, offset, taken) = <<>>
      BY <1>1, <1>8, <1>10, <2>1, SubSeqEmpty
    <3>2. SubSeq(h, offset + 1, e) = <<>>
      BY <1>1, <1>9, <2>1, SubSeqEmpty
    <3> QED  BY <3>1, <3>2
  <2>2. CASE offset < L /\ offset + limit < M
    <3>1. end = e /\ end >= offset
      BY <1>1, <1>2, <1>5, <1>9, <2>2
    <3>2. offset + taken = e
      BY <1>1, <1>6, <1>9, <3>1
    <3> QED  BY <1>1, <1>9, <1>10, <3>2
  <2>3. CASE offset < L /\ offset + limit >= M
    <3>1. end = offset + limit - M /\ end < offset
      BY <1>1, <1>2, <1>5, <2>3
    <3>2. taken = limit
      BY <1>1, <1>6, <3>1
    <3>3. e = L /\ offset + limit >= L
      BY <1>1, <1>9, <2>3
    <3> QED  BY <1>1, <1>10, <3>2, <3>3
  <2> QED  BY <1>1, <2>1, <2>2, <2>3
<1>12. page.hits = SubSeq(h, offset + 1, e)
  BY <1>7, <1>11
<1>13. page.hits # <<>> <=> offset < e
  <2>1. SubSeq(h, offset + 1, e) # <<>> <=> offset < e
    <3>1. IsPiece(S, h, offset, e, SubSeq(h, offset + 1, e))
      BY <1>1, <1>9, PieceFacts DEF L
    <3> QED  BY <3>1 DEF IsPiece
  <2> QED  BY <1>12, <2>1
<1>14. ASSUME page.cursor # {} PROVE offset < e /\ page.cursor = {h[e]}
  <2>1. page.hits # <<>> /\ page.cursor = {Last(page.hits)}
    BY <1>7, <1>14
  <2>2. offset < e
    BY <1>13, <2>1
  <2>3. Last(page.hits) = h[e]
    BY <1>1, <1>9, <1>12, <2>2, PieceFacts DEF L, IsPiece
  <2> QED  BY <1>1, <1>9, <2>1, <2>2, <2>3
<1>15. ASSUME limit > 0, page.cursor = {} PROVE e = L
  <2> SUFFICES ASSUME offset < L PROVE e = L
    BY <1>1, <1>9, <1>15
  <2>1. CASE offset + limit >= M
    BY <1>1, <1>9, <2>1
  <2>2. CASE offset + limit < M
    <3>1. end = e
      BY <1>1, <1>2, <1>5, <1>9, <2>2
    <3>2. page.hits # <<>>
      BY <1>1, <1>9, <1>13, <1>15
    <3>3. ~(e < L)
      BY <1>7, <1>15, <3>1, <3>2
    <3> QED  BY <1>1, <1>9, <3>3
  <2> QED  BY <1>1, <2>1, <2>2
<1>16. page \in PagesOf(S)
  <2>1. page = [hits |-> page.hits, cursor |-> page.cursor]
    BY DEF page, PageAt, PageFrom
  <2>2. page.hits \in Seq(S)
    BY <1>1, <1>9, <1>12, PieceFacts DEF L, IsPiece
  <2>3. page.cursor \subseteq S
    <3>1. CASE page.cursor # {}
      <4>1. e \in 1 .. Len(h) /\ page.cursor = {h[e]}
        BY <1>1, <1>9, <1>14, <3>1 DEF L
      <4>2. h[e] \in S
        BY <4>1
      <4> QED  BY <4>1, <4>2
    <3> QED  BY <3>1
  <2> QED  BY <2>1, <2>2, <2>3 DEF PagesOf
<1>17. e \in 0 .. L /\ (limit > 0 => e = L \/ offset < e)
  BY <1>1, <1>9
<1> QED  BY <1>12, <1>14, <1>15, <1>16, <1>17 DEF IsPage, page, e, L

\* Behind the hit that stands at one place only.
LEMMA PageBehind ==
  ASSUME NEW S, NEW h \in Seq(S), IsInjective(h), NEW limit, NEW e \in 1 .. Len(h)
  PROVE  PageAfter(h, limit, h[e]) = PageAt(h, limit, e)
<1> DEFINE places == {i \in DOMAIN h : h[i] = h[e]}
<1>1. places = {e}
  BY DEF IsInjective
<1>2. Min({e}) = e
  BY DEF Min
<1> HIDE DEF places
<1>3. PageAfter(h, limit, h[e]) = PageFrom(h, e, Min({(e + limit) % IndexModulus, Len(h)}))
  BY <1>1, <1>2 DEF PageAfter, places
<1> QED  BY <1>3 DEF PageAt

\* The engine returns the first hits, as many as one page has.
LEMMA LimitedIs ==
  ASSUME NEW S, NEW all \in Seq(S), NEW limit \in 0 .. MaxIndex
  PROVE  LET h == Limited(all, limit)
         IN  /\ h \in Seq(S)
             /\ Len(h) = IF limit <= Len(all) THEN limit ELSE Len(all)
             /\ \A i \in 1 .. Len(h) : h[i] = all[i]
<1> DEFINE m == IF limit <= Len(all) THEN limit ELSE Len(all)
<1>1. limit \in Nat /\ Len(all) \in Nat /\ m \in Nat /\ m <= Len(all)
  OBVIOUS
<1>2. Limited(all, limit) = SubSeq(all, 1, m)
  BY <1>1, LeastOfTwo DEF Limited
<1> QED  BY <1>1, <1>2

\* Of a page, what is left behind the offset of the hits that the engine returned
\* is its beginning.
LEMMA LimitedPage ==
  ASSUME NEW S, NEW all \in Seq(S), NEW limit \in 0 .. MaxIndex, NEW offset \in 0 .. MaxIndex
  PROVE  LET h == Limited(all, limit)
             p == SubSeq(h, offset + 1, Len(h))
         IN  /\ IsPrefix(p, AskedPage(all, limit, offset))
             /\ offset = 0 => p = AskedPage(all, limit, 0)
<1> DEFINE h == Limited(all, limit)
           m == Len(h)
           e == PageEnd(all, limit, offset)
           p == SubSeq(h, offset + 1, m)
           asked == SubSeq(all, offset + 1, e)
<1>1. limit \in Nat /\ offset \in Nat /\ Len(all) \in Nat
  OBVIOUS
<1>2. h \in Seq(S) /\ m = (IF limit <= Len(all) THEN limit ELSE Len(all))
      /\ \A i \in 1 .. m : h[i] = all[i]
  BY LimitedIs
<1>3. AskedPage(all, limit, offset) = asked
  BY <1>1, LeastOfTwo DEF AskedPage, PageEnd
<1>4. m \in Nat /\ e \in Nat /\ m <= e /\ e <= Len(all) /\ (offset = 0 => e = m)
  BY <1>1, <1>2 DEF PageEnd
<1> HIDE DEF h, m, e
<1>5. IsPiece(S, h, offset, m, p) /\ IsPiece(S, all, offset, e, asked)
  <2>1. m <= Len(h)
    BY <1>4 DEF m
  <2>2. IsPiece(S, h, offset, m, SubSeq(h, offset + 1, m))
    BY <1>1, <1>2, <1>4, <2>1, PieceFacts
  <2>3. IsPiece(S, all, offset, e, SubSeq(all, offset + 1, e))
    BY <1>1, <1>4, PieceFacts
  <2> QED  BY <2>2, <2>3
<1> HIDE DEF p, asked
<1>6. CASE offset >= m
  <2>1. p = <<>> /\ Len(p) = 0 /\ asked \in Seq(S) /\ Len(asked) >= 0
    BY <1>1, <1>4, <1>5, <1>6 DEF IsPiece
  <2>2. SubSeq(p, 1, Len(p)) = <<>> /\ SubSeq(asked, 1, Len(p)) = <<>>
    BY <2>1, SubSeqEmpty
  <2>3. ASSUME offset = 0 PROVE p = asked
    <3>1. asked = <<>>
      BY <1>1, <1>4, <1>5, <1>6, <2>3 DEF IsPiece
    <3> QED  BY <2>1, <3>1
  <2> QED  BY <1>3, <2>1, <2>2, <2>3 DEF IsPrefix, p, h, m
<1>7. CASE offset < m
  <2>1. /\ p \in Seq(S) /\ Len(p) = m - offset /\ asked \in Seq(S) /\ Len(asked) = e - offset
        /\ \A i \in 1 .. m - offset : p[i] = h[offset + i]
        /\ \A i \in 1 .. e - offset : asked[i] = all[offset + i]
    BY <1>1, <1>4, <1>5, <1>7 DEF IsPiece
  <2>2. \A i \in 1 .. m - offset : p[i] = asked[i]
    <3> TAKE i \in 1 .. m - offset
    <3>1. i \in 1 .. e - offset /\ offset + i \in 1 .. m
      BY <1>1, <1>4, <1>7
    <3> QED  BY <1>2, <2>1, <3>1 DEF m
  <2>3. Len(p) <= Len(asked) /\ Len(p) \in Nat /\ Len(p) >= 1
    BY <1>1, <1>4, <1>7, <2>1
  <2>4. SubSeq(p, 1, Len(p)) = SubSeq(asked, 1, Len(p))
    <3>1. /\ SubSeq(p, 1, Len(p)) = [i \in 1 .. Len(p) |-> p[i]]
          /\ SubSeq(asked, 1, Len(p)) = [i \in 1 .. Len(p) |-> asked[i]]
      BY <2>1, <2>3
    <3>2. \A i \in 1 .. Len(p) : p[i] = asked[i]
      BY <2>1, <2>2
    <3> QED  BY <3>1, <3>2
  <2>5. ASSUME offset = 0 PROVE p = asked
    <3>1. Len(p) = Len(asked)
      BY <1>1, <1>4, <2>1, <2>5
    <3>2. \A i \in 1 .. Len(p) : p[i] = asked[i]
      BY <2>1, <2>2
    <3> QED  BY <2>1, <3>1, <3>2, SeqEqual
  <2> QED  BY <1>3, <2>3, <2>4, <2>5 DEF IsPrefix, p, h, m
<1> QED  BY <1>1, <1>4, <1>6, <1>7

\* What the engine returned ends the page.
LEMMA AnswerIs ==
  ASSUME NEW S, NEW all \in Seq(S), NEW limit \in 0 .. MaxIndex, NEW offset \in 0 .. MaxIndex
  PROVE  LET h == Limited(all, limit)
             page == AnswerAt(all, limit, offset)
         IN  /\ page.hits = SubSeq(h, offset + 1, Len(h))
             /\ page.cursor = {} \/ (offset < Len(h) /\ page.cursor = {h[Len(h)]})
             /\ page \in PagesOf(S)
<1> DEFINE h == Limited(all, limit)
<1>1. h \in Seq(S) /\ Len(h) \in Nat /\ Len(h) <= limit /\ limit \in Nat /\ offset \in Nat
      /\ MaxIndex \in Nat
  BY LimitedIs, PagesConstants DEF MaxIndex
<1> HIDE DEF h
<1>2. IsPage(S, h, limit, offset, PageAt(h, limit, offset))
  <2>1. Len(h) <= MaxIndex
    BY <1>1
  <2> QED  BY <1>1, <2>1, PageIs
<1>3. PageEnd(h, limit, offset) = Len(h)
  BY <1>1 DEF PageEnd
<1> QED  BY <1>2, <1>3 DEF IsPage, AnswerAt, h

\* Pages are sound, whatever was found.
LEMMA PagesAreSound ==
  ASSUME NEW S, NEW all \in Seq(S),
         NEW limit \in 0 .. MaxIndex, NEW offset \in 0 .. MaxIndex
  PROVE  PageSound(all, limit, offset)
<1> DEFINE h == Limited(all, limit)
           page == AnswerAt(all, limit, offset)
<1>1. /\ h \in Seq(S) /\ Len(h) \in Nat /\ Len(h) <= limit /\ Len(h) <= Len(all)
      /\ Len(all) \in Nat /\ \A i \in 1 .. Len(h) : h[i] = all[i]
  <2>1. /\ h \in Seq(S) /\ Len(h) = (IF limit <= Len(all) THEN limit ELSE Len(all))
        /\ \A i \in 1 .. Len(h) : h[i] = all[i]
    BY LimitedIs
  <2> HIDE DEF h
  <2> QED  BY <2>1
<1>2. Len(h) <= MaxIndex /\ MaxIndex \in Nat
  <2>1. MaxIndex \in Nat
    BY PagesConstants DEF MaxIndex
  <2> HIDE DEF h
  <2> QED  BY <1>1, <2>1
<1>3. /\ IsPrefix(page.hits, AskedPage(all, limit, offset))
      /\ offset = 0 => page.hits = AskedPage(all, limit, 0)
      /\ page.cursor = {} \/ (offset < Len(h) /\ page.cursor = {h[Len(h)]})
  <2>1. /\ page.hits = SubSeq(h, offset + 1, Len(h))
        /\ page.cursor = {} \/ (offset < Len(h) /\ page.cursor = {h[Len(h)]})
    BY AnswerIs
  <2>2. LET p == SubSeq(h, offset + 1, Len(h))
        IN  /\ IsPrefix(p, AskedPage(all, limit, offset))
            /\ offset = 0 => p = AskedPage(all, limit, 0)
    BY LimitedPage
  <2> HIDE DEF page, h
  <2> QED  BY <2>1, <2>2
<1> HIDE DEF page
<1>4. ASSUME IsInjective(all), NEW i \in 1 .. Len(h)
      PROVE  AnswerAfter(all, limit, h[i]) = AnswerAt(all, limit, i) /\ i \in 0 .. MaxIndex
  <2>1. IsInjective(h)
    <3> HIDE DEF h
    <3>1. DOMAIN h = 1 .. Len(h) /\ DOMAIN all = 1 .. Len(all)
      BY <1>1
    <3>2. ASSUME NEW a \in DOMAIN h, NEW b \in DOMAIN h, h[a] = h[b] PROVE a = b
      <4>1. a \in DOMAIN all /\ b \in DOMAIN all /\ all[a] = all[b]
        BY <1>1, <3>1, <3>2
      <4> QED  BY <1>4, <4>1 DEF IsInjective
    <3> QED  BY <3>2 DEF IsInjective
  <2> HIDE DEF h
  <2>2. PageAfter(h, limit, h[i]) = PageAt(h, limit, i)
    BY <1>1, <2>1, PageBehind
  <2>3. i \in 0 .. MaxIndex
    BY <1>1, <1>2
  <2> QED  BY <2>2, <2>3 DEF AnswerAfter, AnswerAt, h
<1>5. ASSUME IsInjective(all), NEW i \in DOMAIN h
      PROVE  IsPrefix(AnswerAfter(all, limit, all[i]).hits, AskedPage(all, limit, i))
  <2>1. i \in 1 .. Len(h) /\ h[i] = all[i]
    BY <1>1
  <2>2. AnswerAfter(all, limit, all[i]) = AnswerAt(all, limit, i) /\ i \in 0 .. MaxIndex
    BY <1>4, <1>5, <2>1
  <2>3. AnswerAt(all, limit, i).hits = SubSeq(h, i + 1, Len(h))
    BY <2>2, AnswerIs
  <2> QED  BY <2>2, <2>3, LimitedPage
<1>6. ASSUME IsInjective(all), NEW c \in page.cursor
      PROVE  AnswerAfter(all, limit, c) = NoHits
  <2>1. c = h[Len(h)] /\ Len(h) \in 1 .. Len(h)
    <3> HIDE DEF h
    <3> QED  BY <1>1, <1>3, <1>6
  <2>2. AnswerAfter(all, limit, c) = AnswerAt(all, limit, Len(h)) /\ Len(h) \in 0 .. MaxIndex
    BY <1>4, <1>6, <2>1
  <2> DEFINE last == AnswerAt(all, limit, Len(h))
  <2>3. last.hits = SubSeq(h, Len(h) + 1, Len(h)) /\ last \in PagesOf(S) /\ last.cursor = {}
    <3>1. /\ last.hits = SubSeq(h, Len(h) + 1, Len(h)) /\ last \in PagesOf(S)
          /\ last.cursor = {} \/ Len(h) < Len(h)
      BY <2>2, AnswerIs
    <3> HIDE DEF h, last
    <3> QED  BY <1>1, <3>1
  <2> HIDE DEF last, h
  <2>4. last.hits = <<>>
    BY <1>1, <2>3, SubSeqEmpty
  <2> QED  BY <2>2, <2>3, <2>4 DEF PagesOf, NoHits, last
<1> HIDE DEF h
<1> QED  BY <1>3, <1>5, <1>6 DEF PageSound, page, h

-----------------------------------------------------------------------------
(* Posting lists                                                           *)

\* Products, for the steps that need more than sums.
LEMMA ProductType ==
  ASSUME NEW a \in Nat, NEW b \in Nat
  PROVE  a * b \in Nat /\ a * b = b * a /\ (a > 0 /\ b > 0 => a * b > 0)
  OBVIOUS

LEMMA ProductMonotone ==
  ASSUME NEW a \in Nat, NEW b \in Nat, NEW c \in Nat, a <= b
  PROVE  a * c <= b * c
  OBVIOUS

LEMMA Twice ==
  ASSUME NEW a \in Nat, NEW b \in Nat
  PROVE  a * (2 * b) = 2 * (a * b)
  OBVIOUS

\* Division with remainder.
IsDivision(a, b, q, m) ==
  /\ q \in Nat /\ m \in Nat /\ m < b /\ a = m + b * q
  /\ a >= b => q >= 1
  /\ a < b => m = a

LEMMA Divided ==
  ASSUME NEW a \in Nat, NEW b \in Nat, b > 0
  PROVE  IsDivision(a, b, a \div b, a % b)
<1>1. a % b \in Nat /\ a % b < b /\ a \div b \in Nat /\ a = (a % b) + b * (a \div b)
  OBVIOUS
<1>2. ASSUME a >= b PROVE a \div b >= 1
  <2>1. CASE a \div b = 0
    BY <1>1, <1>2, <2>1
  <2> QED  BY <1>1, <2>1
<1>3. ASSUME a < b PROVE a % b = a
  BY <1>3
<1> QED  BY <1>1, <1>2, <1>3 DEF IsDivision

LEMMA RemainderBehind ==
  ASSUME NEW a \in Nat, NEW b \in Nat, a < b
  PROVE  (b + a) % b = a /\ a % b = a
  OBVIOUS

-----------------------------------------------------------------------------
\* Powers of two.
LEMMA PowerFacts ==
  /\ Power \in [Nat -> Nat]
  /\ Power[0] = 1
  /\ \A n \in Nat : Power[n + 1] = 2 * Power[n] /\ Power[n] > 0
<1> DEFINE Good(f) == f = [n \in Nat |-> IF n = 0 THEN 1 ELSE 2 * f[n - 1]]
           turn == [x \in Nat |-> 2 * x]
<1>1. PICK f : RunsOnNat(f, Nat, 1, turn)
  <2>1. turn \in [Nat -> Nat]
    OBVIOUS
  <2> HIDE DEF turn
  <2> QED  BY <2>1, RecursionOnNat
<1>2. f \in [Nat -> Nat] /\ f[0] = 1 /\ \A n \in Nat : f[n + 1] = 2 * f[n]
  BY <1>1 DEF RunsOnNat
<1>3. Good(f)
  <2>1. ASSUME NEW n \in Nat, n # 0 PROVE f[n] = 2 * f[n - 1]
    <3>1. n - 1 \in Nat /\ (n - 1) + 1 = n
      BY <2>1
    <3> QED  BY <1>2, <3>1
  <2> QED  BY <1>2, <2>1
<1>4. Good(Power)
  <2>1. Power = CHOOSE g : Good(g)
    BY DEF Power
  <2> HIDE DEF Good
  <2> QED  BY <1>3, <2>1
<1>5. Power[0] = 1 /\ \A n \in Nat : Power[n + 1] = 2 * Power[n]
  BY <1>4
<1>6. \A n \in Nat : Power[n] \in Nat /\ Power[n] > 0
  <2> DEFINE S == {n \in Nat : Power[n] \in Nat /\ Power[n] > 0}
  <2>1. 0 \in S
    BY <1>5
  <2>2. \A n \in Nat : n \in S => n + 1 \in S
    BY <1>5
  <2> HIDE DEF S
  <2>3. Nat \subseteq S
    BY <2>1, <2>2, Induction
  <2> QED  BY <2>3 DEF S
<1>7. DOMAIN Power = Nat /\ Power = [n \in Nat |-> Power[n]]
  BY <1>4
<1> QED  BY <1>5, <1>6, <1>7

\* Powers multiply where exponents add up.
LEMMA PowerOfSum ==
  ASSUME NEW a \in Nat
  PROVE  \A b \in Nat : Power[a + b] = Power[a] * Power[b] /\ Power[a] <= Power[a + b]
<1> DEFINE S == {b \in Nat : Power[a + b] = Power[a] * Power[b] /\ Power[a] <= Power[a + b]}
<1>1. 0 \in S
  <2>1. Power[a] \in Nat /\ a + 0 = a
    BY PowerFacts
  <2> QED  BY <2>1, PowerFacts
<1>2. ASSUME NEW b \in Nat, b \in S PROVE b + 1 \in S
  <2>1. Power[a] \in Nat /\ Power[b] \in Nat /\ a + b \in Nat /\ Power[a + b] \in Nat
    BY PowerFacts
  <2>2. a + (b + 1) = (a + b) + 1
    OBVIOUS
  <2>3. Power[(a + b) + 1] = 2 * Power[a + b] /\ Power[b + 1] = 2 * Power[b]
    BY <2>1, PowerFacts
  <2>4. Power[a + (b + 1)] = Power[a] * Power[b + 1]
    BY <1>2, <2>1, <2>2, <2>3, Twice
  <2>5. Power[a] <= Power[a + (b + 1)]
    BY <1>2, <2>1, <2>2, <2>3
  <2> QED  BY <2>4, <2>5
<1> HIDE DEF S
<1>3. Nat \subseteq S
  BY <1>1, <1>2, Induction
<1> QED  BY <1>3 DEF S

\* The powers of the base: the last byte is enough for every number.
Pow(n) == Power[Group * n]

\* What is known of the constants of the codec.
LEMMA BaseTypes == Base \in Nat /\ Base >= 2 /\ Base > 0 /\ Modulus \in Nat /\ Modulus > 0
<1>1. Width \in Nat /\ Width > 0 /\ Group \in Nat /\ Group > 0
  BY CodecConstants
<1>2. Power[Group] \in Nat /\ Power[Group] >= 2
  <2>1. Group - 1 \in Nat /\ (Group - 1) + 1 = Group
    BY <1>1
  <2>2. Power[Group] = 2 * Power[Group - 1] /\ Power[Group - 1] \in Nat /\ Power[Group - 1] > 0
    BY <2>1, PowerFacts
  <2> QED  BY <1>1, <2>2, PowerFacts
<1>3. Power[Width] \in Nat /\ Power[Width] > 0
  BY <1>1, PowerFacts
<1> QED  BY <1>2, <1>3 DEF Base, Modulus

LEMMA BaseFacts ==
  /\ MaxBytes \in Nat /\ MaxBytes > 0
  /\ Pow(0) = 1 /\ Modulus <= Pow(MaxBytes)
  /\ \A n \in Nat : Pow(n) \in Nat /\ Pow(n) > 0 /\ Pow(n + 1) = Base * Pow(n)
  /\ \A n, m \in Nat : n <= m => Pow(n) <= Pow(m)
<1>1. Width \in Nat /\ Width > 0 /\ Group \in Nat /\ Group > 0
  BY CodecConstants
<1>2. Base \in Nat /\ Base >= 2 /\ Modulus \in Nat /\ Modulus > 0
  BY BaseTypes
<1>3. \A n \in Nat : Group * n \in Nat /\ Group * (n + 1) = Group * n + Group
  BY <1>1
<1>4. MaxBytes \in Nat /\ MaxBytes > 0 /\ Group * MaxBytes \in Nat /\ Width <= Group * MaxBytes
  <2> DEFINE a == Width + Group - 1
  <2>1. a \in Nat /\ a >= Group
    BY <1>1
  <2>2. a \div Group \in Nat /\ a = (a % Group) + Group * (a \div Group) /\ a % Group < Group
        /\ a % Group \in Nat /\ a \div Group >= 1
    BY <1>1, <2>1, Divided DEF IsDivision
  <2>3. Group * (a \div Group) \in Nat
    BY <1>1, <2>2, ProductType
  <2>4. MaxBytes = a \div Group
    BY DEF MaxBytes
  <2> HIDE DEF a
  <2>5. a - Group < Group * (a \div Group)
    BY <1>1, <2>1, <2>2, <2>3
  <2> QED  BY <1>1, <2>2, <2>3, <2>4, <2>5 DEF a
<1>5. \A n \in Nat : Pow(n) \in Nat /\ Pow(n) > 0
  BY <1>3, PowerFacts DEF Pow
<1>6. ASSUME NEW n \in Nat PROVE Pow(n + 1) = Base * Pow(n)
  <2>1. Group * n \in Nat /\ Group * (n + 1) = Group * n + Group
    BY <1>3
  <2>2. Power[Group * n + Group] = Power[Group * n] * Power[Group]
    BY <1>1, <2>1, PowerOfSum
  <2> QED  BY <1>2, <1>5, <2>1, <2>2, ProductType DEF Pow, Base
<1>7. Pow(0) = 1
  BY <1>1, PowerFacts DEF Pow
<1>8. Modulus <= Pow(MaxBytes)
  <2>1. Group * MaxBytes - Width \in Nat /\ Width + (Group * MaxBytes - Width) = Group * MaxBytes
    BY <1>1, <1>4
  <2> QED  BY <1>1, <2>1, PowerOfSum DEF Pow, Modulus
<1>9. ASSUME NEW n \in Nat, NEW m \in Nat, n <= m PROVE Pow(n) <= Pow(m)
  <2>1. Group * n \in Nat /\ Group * m \in Nat /\ Group * n <= Group * m
    BY <1>1, <1>3, <1>9, ProductMonotone, ProductType
  <2>2. Group * m - Group * n \in Nat /\ Group * n + (Group * m - Group * n) = Group * m
    BY <2>1
  <2> QED  BY <2>1, <2>2, PowerOfSum DEF Pow
<1> QED  BY <1>4, <1>5, <1>6, <1>7, <1>8, <1>9

\* What is left of a number behind each of its bytes.
Carries(r, v, bytes, left) ==
  /\ r \in [0 .. Len(bytes) -> Nat] /\ r[0] = v /\ r[Len(bytes)] = left
  /\ \A i \in 1 .. Len(bytes) : r[i - 1] = (bytes[i] % Base) + Base * r[i]

IsVarint(v, bytes) ==
  /\ bytes \in Seq(Nat) /\ Len(bytes) \in 1 .. MaxBytes
  /\ bytes[Len(bytes)] < Base
  /\ \A i \in 1 .. Len(bytes) : i < Len(bytes) => bytes[i] >= Base
  /\ \E r : Carries(r, v, bytes, 0)

\* After k turns of the loop that writes a number.
Encoded(v, t, k) ==
  /\ t \in [bytes : Seq(Nat), left : Nat]
  /\ \A i \in 1 .. Len(t.bytes) : t.bytes[i] >= Base
  /\ \E r : Carries(r, v, t.bytes, t.left)
  /\ t.left < Base \/ Len(t.bytes) = k
  /\ t.left * Pow(Len(t.bytes)) <= v /\ (Len(t.bytes) > 0 => t.left >= 1)

\* One byte more.
LEMMA CarriesOn ==
  ASSUME NEW v \in Nat, NEW bytes \in Seq(Nat), NEW left \in Nat, NEW r,
         Carries(r, v, bytes, left),
         NEW b \in Nat, NEW rest \in Nat, left = (b % Base) + Base * rest
  PROVE  \E s : Carries(s, v, Append(bytes, b), rest)
<1> DEFINE n == Len(bytes)
           more == Append(bytes, b)
           s == [i \in 0 .. n + 1 |-> IF i = n + 1 THEN rest ELSE r[i]]
<1>1. n \in Nat /\ more \in Seq(Nat) /\ Len(more) = n + 1 /\ more[n + 1] = b
      /\ \A i \in 1 .. n : more[i] = bytes[i]
  OBVIOUS
<1>2. /\ r \in [0 .. n -> Nat] /\ r[0] = v /\ r[n] = left
      /\ \A i \in 1 .. n : r[i - 1] = (bytes[i] % Base) + Base * r[i]
  BY DEF Carries
<1> HIDE DEF n, more
<1>3. s \in [0 .. n + 1 -> Nat] /\ s[n + 1] = rest /\ \A i \in 0 .. n : s[i] = r[i]
  BY <1>1, <1>2
<1> HIDE DEF s
<1>4. s[0] = v /\ s[n] = left
  BY <1>1, <1>2, <1>3
<1>5. ASSUME NEW i \in 1 .. n + 1 PROVE s[i - 1] = (more[i] % Base) + Base * s[i]
  <2>1. CASE i = n + 1
    <3>1. s[i - 1] = left /\ more[i] = b /\ s[i] = rest
      BY <1>1, <1>3, <1>4, <2>1
    <3> QED  BY <3>1
  <2>2. CASE i # n + 1
    <3>1. i \in 1 .. n /\ i - 1 \in 0 .. n /\ i \in 0 .. n
      BY <1>1, <2>2
    <3>2. s[i - 1] = r[i - 1] /\ s[i] = r[i] /\ more[i] = bytes[i]
      BY <1>1, <1>3, <3>1
    <3> QED  BY <1>2, <3>1, <3>2
  <2> QED  BY <2>1, <2>2
<1> QED  BY <1>1, <1>3, <1>4, <1>5 DEF Carries, more

\* One turn of the loop of encode_varint keeps the invariant.
LEMMA EncodesOne ==
  ASSUME NEW v \in Nat, NEW k \in Nat, NEW t, Encoded(v, t, k)
  PROVE  Encoded(v, EncodeNext(t), k + 1)
<1> DEFINE bytes == t.bytes
           left == t.left
           low == left % Base
           b == Base + low
           rest == left \div Base
           next == [bytes |-> Append(bytes, b), left |-> rest]
<1>1. /\ t \in [bytes : Seq(Nat), left : Nat] /\ bytes \in Seq(Nat) /\ left \in Nat
      /\ \A i \in 1 .. Len(bytes) : bytes[i] >= Base
      /\ \E r : Carries(r, v, bytes, left)
      /\ left < Base \/ Len(bytes) = k
      /\ left * Pow(Len(bytes)) <= v /\ (Len(bytes) > 0 => left >= 1)
  BY DEF Encoded
<1>2. CASE left < Base
  BY <1>1, <1>2 DEF Encoded, EncodeNext
<1>3. CASE ~(left < Base)
  <2>1. Base \in Nat /\ Base > 0
    BY BaseTypes
  <2>2. IsDivision(left, Base, rest, low)
    BY <1>1, <2>1, Divided
  <2>3. EncodeNext(t) = next
    BY <1>3 DEF EncodeNext
  <2>4. PICK r : Carries(r, v, bytes, left)
    BY <1>1
  <2> HIDE DEF bytes, left, low, rest
  <2>5. /\ low \in Nat /\ low < Base /\ rest \in Nat /\ left = low + Base * rest /\ rest >= 1
        /\ b \in Nat /\ b >= Base
    BY <1>1, <1>3, <2>1, <2>2 DEF IsDivision
  <2>6. b % Base = low
    BY <2>1, <2>5, RemainderBehind
  <2> HIDE DEF b
  <2>7. Append(bytes, b) \in Seq(Nat) /\ Len(Append(bytes, b)) = Len(bytes) + 1
        /\ \A i \in 1 .. Len(bytes) + 1 : Append(bytes, b)[i] >= Base
    <3>1. Append(bytes, b) \in Seq(Nat) /\ Len(Append(bytes, b)) = Len(bytes) + 1
          /\ Append(bytes, b)[Len(bytes) + 1] = b
          /\ \A i \in 1 .. Len(bytes) : Append(bytes, b)[i] = bytes[i]
      BY <1>1, <2>5
    <3>2. ASSUME NEW i \in 1 .. Len(bytes) + 1 PROVE Append(bytes, b)[i] >= Base
      <4>1. CASE i = Len(bytes) + 1
        BY <2>5, <3>1, <4>1
      <4>2. CASE i # Len(bytes) + 1
        <5>1. i \in 1 .. Len(bytes)
          BY <1>1, <4>2
        <5> QED  BY <1>1, <3>1, <5>1
      <4> QED  BY <4>1, <4>2
    <3> QED  BY <3>1, <3>2
  <2>8. \E s : Carries(s, v, Append(bytes, b), rest)
    <3>1. left = (b % Base) + Base * rest
      BY <2>5, <2>6
    <3> QED  BY <1>1, <2>4, <2>5, <3>1, CarriesOn
  <2>9. Len(bytes) = k
    BY <1>1, <1>3
  <2>10. rest * Pow(k + 1) <= v
    <3> DEFINE p == Pow(k)
    <3>1. p \in Nat /\ Pow(k + 1) = Base * p
      BY BaseTypes, BaseFacts
    <3> HIDE DEF p
    <3>2. rest * (Base * p) = (Base * rest) * p /\ Base * rest \in Nat
      BY <2>1, <2>5, <3>1
    <3>3. Base * rest <= left
      BY <1>1, <2>5, <3>2
    <3>4. (Base * rest) * p <= left * p
      BY <1>1, <3>1, <3>2, <3>3, ProductMonotone
    <3>5. left * p <= v /\ left * p \in Nat /\ (Base * rest) * p \in Nat
      BY <1>1, <2>9, <3>1, <3>2, ProductType DEF p
    <3> QED  BY <3>1, <3>2, <3>4, <3>5
  <2>11. next \in [bytes : Seq(Nat), left : Nat] /\ next.bytes = Append(bytes, b)
         /\ next.left = rest
    BY <2>5, <2>7
  <2> HIDE DEF next
  <2>12. Encoded(v, next, k + 1)
    BY <2>5, <2>7, <2>8, <2>9, <2>10, <2>11 DEF Encoded
  <2> QED  BY <2>3, <2>12
<1> QED  BY <1>2, <1>3

\* A number of the width is written in bytes of which the last one ends it.
LEMMA EncodesAll ==
  ASSUME NEW v \in 0 .. Modulus - 1
  PROVE  IsVarint(v, EncodeVarint(v))
<1> DEFINE N == MaxBytes
           base == [bytes |-> <<>>, left |-> v]
           V == [bytes : Seq(Nat), left : Nat]
           Good(f) == f = [k \in 0 .. MaxBytes |->
                             IF k = 0 THEN [bytes |-> <<>>, left |-> v]
                             ELSE EncodeNext(f[k - 1])]
           turns == CHOOSE f : Good(f)
<1>1. v \in Nat /\ v < Modulus /\ Base \in Nat /\ Base >= 2 /\ Modulus \in Nat /\ N \in Nat
      /\ N > 0
  BY BaseTypes, BaseFacts
<1>2. base \in V
  BY <1>1
<1>3. EncodeVarint(v) = Append(turns[N].bytes, turns[N].left)
  BY DEF EncodeVarint
<1>4. \A f : Good(f) <=> f = [k \in 0 .. N |-> IF k = 0 THEN base ELSE EncodeNext(f[k - 1])]
  OBVIOUS
<1>5. ASSUME NEW t \in V PROVE EncodeNext(t) \in V
  <2>1. t.bytes \in Seq(Nat) /\ t.left \in Nat
    OBVIOUS
  <2>2. t.left % Base \in Nat /\ t.left \div Base \in Nat
    <3>1. Base > 0
      BY <1>1
    <3>2. IsDivision(t.left, Base, t.left \div Base, t.left % Base)
      BY <1>1, <2>1, <3>1, Divided
    <3> QED  BY <3>2 DEF IsDivision
  <2>3. Append(t.bytes, Base + (t.left % Base)) \in Seq(Nat)
    BY <1>1, <2>1, <2>2
  <2> QED  BY <2>2, <2>3 DEF EncodeNext
<1>6. Encoded(v, base, 0)
  <2> DEFINE r == [i \in 0 .. 0 |-> v]
  <2>1. Carries(r, v, <<>>, v)
    BY <1>1 DEF Carries
  <2>2. \E s : Carries(s, v, <<>>, v)
    BY <2>1
  <2>3. v * Pow(0) <= v /\ Len(<<>>) = 0
    BY <1>1, BaseTypes, BaseFacts
  <2> QED  BY <1>1, <1>2, <2>2, <2>3 DEF Encoded
<1> HIDE DEF Good, V, base, N
<1>7. Good(turns)
  <2> DEFINE step == [n \in 1 .. N |-> [t \in V |-> EncodeNext(t)]]
  <2>1. /\ step \in [1 .. N -> [V -> V]]
        /\ \A n \in 1 .. N : \A t \in V : step[n][t] = EncodeNext(t)
    BY <1>5
  <2> HIDE DEF step
  <2>2. IsRecursion(N, V, base, step)
    BY <1>1, <1>2, <2>1 DEF IsRecursion
  <2>3. PICK f : SolvesRecursion(f, N, V, base, step)
    BY <2>2, RecursionSolved
  <2>4. f \in [0 .. N -> V] /\ f[0] = base /\ \A n \in 1 .. N : f[n] = step[n][f[n - 1]]
    BY <2>3 DEF SolvesRecursion
  <2>5. \A n \in 1 .. N : f[n - 1] \in V
    BY <1>1, <2>4
  <2>6. \A n \in 1 .. N : f[n] = EncodeNext(f[n - 1])
    BY <2>1, <2>4, <2>5
  <2>7. Good(f)
    BY <1>1, <1>4, <2>4, <2>6
  <2> QED  BY <2>7
<1> HIDE DEF turns
<1>8. turns[0] = base /\ \A k \in 1 .. N : turns[k] = EncodeNext(turns[k - 1])
  BY <1>1, <1>4, <1>7
<1> DEFINE T == {k \in 0 .. N : Encoded(v, turns[k], k)}
<1>9. 0 \in T
  BY <1>1, <1>6, <1>8
<1>10. ASSUME NEW k \in 0 .. N, k < N, k \in T PROVE k + 1 \in T
  <2>1. turns[k + 1] = EncodeNext(turns[k])
    BY <1>1, <1>8, <1>10
  <2>2. Encoded(v, turns[k + 1], k + 1)
    BY <1>1, <1>10, <2>1, EncodesOne
  <2> QED  BY <1>1, <1>10, <2>2
<1>11. Encoded(v, turns[N], N)
  <2>1. \A k \in 0 .. N : k < N /\ k \in T => k + 1 \in T
    BY <1>10
  <2> HIDE DEF T
  <2>2. \A k \in 0 .. N : k \in T
    BY <1>1, <1>9, <2>1, InductionUpTo
  <2> QED  BY <1>1, <2>2 DEF T
<1> DEFINE bytes == turns[N].bytes
           left == turns[N].left
           n == Len(bytes)
<1>12. /\ bytes \in Seq(Nat) /\ left \in Nat /\ n \in Nat
       /\ \A i \in 1 .. n : bytes[i] >= Base
       /\ \E r : Carries(r, v, bytes, left)
       /\ left < Base \/ n = N
       /\ left * Pow(n) <= v /\ (n > 0 => left >= 1)
  BY <1>11 DEF Encoded
<1>13. EncodeVarint(v) = Append(bytes, left)
  BY <1>3
<1> HIDE DEF bytes, left, n
<1>14. n < N
  <2>1. CASE n >= N
    <3>1. Pow(N) <= Pow(n) /\ Pow(n) \in Nat /\ Modulus <= Pow(N) /\ Pow(N) \in Nat
      BY <1>1, <1>12, <2>1, BaseTypes, BaseFacts DEF N
    <3>2. Pow(n) <= left * Pow(n)
      <4>1. left >= 1 /\ 1 * Pow(n) = Pow(n)
        BY <1>1, <1>12, <2>1, <3>1
      <4> QED  BY <1>12, <3>1, <4>1, ProductMonotone
    <3>3. left * Pow(n) \in Nat
      BY <1>12, <3>1, ProductType
    <3> QED  BY <1>1, <1>12, <3>1, <3>2, <3>3
  <2> QED  BY <1>1, <1>12, <2>1
<1>15. left < Base
  BY <1>1, <1>12, <1>14
<1>16. PICK r : Carries(r, v, bytes, left)
  BY <1>12
<1>17. \E s : Carries(s, v, Append(bytes, left), 0)
  <2>1. left % Base = left /\ Base * 0 = 0
    BY <1>1, <1>12, <1>15, RemainderBehind
  <2>2. left = (left % Base) + Base * 0
    BY <1>12, <2>1
  <2> QED  BY <1>1, <1>12, <1>16, <2>2, CarriesOn
<1>18. /\ Append(bytes, left) \in Seq(Nat) /\ Len(Append(bytes, left)) = n + 1
       /\ Append(bytes, left)[n + 1] = left
       /\ \A i \in 1 .. n : Append(bytes, left)[i] = bytes[i]
  BY <1>12 DEF n
<1>19. \A i \in 1 .. n + 1 : i < n + 1 => Append(bytes, left)[i] >= Base
  BY <1>12, <1>18
<1> QED  BY <1>1, <1>12, <1>13, <1>14, <1>15, <1>17, <1>18, <1>19 DEF IsVarint, N

\* One step of the reader: what is read and what is left are the number.
LEMMA ReadOn ==
  ASSUME NEW x \in Nat, NEW d \in Nat, NEW s \in Nat, NEW b \in Nat, NEW r \in Nat
  PROVE  (x + d * s) + (s * b) * r = x + s * (d + b * r)
  OBVIOUS

\* A run of the reader over some bytes.
VarintTurn(bytes, k, t) ==
  [value   |-> t.value + (bytes[k] % Base) * t.shifted,
   shifted |-> t.shifted * Base]

VarintRun(g, bytes) ==
  /\ g \in [0 .. Len(bytes) -> [value : Nat, shifted : Nat]]
  /\ g[0] = [value |-> 0, shifted |-> 1]
  /\ \A k \in 1 .. Len(bytes) : g[k] = VarintTurn(bytes, k, g[k - 1])

VarintEnds(bytes) == {i \in DOMAIN bytes : bytes[i] < Base}

\* decode_varint reads up to the first byte without the high bit.
LEMMA VarintReads ==
  ASSUME NEW bytes \in Seq(Nat)
  PROVE  \E g : /\ VarintRun(g, bytes)
                /\ DecodeVarint(bytes)
                     = IF VarintEnds(bytes) = {} \/ Min(VarintEnds(bytes)) > MaxBytes
                         THEN NoValue
                       ELSE [value    |-> g[Min(VarintEnds(bytes))].value % Modulus,
                             consumed |-> Min(VarintEnds(bytes))]
<1> DEFINE N == Len(bytes)
           base == [value |-> 0, shifted |-> 1]
           V == [value : Nat, shifted : Nat]
           Good(f) == f = [k \in 0 .. Len(bytes) |->
                             IF k = 0 THEN [value |-> 0, shifted |-> 1]
                             ELSE LET t == f[k - 1]
                                  IN  [value   |-> t.value + (bytes[k] % Base) * t.shifted,
                                       shifted |-> t.shifted * Base]]
           turns == CHOOSE f : Good(f)
<1>1. N \in Nat /\ base \in V /\ Base \in Nat /\ Base > 0
  BY BaseTypes
<1>2. DecodeVarint(bytes)
        = IF VarintEnds(bytes) = {} \/ Min(VarintEnds(bytes)) > MaxBytes THEN NoValue
          ELSE [value    |-> turns[Min(VarintEnds(bytes))].value % Modulus,
                consumed |-> Min(VarintEnds(bytes))]
  BY DEF DecodeVarint, VarintEnds
<1>3. \A f : Good(f) <=> f = [k \in 0 .. N |-> IF k = 0 THEN base
                                                ELSE VarintTurn(bytes, k, f[k - 1])]
  BY DEF VarintTurn
<1>4. ASSUME NEW k \in 1 .. N, NEW t \in V PROVE VarintTurn(bytes, k, t) \in V
  <2>1. bytes[k] \in Nat /\ t.value \in Nat /\ t.shifted \in Nat
    OBVIOUS
  <2>2. bytes[k] % Base \in Nat
    <3>1. IsDivision(bytes[k], Base, bytes[k] \div Base, bytes[k] % Base)
      BY <1>1, <2>1, Divided
    <3> QED  BY <3>1 DEF IsDivision
  <2>3. (bytes[k] % Base) * t.shifted \in Nat /\ t.shifted * Base \in Nat
    BY <1>1, <2>1, <2>2, ProductType
  <2> QED  BY <2>1, <2>3 DEF VarintTurn
<1> HIDE DEF Good, V, base, N
<1>5. Good(turns)
  <2> DEFINE step == [n \in 1 .. N |-> [t \in V |-> VarintTurn(bytes, n, t)]]
  <2>1. /\ step \in [1 .. N -> [V -> V]]
        /\ \A n \in 1 .. N : \A t \in V : step[n][t] = VarintTurn(bytes, n, t)
    BY <1>4
  <2> HIDE DEF step
  <2>2. IsRecursion(N, V, base, step)
    BY <1>1, <2>1 DEF IsRecursion
  <2>3. PICK f : SolvesRecursion(f, N, V, base, step)
    BY <2>2, RecursionSolved
  <2>4. f \in [0 .. N -> V] /\ f[0] = base /\ \A n \in 1 .. N : f[n] = step[n][f[n - 1]]
    BY <2>3 DEF SolvesRecursion
  <2>5. \A n \in 1 .. N : f[n - 1] \in V
    BY <1>1, <2>4
  <2>6. \A n \in 1 .. N : f[n] = VarintTurn(bytes, n, f[n - 1])
    BY <2>1, <2>4, <2>5
  <2>7. \A n \in 0 .. N : f[n] = IF n = 0 THEN base ELSE VarintTurn(bytes, n, f[n - 1])
    BY <1>1, <2>4, <2>6
  <2>8. f = [n \in 0 .. N |-> IF n = 0 THEN base ELSE VarintTurn(bytes, n, f[n - 1])]
    BY <2>4, <2>7
  <2> QED  BY <1>3, <2>8
<1> HIDE DEF turns
<1>6. turns[0] = base /\ \A k \in 1 .. N : turns[k] = VarintTurn(bytes, k, turns[k - 1])
  BY <1>1, <1>3, <1>5
<1>7. turns \in [0 .. N -> V]
  <2>1. turns = [k \in 0 .. N |-> turns[k]]
    BY <1>3, <1>5
  <2> DEFINE T == {k \in 0 .. N : turns[k] \in V}
  <2>2. 0 \in T
    BY <1>1, <1>6
  <2>3. ASSUME NEW k \in 0 .. N, k < N, k \in T PROVE k + 1 \in T
    <3>1. k + 1 \in 1 .. N /\ (k + 1) - 1 = k
      BY <1>1, <2>3
    <3> QED  BY <1>4, <1>6, <2>3, <3>1
  <2>4. \A k \in 0 .. N : k < N /\ k \in T => k + 1 \in T
    BY <2>3
  <2> HIDE DEF T
  <2>5. \A k \in 0 .. N : k \in T
    BY <1>1, <2>2, <2>4, InductionUpTo
  <2>6. \A k \in 0 .. N : turns[k] \in V
    BY <2>5 DEF T
  <2> QED  BY <2>1, <2>6
<1>8. VarintRun(turns, bytes)
  BY <1>6, <1>7 DEF VarintRun, V, base, N
<1> QED  BY <1>2, <1>8

\* Reading bytes that begin with those of a number.
LEMMA ReadsBackOne ==
  ASSUME NEW v \in 0 .. Modulus - 1, NEW e, IsVarint(v, e),
         NEW bytes \in Seq(Nat), Len(e) <= Len(bytes),
         \A i \in 1 .. Len(e) : bytes[i] = e[i]
  PROVE  DecodeVarint(bytes) = [value |-> v, consumed |-> Len(e)]
<1> DEFINE n == Len(e)
           ends == VarintEnds(bytes)
<1>1. /\ v \in Nat /\ v < Modulus /\ Base \in Nat /\ Base > 0 /\ Modulus \in Nat
      /\ MaxBytes \in Nat
  BY BaseTypes, BaseFacts
<1>2. /\ e \in Seq(Nat) /\ n \in 1 .. MaxBytes /\ n \in Nat /\ e[n] < Base
      /\ \A i \in 1 .. n : i < n => e[i] >= Base
      /\ \E r : Carries(r, v, e, 0)
  BY <1>1 DEF IsVarint
<1>3. Len(bytes) \in Nat /\ DOMAIN bytes = 1 .. Len(bytes) /\ n \in 1 .. Len(bytes)
  BY <1>2
<1>4. ends # {} /\ Min(ends) = n
  <2>1. n \in ends
    BY <1>2, <1>3 DEF VarintEnds
  <2>2. ASSUME NEW i \in ends PROVE n <= i
    <3>1. i \in 1 .. Len(bytes) /\ bytes[i] < Base /\ bytes[i] \in Nat
      BY <1>3, <2>2 DEF VarintEnds
    <3>2. CASE i < n
      <4>1. i \in 1 .. n /\ e[i] >= Base /\ bytes[i] = e[i]
        BY <1>2, <1>3, <3>1, <3>2
      <4> QED  BY <1>1, <3>1, <4>1
    <3> QED  BY <1>2, <3>1, <3>2
  <2>3. \A i \in ends : i \in Nat
    BY <1>3 DEF VarintEnds
  <2> HIDE DEF ends, n
  <2>4. \A x \in ends : (\A y \in ends : x <= y) => x = n
    BY <1>2, <2>1, <2>2, <2>3
  <2>5. \E x \in ends : \A y \in ends : x <= y
    BY <2>1, <2>2
  <2>6. Min(ends) \in ends /\ \A y \in ends : Min(ends) <= y
    BY <2>5 DEF Min
  <2> QED  BY <2>1, <2>4, <2>6
<1>5. PICK g : /\ VarintRun(g, bytes)
               /\ DecodeVarint(bytes)
                    = IF ends = {} \/ Min(ends) > MaxBytes THEN NoValue
                      ELSE [value |-> g[Min(ends)].value % Modulus, consumed |-> Min(ends)]
  BY VarintReads
<1>6. DecodeVarint(bytes) = [value |-> g[n].value % Modulus, consumed |-> n]
  BY <1>1, <1>2, <1>4, <1>5
<1>7. PICK r : Carries(r, v, e, 0)
  BY <1>2
<1>8. /\ r \in [0 .. n -> Nat] /\ r[0] = v /\ r[n] = 0
      /\ \A i \in 1 .. n : r[i - 1] = (e[i] % Base) + Base * r[i]
  BY <1>7 DEF Carries
<1>9. /\ \A k \in 0 .. Len(bytes) : g[k] \in [value : Nat, shifted : Nat]
      /\ g[0] = [value |-> 0, shifted |-> 1]
      /\ \A k \in 1 .. Len(bytes) : g[k] = VarintTurn(bytes, k, g[k - 1])
  BY <1>5 DEF VarintRun
<1> HIDE DEF n, ends
<1> DEFINE T == {k \in 0 .. n : g[k].value + g[k].shifted * r[k] = v}
<1>10. 0 \in T
  <2>1. g[0].value = 0 /\ g[0].shifted = 1
    BY <1>9
  <2>2. 0 + 1 * v = v /\ 0 \in 0 .. n
    BY <1>1, <1>2
  <2> QED  BY <1>8, <2>1, <2>2
<1>11. ASSUME NEW k \in 0 .. n, k < n, k \in T PROVE k + 1 \in T
  <2> DEFINE x == g[k].value
             s == g[k].shifted
             d == bytes[k + 1] % Base
  <2>1. k + 1 \in 1 .. n /\ (k + 1) - 1 = k /\ k \in 0 .. Len(bytes) /\ k + 1 \in 1 .. Len(bytes)
    BY <1>2, <1>3, <1>11
  <2>2. g[k + 1] = VarintTurn(bytes, k + 1, g[k]) /\ g[k] \in [value : Nat, shifted : Nat]
    BY <1>9, <2>1
  <2>3. x \in Nat /\ s \in Nat
    BY <2>2
  <2>4. g[k + 1].value = x + d * s /\ g[k + 1].shifted = s * Base
    BY <2>2 DEF VarintTurn
  <2>5. bytes[k + 1] = e[k + 1] /\ bytes[k + 1] \in Nat
    BY <1>2, <2>1 DEF n
  <2>6. r[k] = (e[k + 1] % Base) + Base * r[k + 1] /\ r[k + 1] \in Nat /\ r[k] \in Nat
    <3>1. r[(k + 1) - 1] = (e[k + 1] % Base) + Base * r[k + 1]
      BY <1>8, <2>1
    <3>2. k + 1 \in 0 .. n
      BY <1>2, <2>1
    <3>3. r[k + 1] \in Nat /\ r[k] \in Nat
      BY <1>8, <3>2
    <3> QED  BY <2>1, <3>1, <3>3
  <2>7. d \in Nat
    <3>1. IsDivision(bytes[k + 1], Base, bytes[k + 1] \div Base, d)
      BY <1>1, <2>5, Divided
    <3> QED  BY <3>1 DEF IsDivision
  <2>8. r[k] = d + Base * r[k + 1]
    BY <2>5, <2>6
  <2> HIDE DEF x, s, d
  <2>9. (x + d * s) + (s * Base) * r[k + 1] = x + s * (d + Base * r[k + 1])
    BY <1>1, <2>3, <2>6, <2>7, ReadOn
  <2>10. x + s * r[k] = v
    BY <1>11 DEF x, s
  <2> QED  BY <2>1, <2>4, <2>8, <2>9, <2>10
<1>12. g[n].value + g[n].shifted * r[n] = v
  <2>1. \A k \in 0 .. n : k < n /\ k \in T => k + 1 \in T
    BY <1>11
  <2> HIDE DEF T
  <2>2. \A k \in 0 .. n : k \in T
    BY <1>2, <1>10, <2>1, InductionUpTo
  <2> QED  BY <1>2, <2>2 DEF T
<1>13. g[n] \in [value : Nat, shifted : Nat]
  BY <1>3, <1>9
<1>14. g[n].value = v
  BY <1>1, <1>8, <1>12, <1>13
<1>15. v % Modulus = v
  BY <1>1, RemainderBehind
<1> QED  BY <1>6, <1>14, <1>15 DEF n

LEMMA VarintType ==
  ASSUME NEW bytes \in Seq(Nat)
  PROVE  DecodeVarint(bytes) \in [value : Nat, consumed : Nat]
<1> DEFINE ends == VarintEnds(bytes)
<1>1. PICK g : /\ VarintRun(g, bytes)
               /\ DecodeVarint(bytes)
                    = IF ends = {} \/ Min(ends) > MaxBytes THEN NoValue
                      ELSE [value |-> g[Min(ends)].value % Modulus, consumed |-> Min(ends)]
  BY VarintReads
<1>2. CASE ends = {} \/ Min(ends) > MaxBytes
  BY <1>1, <1>2 DEF NoValue
<1>3. CASE ~(ends = {} \/ Min(ends) > MaxBytes)
  <2>1. ends \subseteq Nat /\ ends # {} /\ ends \subseteq 0 .. Len(bytes)
    BY <1>3 DEF VarintEnds
  <2> HIDE DEF ends
  <2>2. Min(ends) \in ends
    BY <2>1, MinIn
  <2>3. g[Min(ends)] \in [value : Nat, shifted : Nat]
    BY <1>1, <2>1, <2>2 DEF VarintRun
  <2>4. g[Min(ends)].value % Modulus \in Nat
    <3> DEFINE x == g[Min(ends)].value
    <3>1. x \in Nat /\ Modulus \in Nat /\ Modulus > 0
      BY <2>3, BaseTypes
    <3> HIDE DEF x
    <3>2. IsDivision(x, Modulus, x \div Modulus, x % Modulus)
      BY <3>1, Divided
    <3> QED  BY <3>2 DEF IsDivision, x
  <2> DEFINE y == g[Min(ends)].value % Modulus
  <2>5. DecodeVarint(bytes) = [value |-> y, consumed |-> Min(ends)]
    BY <1>1, <1>3
  <2> HIDE DEF y
  <2>6. Min(ends) \in Nat
    BY <2>1, <2>2
  <2> QED  BY <2>4, <2>5, <2>6 DEF y
<1> QED  BY <1>2, <1>3

\* The differences of a list of numbers, and the bytes of the first ones.
Prior(list, i) == IF i = 1 THEN 0 ELSE list[i - 1]
DeltaOf(list, i) == (Modulus + list[i] - Prior(list, i)) % Modulus

DeltaRun(E, list) ==
  /\ E \in [0 .. Len(list) -> Seq(Nat)]
  /\ E[0] = <<>>
  /\ \A k \in 1 .. Len(list) : E[k] = E[k - 1] \o EncodeVarint(DeltaOf(list, k))

LEMMA DeltaFacts ==
  ASSUME NEW list \in Seq(0 .. Modulus - 1), NEW i \in 1 .. Len(list)
  PROVE  /\ DeltaOf(list, i) \in 0 .. Modulus - 1
         /\ Prior(list, i) \in 0 .. Modulus - 1
         /\ (Prior(list, i) + DeltaOf(list, i)) % Modulus = list[i]
<1> DEFINE M == Modulus
           x == list[i]
           p == Prior(list, i)
           d == (M + x - p) % M
<1>1. M \in Nat /\ M > 0
  BY BaseTypes
<1>2. x \in 0 .. M - 1
  BY <1>1
<1>3. p \in 0 .. M - 1
  <2>1. CASE i = 1
    BY <1>1, <2>1 DEF Prior
  <2>2. CASE i # 1
    <3>1. i - 1 \in 1 .. Len(list)
      BY <2>2
    <3>2. p = list[i - 1]
      BY <2>2 DEF Prior
    <3> HIDE DEF M, p, x, d
    <3>3. list[i - 1] \in 0 .. Modulus - 1
      BY <3>1, BaseTypes
    <3> QED  BY <3>2, <3>3 DEF M
  <2> QED  BY <2>1, <2>2
<1>4. DeltaOf(list, i) = d
  BY DEF DeltaOf
<1> HIDE DEF M, x, p
<1>5. /\ x >= p => d = x - p
      /\ x < p => d = M + x - p
  <2>1. M \in Nat /\ p \in Nat /\ x \in Nat /\ p < M /\ x < M
    BY <1>1, <1>2, <1>3
  <2> QED  BY <2>1, WrapsBack
<1> HIDE DEF d
<1>6. d \in 0 .. M - 1
  BY <1>1, <1>2, <1>3, <1>5
<1>7. (p + d) % M = x
  <2>1. M \in Nat /\ p \in Nat /\ d \in Nat /\ p < M /\ d < M
    BY <1>1, <1>3, <1>6
  <2>2. /\ p + d < M => (p + d) % M = p + d
        /\ p + d >= M => (p + d) % M = p + d - M
    BY <2>1, Wraps
  <2> QED  BY <1>1, <1>2, <1>3, <1>5, <2>1, <2>2
<1> QED  BY <1>3, <1>4, <1>6, <1>7 DEF M, x, p

\* delta_encode is such a run.
LEMMA DeltaWrites ==
  ASSUME NEW list \in Seq(0 .. Modulus - 1)
  PROVE  \E E : DeltaRun(E, list) /\ DeltaEncode(list) = E[Len(list)]
<1> DEFINE N == Len(list)
           V == Seq(Nat)
           Good(f) == f = [k \in 0 .. Len(list) |->
                             IF k = 0 THEN <<>>
                             ELSE f[k - 1] \o
                                  EncodeVarint((Modulus + list[k]
                                                - (IF k = 1 THEN 0 ELSE list[k - 1])) % Modulus)]
           turns == CHOOSE f : Good(f)
           Turn(k, t) == t \o EncodeVarint(DeltaOf(list, k))
<1>1. N \in Nat /\ <<>> \in V
  OBVIOUS
<1>2. DeltaEncode(list) = turns[N]
  BY DEF DeltaEncode
<1>3. \A f : Good(f) <=> f = [k \in 0 .. N |-> IF k = 0 THEN <<>> ELSE Turn(k, f[k - 1])]
  BY DEF DeltaOf, Prior
<1>4. ASSUME NEW k \in 1 .. N, NEW t \in V PROVE Turn(k, t) \in V
  <2>1. IsVarint(DeltaOf(list, k), EncodeVarint(DeltaOf(list, k)))
    BY DeltaFacts, EncodesAll
  <2>2. EncodeVarint(DeltaOf(list, k)) \in Seq(Nat)
    BY <2>1 DEF IsVarint
  <2> QED  BY <2>2
<1> HIDE DEF Good, V, N, Turn
<1>5. PICK f : /\ f \in [0 .. N -> V] /\ f[0] = <<>>
               /\ \A n \in 1 .. N : f[n] = Turn(n, f[n - 1])
  <2> DEFINE step == [n \in 1 .. N |-> [t \in V |-> Turn(n, t)]]
  <2>1. /\ step \in [1 .. N -> [V -> V]]
        /\ \A n \in 1 .. N : \A t \in V : step[n][t] = Turn(n, t)
    BY <1>4
  <2> HIDE DEF step
  <2>2. IsRecursion(N, V, <<>>, step)
    BY <1>1, <2>1 DEF IsRecursion
  <2>3. PICK f : SolvesRecursion(f, N, V, <<>>, step)
    BY <2>2, RecursionSolved
  <2>4. f \in [0 .. N -> V] /\ f[0] = <<>> /\ \A n \in 1 .. N : f[n] = step[n][f[n - 1]]
    BY <2>3 DEF SolvesRecursion
  <2>5. \A n \in 1 .. N : f[n - 1] \in V
    BY <1>1, <2>4
  <2>6. \A n \in 1 .. N : f[n] = Turn(n, f[n - 1])
    BY <2>1, <2>4, <2>5
  <2> QED  BY <2>4, <2>6
<1>6. Good(f)
  <2>1. \A n \in 0 .. N : f[n] = IF n = 0 THEN <<>> ELSE Turn(n, f[n - 1])
    BY <1>1, <1>5
  <2>2. f = [n \in 0 .. N |-> IF n = 0 THEN <<>> ELSE Turn(n, f[n - 1])]
    BY <1>5, <2>1
  <2> QED  BY <1>3, <2>2
<1>7. Good(turns)
  BY <1>6
<1> HIDE DEF turns
<1>8. \A k \in 0 .. N : turns[k] = IF k = 0 THEN <<>> ELSE Turn(k, turns[k - 1])
  BY <1>3, <1>7
<1> DEFINE T == {k \in 0 .. N : turns[k] \in V}
<1>9. 0 \in T
  BY <1>1, <1>8
<1>10. ASSUME NEW k \in 0 .. N, k < N, k \in T PROVE k + 1 \in T
  <2>1. k + 1 \in 1 .. N /\ (k + 1) - 1 = k /\ k + 1 # 0 /\ k + 1 \in 0 .. N
    BY <1>1, <1>10
  <2>2. turns[k + 1] = Turn(k + 1, turns[k])
    BY <1>8, <2>1
  <2> QED  BY <1>4, <1>10, <2>1, <2>2
<1>11. \A k \in 0 .. N : turns[k] \in V
  <2>1. \A k \in 0 .. N : k < N /\ k \in T => k + 1 \in T
    BY <1>10
  <2> HIDE DEF T
  <2>2. \A k \in 0 .. N : k \in T
    BY <1>1, <1>9, <2>1, InductionUpTo
  <2> QED  BY <2>2 DEF T
<1>12. turns = [k \in 0 .. N |-> IF k = 0 THEN <<>> ELSE Turn(k, turns[k - 1])]
  BY <1>3, <1>7
<1>13. DeltaRun(turns, list)
  <2>1. turns \in [0 .. N -> V]
    BY <1>11, <1>12
  <2>2. turns[0] = <<>> /\ \A k \in 1 .. N : turns[k] = Turn(k, turns[k - 1])
    BY <1>1, <1>8
  <2> QED  BY <2>1, <2>2 DEF DeltaRun, N, V, Turn
<1> QED  BY <1>2, <1>13 DEF N

\* What was written first stays where it is.
LEMMA StaysWritten ==
  ASSUME NEW list \in Seq(0 .. Modulus - 1), NEW E, DeltaRun(E, list),
         NEW j \in 0 .. Len(list)
  PROVE  \A k \in 0 .. Len(list) : j <= k =>
           Len(E[j]) <= Len(E[k]) /\ \A i \in 1 .. Len(E[j]) : E[k][i] = E[j][i]
<1> DEFINE N == Len(list)
           T == {k \in 0 .. N : j <= k =>
                   Len(E[j]) <= Len(E[k]) /\ \A i \in 1 .. Len(E[j]) : E[k][i] = E[j][i]}
<1>1. /\ N \in Nat /\ \A k \in 0 .. N : E[k] \in Seq(Nat) /\ Len(E[k]) \in Nat
      /\ \A k \in 1 .. N : E[k] = E[k - 1] \o EncodeVarint(DeltaOf(list, k))
  <2>1. N \in Nat /\ E \in [0 .. N -> Seq(Nat)]
    BY DEF DeltaRun
  <2>2. \A k \in 1 .. N : E[k] = E[k - 1] \o EncodeVarint(DeltaOf(list, k))
    BY DEF DeltaRun
  <2> HIDE DEF N, T
  <2>3. \A k \in 0 .. N : E[k] \in Seq(Nat) /\ Len(E[k]) \in Nat
    BY <2>1
  <2> QED  BY <2>1, <2>2, <2>3
<1>2. 0 \in T
  BY <1>1
<1>3. ASSUME NEW k \in 0 .. N, k < N, k \in T PROVE k + 1 \in T
  <2>1. k + 1 \in 1 .. N /\ (k + 1) - 1 = k /\ k + 1 \in 0 .. N
    BY <1>1, <1>3
  <2> DEFINE e == EncodeVarint(DeltaOf(list, k + 1))
  <2>2. E[k + 1] = E[k] \o e
    BY <1>1, <2>1
  <2>3. e \in Seq(Nat)
    <3>1. IsVarint(DeltaOf(list, k + 1), e)
      BY <2>1, DeltaFacts, EncodesAll
    <3> QED  BY <3>1 DEF IsVarint
  <2> HIDE DEF e, N
  <2>4. Len(E[k]) <= Len(E[k + 1]) /\ \A i \in 1 .. Len(E[k]) : E[k + 1][i] = E[k][i]
    BY <1>1, <2>2, <2>3
  <2>5. CASE j = k + 1
    BY <1>1, <2>1, <2>5
  <2>6. CASE j <= k
    <3>1. Len(E[j]) <= Len(E[k]) /\ \A i \in 1 .. Len(E[j]) : E[k][i] = E[j][i]
      BY <1>3, <2>6
    <3>2. Len(E[j]) \in Nat /\ Len(E[k]) \in Nat /\ Len(E[k + 1]) \in Nat
      BY <1>1, <2>1 DEF N
    <3>3. \A i \in 1 .. Len(E[j]) : i \in 1 .. Len(E[k])
      BY <3>1, <3>2
    <3>4. \A i \in 1 .. Len(E[j]) : E[k + 1][i] = E[j][i]
      BY <2>4, <3>1, <3>3
    <3>5. Len(E[j]) <= Len(E[k + 1])
      BY <2>4, <3>1, <3>2
    <3> QED  BY <2>1, <3>4, <3>5
  <2> QED  BY <1>1, <2>1, <2>5, <2>6 DEF N
<1> HIDE DEF N, T
<1>4. \A k \in 0 .. N : k \in T
  BY <1>1, <1>2, <1>3, InductionUpTo
<1> QED  BY <1>4 DEF N, T

\* Each number takes a byte at least.
LEMMA BytesPerNumber ==
  ASSUME NEW list \in Seq(0 .. Modulus - 1), NEW E, DeltaRun(E, list)
  PROVE  Len(list) <= Len(E[Len(list)])
<1> DEFINE N == Len(list)
           T == {k \in 0 .. N : k <= Len(E[k])}
<1>1. N \in Nat /\ E \in [0 .. N -> Seq(Nat)] /\ E[0] = <<>>
  BY DEF DeltaRun
<1>2. \A k \in 1 .. N : E[k] = E[k - 1] \o EncodeVarint(DeltaOf(list, k))
  BY DEF DeltaRun
<1>3. 0 \in T
  BY <1>1
<1>4. ASSUME NEW k \in 0 .. N, k < N, k \in T PROVE k + 1 \in T
  <2> DEFINE e == EncodeVarint(DeltaOf(list, k + 1))
  <2>1. k + 1 \in 1 .. N /\ (k + 1) - 1 = k /\ k + 1 \in 0 .. N
    BY <1>1, <1>4
  <2>2. E[k + 1] = E[k] \o e /\ E[k] \in Seq(Nat)
    BY <1>1, <1>2, <2>1
  <2>3. e \in Seq(Nat) /\ Len(e) >= 1
    <3>1. IsVarint(DeltaOf(list, k + 1), e)
      BY <2>1, DeltaFacts, EncodesAll
    <3> QED  BY <3>1, BaseTypes, BaseFacts DEF IsVarint
  <2> HIDE DEF e, N
  <2>4. Len(E[k + 1]) = Len(E[k]) + Len(e) /\ Len(E[k]) \in Nat /\ Len(e) \in Nat
    BY <2>2, <2>3
  <2>5. k <= Len(E[k])
    BY <1>4
  <2>6. k + 1 <= Len(E[k + 1])
    BY <1>1, <2>3, <2>4, <2>5
  <2> QED  BY <2>1, <2>6 DEF N
<1> HIDE DEF N, T
<1>5. \A k \in 0 .. N : k \in T
  BY <1>1, <1>3, <1>4, InductionUpTo
<1>6. N \in T
  BY <1>1, <1>5
<1> QED  BY <1>6 DEF N, T

\* The reader behind the first k numbers.
ReadTo(list, E, k) ==
  [pos |-> Len(E[k]), prev |-> Prior(list, k + 1), numbers |-> SubSeq(list, 1, k)]

\* A turn of delta_decode reads one number more of what is written.
LEMMA DecodesOne ==
  ASSUME NEW list \in Seq(0 .. Modulus - 1), NEW E, DeltaRun(E, list),
         NEW k \in 0 .. Len(list), k < Len(list)
  PROVE  DecodeNext(E[Len(list)], ReadTo(list, E, k)) = ReadTo(list, E, k + 1)
<1> DEFINE N == Len(list)
           all == E[N]
           p == Len(E[k])
           v == DeltaOf(list, k + 1)
           e == EncodeVarint(v)
           left == SubSeq(all, p + 1, Len(all))
<1>1. N \in Nat /\ k + 1 \in 1 .. N /\ (k + 1) - 1 = k /\ k + 1 \in 0 .. N /\ N \in 0 .. N
      /\ k + 1 <= N /\ k <= N
  OBVIOUS
<1>2. E \in [0 .. N -> Seq(Nat)] /\ E[k + 1] = E[k] \o e
  BY <1>1 DEF DeltaRun
<1>3. v \in 0 .. Modulus - 1 /\ (Prior(list, k + 1) + v) % Modulus = list[k + 1]
  BY <1>1, DeltaFacts
<1>4. IsVarint(v, e)
  BY <1>3, EncodesAll
<1>5. e \in Seq(Nat) /\ Len(e) \in Nat /\ Len(e) >= 1
  BY <1>4, BaseTypes, BaseFacts DEF IsVarint
<1>6. /\ Len(E[k + 1]) <= Len(all)
      /\ \A i \in 1 .. Len(E[k + 1]) : all[i] = E[k + 1][i]
  BY <1>1, StaysWritten
<1> HIDE DEF N, v, e
<1>7. E[k] \in Seq(Nat) /\ all \in Seq(Nat) /\ p \in Nat /\ Len(all) \in Nat
  BY <1>1, <1>2
<1> HIDE DEF all
<1>8. /\ Len(E[k + 1]) = p + Len(e) /\ E[k + 1] \in Seq(Nat)
      /\ \A i \in 1 .. Len(e) : E[k + 1][p + i] = e[i]
  BY <1>2, <1>5, <1>7
<1> HIDE DEF p
<1>9. /\ left \in Seq(Nat) /\ Len(left) = Len(all) - p
      /\ \A i \in 1 .. Len(all) - p : left[i] = all[p + i]
  <2>1. p <= Len(all)
    BY <1>5, <1>6, <1>7, <1>8
  <2>2. IsPiece(Nat, all, p, Len(all), left)
    BY <1>7, PieceFacts DEF left
  <2> QED  BY <2>1, <2>2 DEF IsPiece
<1> HIDE DEF left
<1>10. Len(e) <= Len(left) /\ \A i \in 1 .. Len(e) : left[i] = e[i]
  <2>1. Len(e) <= Len(left)
    BY <1>5, <1>6, <1>7, <1>8, <1>9
  <2>2. ASSUME NEW i \in 1 .. Len(e) PROVE left[i] = e[i]
    <3>1. i \in 1 .. Len(all) - p /\ p + i \in 1 .. Len(E[k + 1])
      BY <1>5, <1>6, <1>7, <1>8, <2>2
    <3> QED  BY <1>6, <1>8, <1>9, <2>2, <3>1
  <2> QED  BY <2>1, <2>2
<1>11. DecodeVarint(left) = [value |-> v, consumed |-> Len(e)]
  BY <1>3, <1>4, <1>9, <1>10, ReadsBackOne
<1> DEFINE t == ReadTo(list, E, k)
<1>12. t.pos = p /\ t.prev = Prior(list, k + 1) /\ t.numbers = SubSeq(list, 1, k)
  BY DEF ReadTo, p
<1> HIDE DEF t
<1>13. DecodeNext(all, t)
         = [pos |-> p + Len(e), prev |-> list[k + 1],
            numbers |-> Append(SubSeq(list, 1, k), list[k + 1])]
  <2>1. DecodeVarint(SubSeq(all, t.pos + 1, Len(all))) = [value |-> v, consumed |-> Len(e)]
    BY <1>11, <1>12 DEF left
  <2> DEFINE d == DecodeVarint(SubSeq(all, t.pos + 1, Len(all)))
             sum == (t.prev + d.value) % Modulus
             number == (t.prev + v) % Modulus
  <2>4. DecodeNext(all, t)
          = IF d.consumed = 0 THEN t
            ELSE [pos |-> t.pos + d.consumed, prev |-> sum, numbers |-> Append(t.numbers, sum)]
    BY DEF DecodeNext
  <2>5. d.consumed = Len(e) /\ d.consumed # 0 /\ d.value = v
    BY <1>5, <2>1
  <2> HIDE DEF d
  <2>6. sum = number
    BY <2>5
  <2> HIDE DEF sum, number
  <2>2. DecodeNext(all, t)
          = [pos |-> t.pos + Len(e), prev |-> number, numbers |-> Append(t.numbers, number)]
    BY <2>4, <2>5, <2>6
  <2>3. number = list[k + 1]
    BY <1>3, <1>12 DEF number
  <2> QED  BY <1>12, <2>2, <2>3
<1>14. Append(SubSeq(list, 1, k), list[k + 1]) = SubSeq(list, 1, k + 1)
  <2>1. k \in Nat /\ k + 1 <= Len(list)
    BY <1>1 DEF N
  <2> QED  BY <2>1
<1>15. Prior(list, (k + 1) + 1) = list[k + 1]
  BY <1>1 DEF Prior
<1> QED  BY <1>8, <1>13, <1>14, <1>15 DEF ReadTo, t, all, N

\* Behind the last number nothing is left.
LEMMA NothingLeft ==
  ASSUME NEW b \in Seq(Nat), NEW t, t.pos = Len(b)
  PROVE  DecodeNext(b, t) = t
<1>1. SubSeq(b, t.pos + 1, Len(b)) = <<>>
  BY SubSeqEmpty
<1>2. DecodeVarint(<<>>).consumed = 0
  <2>1. VarintEnds(<<>>) = {}
    BY DEF VarintEnds
  <2>2. DecodeVarint(<<>>) = NoValue
    BY <2>1 DEF DecodeVarint, VarintEnds
  <2> QED  BY <2>2 DEF NoValue
<1> QED  BY <1>1, <1>2 DEF DecodeNext

LEMMA DecodeTypes ==
  ASSUME NEW b \in Seq(Nat), NEW t \in [pos : Nat, prev : Nat, numbers : Seq(Nat)]
  PROVE  DecodeNext(b, t) \in [pos : Nat, prev : Nat, numbers : Seq(Nat)]
<1> DEFINE d == DecodeVarint(SubSeq(b, t.pos + 1, Len(b)))
           number == (t.prev + d.value) % Modulus
<1>1. SubSeq(b, t.pos + 1, Len(b)) \in Seq(Nat)
  BY PieceFacts DEF IsPiece
<1>2. d \in [value : Nat, consumed : Nat]
  BY <1>1, VarintType
<1>3. DecodeNext(b, t)
        = IF d.consumed = 0 THEN t
          ELSE [pos |-> t.pos + d.consumed, prev |-> number, numbers |-> Append(t.numbers, number)]
  BY DEF DecodeNext
<1> HIDE DEF d, number
<1>4. number \in Nat
  <2> DEFINE x == t.prev + d.value
  <2>1. x \in Nat /\ Modulus \in Nat /\ Modulus > 0
    <3>1. t.prev \in Nat
      OBVIOUS
    <3>2. d.value \in Nat
      BY <1>2
    <3> QED  BY <3>1, <3>2, BaseTypes
  <2> HIDE DEF x
  <2>2. IsDivision(x, Modulus, x \div Modulus, x % Modulus)
    BY <2>1, Divided
  <2> QED  BY <2>2 DEF IsDivision, x, number
<1>5. t.pos + d.consumed \in Nat /\ Append(t.numbers, number) \in Seq(Nat)
  BY <1>2, <1>4
<1> QED  BY <1>3, <1>4, <1>5

\* What is read of the bytes of a list is the list.
LEMMA ListReadBack ==
  ASSUME NEW list \in Seq(0 .. Modulus - 1)
  PROVE  DeltaDecode(DeltaEncode(list)) = list
<1>1. PICK E : DeltaRun(E, list) /\ DeltaEncode(list) = E[Len(list)]
  BY DeltaWrites
<1> DEFINE N == Len(list)
           all == E[N]
           L == Len(all)
           base == [pos |-> 0, prev |-> 0, numbers |-> <<>>]
           V == [pos : Nat, prev : Nat, numbers : Seq(Nat)]
           Good(f) == f = [k \in 0 .. Len(all) |->
                             IF k = 0 THEN [pos |-> 0, prev |-> 0, numbers |-> <<>>]
                             ELSE DecodeNext(all, f[k - 1])]
           turns == CHOOSE f : Good(f)
<1>2. N \in Nat /\ E \in [0 .. N -> Seq(Nat)] /\ E[0] = <<>>
  BY <1>1 DEF DeltaRun
<1>3. all \in Seq(Nat) /\ L \in Nat /\ N <= L
  BY <1>1, <1>2, BytesPerNumber
<1>4. DeltaDecode(DeltaEncode(list)) = turns[L].numbers
  BY <1>1 DEF DeltaDecode
<1>5. \A f : Good(f) <=> f = [k \in 0 .. L |-> IF k = 0 THEN base ELSE DecodeNext(all, f[k - 1])]
  OBVIOUS
<1>6. base \in V /\ base = ReadTo(list, E, 0)
  <2>1. SubSeq(list, 1, 0) = <<>>
    OBVIOUS
  <2> QED  BY <1>2, <2>1 DEF ReadTo, Prior
<1>7. \A t \in V : DecodeNext(all, t) \in V
  BY <1>3, DecodeTypes
<1> HIDE DEF Good, V, base, N, L, all
<1>8. Good(turns)
  <2> DEFINE step == [n \in 1 .. L |-> [t \in V |-> DecodeNext(all, t)]]
  <2>1. /\ step \in [1 .. L -> [V -> V]]
        /\ \A n \in 1 .. L : \A t \in V : step[n][t] = DecodeNext(all, t)
    BY <1>7
  <2> HIDE DEF step
  <2>2. IsRecursion(L, V, base, step)
    BY <1>3, <1>6, <2>1 DEF IsRecursion
  <2>3. PICK f : SolvesRecursion(f, L, V, base, step)
    BY <2>2, RecursionSolved
  <2>4. f \in [0 .. L -> V] /\ f[0] = base /\ \A n \in 1 .. L : f[n] = step[n][f[n - 1]]
    BY <2>3 DEF SolvesRecursion
  <2>5. \A n \in 1 .. L : f[n - 1] \in V
    BY <1>3, <2>4
  <2>6. \A n \in 1 .. L : f[n] = DecodeNext(all, f[n - 1])
    BY <2>1, <2>4, <2>5
  <2>7. \A n \in 0 .. L : f[n] = IF n = 0 THEN base ELSE DecodeNext(all, f[n - 1])
    BY <1>3, <2>4, <2>6
  <2>8. f = [n \in 0 .. L |-> IF n = 0 THEN base ELSE DecodeNext(all, f[n - 1])]
    BY <2>4, <2>7
  <2> QED  BY <1>5, <2>8
<1> HIDE DEF turns
<1>9. turns[0] = base /\ \A k \in 1 .. L : turns[k] = DecodeNext(all, turns[k - 1])
  BY <1>3, <1>5, <1>8
<1> DEFINE T == {k \in 0 .. L : turns[k] = ReadTo(list, E, IF k <= N THEN k ELSE N)}
<1>10. 0 \in T
  BY <1>2, <1>3, <1>6, <1>9
<1>11. ASSUME NEW k \in 0 .. L, k < L, k \in T PROVE k + 1 \in T
  <2>1. k + 1 \in 1 .. L /\ k + 1 \in 0 .. L /\ (k + 1) - 1 = k
    BY <1>3, <1>11
  <2>2. turns[k + 1] = DecodeNext(all, turns[k])
    BY <1>9, <2>1
  <2>3. CASE k < N
    <3>1. turns[k] = ReadTo(list, E, k) /\ k \in 0 .. N /\ k + 1 <= N
      BY <1>2, <1>11, <2>3
    <3>2. DecodeNext(all, ReadTo(list, E, k)) = ReadTo(list, E, k + 1)
      BY <1>1, <2>3, <3>1, DecodesOne DEF N, all
    <3> QED  BY <2>1, <2>2, <3>1, <3>2
  <2>4. CASE k >= N
    <3>1. turns[k] = ReadTo(list, E, N) /\ ~(k + 1 <= N)
      BY <1>2, <1>11, <2>4
    <3>2. ReadTo(list, E, N).pos = Len(all)
      BY DEF ReadTo, all
    <3>3. DecodeNext(all, ReadTo(list, E, N)) = ReadTo(list, E, N)
      BY <1>3, <3>2, NothingLeft
    <3> QED  BY <2>1, <2>2, <3>1, <3>3
  <2> QED  BY <1>2, <2>1, <2>3, <2>4
<1>12. turns[L] = ReadTo(list, E, N)
  <2>1. \A k \in 0 .. L : k < L /\ k \in T => k + 1 \in T
    BY <1>11
  <2> HIDE DEF T
  <2>2. \A k \in 0 .. L : k \in T
    BY <1>3, <1>10, <2>1, InductionUpTo
  <2>3. L \in T
    BY <1>3, <2>2
  <2> QED  BY <1>2, <1>3, <2>3 DEF T
<1>13. SubSeq(list, 1, N) = list
  BY DEF N
<1> QED  BY <1>4, <1>12, <1>13 DEF ReadTo

-----------------------------------------------------------------------------
(* Edit distances                                                          *)

\* An entry of the matrix is the least of three.
LEMMA MinOfThree ==
  ASSUME NEW x \in Nat, NEW y \in Nat, NEW z \in Nat
  PROVE  LET m == Min({x, y, z})
         IN  m \in Nat /\ m <= x /\ m <= y /\ m <= z /\ (m = x \/ m = y \/ m = z)
<1>1. {x, y, z} \subseteq Nat /\ {x, y, z} # {}
  OBVIOUS
<1>2. Min({x, y, z}) \in {x, y, z} /\ \A v \in {x, y, z} : Min({x, y, z}) <= v
  BY <1>1, MinIn
<1> QED  BY <1>2

\* Pairs of a letter of the one word and one of the other, in order.
IsAlignment(A, i, j) ==
  /\ A \subseteq (1 .. i) \X (1 .. j)
  /\ \A p, q \in A : /\ p[1] < q[1] <=> p[2] < q[2]
                     /\ p[1] = q[1] <=> p[2] = q[2]

Different(a, b, A) == {p \in A : a[p[1]] # b[p[2]]}

CostOf(a, b, A, i, j) == i + j - 2 * Cardinality(A) + Cardinality(Different(a, b, A))

ChangeCost(a, b, i, j) == IF a[i] = b[j] THEN 0 ELSE 1

IsCounted(a, b, A) ==
  /\ IsFiniteSet(A) /\ IsFiniteSet(Different(a, b, A))
  /\ Cardinality(A) \in Nat /\ Cardinality(Different(a, b, A)) \in Nat

\* Alignments are finite sets.
LEMMA AlignmentsCounted ==
  ASSUME NEW a, NEW b, NEW i \in Nat, NEW j \in Nat, NEW A, A \subseteq (1 .. i) \X (1 .. j)
  PROVE  IsCounted(a, b, A)
<1>1. IsFiniteSet(1 .. i) /\ IsFiniteSet(1 .. j)
  BY FS_Interval
<1>2. IsFiniteSet((1 .. i) \X (1 .. j))
  BY <1>1, FS_Product
<1>3. IsFiniteSet(A)
  BY <1>2, FS_Subset
<1>4. Different(a, b, A) \in SUBSET A
  BY DEF Different
<1>5. IsFiniteSet(Different(a, b, A))
  BY <1>3, <1>4, FS_Subset
<1> QED  BY <1>3, <1>5, FS_CardinalityType DEF IsCounted

\* A pair behind all others adds what it costs to change the letter.
LEMMA PairAdded ==
  ASSUME NEW a, NEW b, NEW i \in Nat, NEW j \in Nat, i > 0, j > 0,
         NEW A, IsAlignment(A, i - 1, j - 1)
  PROVE  /\ IsAlignment(A \cup {<<i, j>>}, i, j)
         /\ CostOf(a, b, A \cup {<<i, j>>}, i, j)
              = CostOf(a, b, A, i - 1, j - 1) + ChangeCost(a, b, i, j)
<1> DEFINE B == A \cup {<<i, j>>}
           D == Different(a, b, A)
<1>1. i - 1 \in Nat /\ j - 1 \in Nat
  OBVIOUS
<1>2. \A p \in A : p \in (1 .. i - 1) \X (1 .. j - 1)
  BY DEF IsAlignment
<1>3. \A p \in A : p[1] \in 1 .. i - 1 /\ p[2] \in 1 .. j - 1
  BY <1>2
<1>4. IsAlignment(B, i, j)
  <2>1. B \subseteq (1 .. i) \X (1 .. j)
    BY <1>2
  <2>2. ASSUME NEW p \in B, NEW q \in B
        PROVE  (p[1] < q[1] <=> p[2] < q[2]) /\ (p[1] = q[1] <=> p[2] = q[2])
    <3>1. CASE p \in A /\ q \in A
      BY <3>1 DEF IsAlignment
    <3>2. CASE p \in A /\ q = <<i, j>>
      <4>1. p[1] \in 1 .. i - 1 /\ p[2] \in 1 .. j - 1 /\ q[1] = i /\ q[2] = j
        BY <1>3, <3>2
      <4> QED  BY <4>1
    <3>3. CASE p = <<i, j>> /\ q \in A
      <4>1. q[1] \in 1 .. i - 1 /\ q[2] \in 1 .. j - 1 /\ p[1] = i /\ p[2] = j
        BY <1>3, <3>3
      <4> QED  BY <4>1
    <3>4. CASE p = <<i, j>> /\ q = <<i, j>>
      BY <3>4
    <3> QED  BY <3>1, <3>2, <3>3, <3>4
  <2> HIDE DEF B
  <2> QED  BY <2>1, <2>2 DEF IsAlignment
<1>5. IsCounted(a, b, A)
  BY <1>1, AlignmentsCounted DEF IsAlignment
<1>6. <<i, j>> \notin A
  <2>1. <<i, j>>[1] \notin 1 .. i - 1
    OBVIOUS
  <2> QED  BY <1>3, <2>1
<1>7. Cardinality(B) = Cardinality(A) + 1
  BY <1>5, <1>6, FS_AddElement DEF IsCounted
<1>8. CASE a[i] = b[j]
  <2>1. Different(a, b, B) = D
    BY <1>8 DEF Different
  <2> HIDE DEF B, D
  <2>2. CostOf(a, b, B, i, j) = i + j - 2 * (Cardinality(A) + 1) + Cardinality(D)
    BY <1>7, <2>1 DEF CostOf
  <2>3. CostOf(a, b, A, i - 1, j - 1) = (i - 1) + (j - 1) - 2 * Cardinality(A) + Cardinality(D)
    BY DEF CostOf, D
  <2>4. Cardinality(A) \in Nat /\ Cardinality(D) \in Nat
    BY <1>5 DEF IsCounted, D
  <2>5. CostOf(a, b, B, i, j) = CostOf(a, b, A, i - 1, j - 1)
    BY <2>2, <2>3, <2>4
  <2>6. CostOf(a, b, A, i - 1, j - 1) \in Int
    BY <2>3, <2>4
  <2> QED  BY <1>4, <1>8, <2>5, <2>6 DEF ChangeCost, B
<1>9. CASE a[i] # b[j]
  <2>1. Different(a, b, B) = D \cup {<<i, j>>} /\ <<i, j>> \notin D
    BY <1>6, <1>9 DEF Different
  <2>2. Cardinality(D \cup {<<i, j>>}) = Cardinality(D) + 1
    BY <1>5, <2>1, FS_AddElement DEF IsCounted
  <2> HIDE DEF B, D
  <2>3. CostOf(a, b, B, i, j) = i + j - 2 * (Cardinality(A) + 1) + (Cardinality(D) + 1)
    BY <1>7, <2>1, <2>2 DEF CostOf
  <2>4. CostOf(a, b, A, i - 1, j - 1) = (i - 1) + (j - 1) - 2 * Cardinality(A) + Cardinality(D)
    BY DEF CostOf, D
  <2>5. Cardinality(A) \in Nat /\ Cardinality(D) \in Nat
    BY <1>5 DEF IsCounted, D
  <2>6. CostOf(a, b, B, i, j) = CostOf(a, b, A, i - 1, j - 1) + 1
    BY <2>3, <2>4, <2>5
  <2> QED  BY <1>4, <1>9, <2>6 DEF ChangeCost, B
<1> QED  BY <1>8, <1>9

\* What is left of an alignment without its pair of the last letters.
LEMMA PairRemoved ==
  ASSUME NEW a, NEW b, NEW i \in Nat, NEW j \in Nat, i > 0, j > 0,
         NEW A, IsAlignment(A, i, j), <<i, j>> \in A
  PROVE  IsAlignment(A \ {<<i, j>>}, i - 1, j - 1)
<1> DEFINE B == A \ {<<i, j>>}
<1>1. ASSUME NEW p \in B PROVE p \in (1 .. i - 1) \X (1 .. j - 1)
  <2>1. PICK x \in 1 .. i, y \in 1 .. j : p = <<x, y>>
    BY DEF IsAlignment
  <2>2. p \in A /\ p # <<i, j>>
    OBVIOUS
  <2>3. (p[1] = i <=> p[2] = j)
    BY <2>2 DEF IsAlignment
  <2>4. x # i /\ y # j
    BY <2>1, <2>2, <2>3
  <2> QED  BY <2>1, <2>4
<1>2. \A p, q \in B : (p[1] < q[1] <=> p[2] < q[2]) /\ (p[1] = q[1] <=> p[2] = q[2])
  BY DEF IsAlignment
<1> HIDE DEF B
<1>3. IsAlignment(B, i - 1, j - 1)
  BY <1>1, <1>2 DEF IsAlignment
<1> QED  BY <1>3 DEF B

\* Of two words, the last letters are a pair or one of them has none.
LEMMA LastLetters ==
  ASSUME NEW i \in Nat, NEW j \in Nat, i > 0, j > 0, NEW A, IsAlignment(A, i, j)
  PROVE  IsAlignment(A, i - 1, j) \/ IsAlignment(A, i, j - 1) \/ <<i, j>> \in A
<1>1. \A p, q \in A : (p[1] < q[1] <=> p[2] < q[2]) /\ (p[1] = q[1] <=> p[2] = q[2])
  BY DEF IsAlignment
<1>2. \A p \in A : p = <<p[1], p[2]>> /\ p[1] \in 1 .. i /\ p[2] \in 1 .. j
  BY DEF IsAlignment
<1>3. CASE \A p \in A : p[1] # i
  <2>1. \A p \in A : p[1] \in 1 .. i - 1
    BY <1>2, <1>3
  <2>2. A \subseteq (1 .. i - 1) \X (1 .. j)
    BY <1>2, <2>1
  <2> QED  BY <1>1, <2>2 DEF IsAlignment
<1>4. CASE \A p \in A : p[2] # j
  <2>1. \A p \in A : p[2] \in 1 .. j - 1
    BY <1>2, <1>4
  <2>2. A \subseteq (1 .. i) \X (1 .. j - 1)
    BY <1>2, <2>1
  <2> QED  BY <1>1, <2>2 DEF IsAlignment
<1>5. ASSUME NEW p \in A, NEW q \in A, p[1] = i, q[2] = j
      PROVE  <<i, j>> \in A
  <2>1. p[2] \in 1 .. j /\ q[1] \in 1 .. i
    BY <1>2
  <2>2. ~(p[1] < q[1])
    BY <1>5, <2>1
  <2>3. ~(p[2] < q[2])
    BY <1>1, <1>5, <2>2
  <2>4. p[2] = j
    BY <1>5, <2>1, <2>3
  <2>5. p = <<i, j>>
    BY <1>2, <1>5, <2>4
  <2> QED  BY <2>5
<1> QED  BY <1>3, <1>4, <1>5

\* An entry of the matrix: the least cost of aligning so many letters.
IsLeastCost(m, a, b, i, j) ==
  /\ m \in Nat
  /\ \A A : IsAlignment(A, i, j) => m <= CostOf(a, b, A, i, j)
  /\ \E A : IsAlignment(A, i, j) /\ CostOf(a, b, A, i, j) = m

\* Along the edges of the matrix no letters can be paired.
LEMMA EdgeCost ==
  ASSUME NEW a, NEW b, NEW i \in Nat, NEW j \in Nat, i = 0 \/ j = 0
  PROVE  IsLeastCost(i + j, a, b, i, j)
<1>1. \A A : IsAlignment(A, i, j) => A = {}
  <2>1. (1 .. i) \X (1 .. j) = {}
    OBVIOUS
  <2> QED  BY <2>1 DEF IsAlignment
<1>2. IsAlignment({}, i, j)
  BY DEF IsAlignment
<1>3. CostOf(a, b, {}, i, j) = i + j
  <2>1. Different(a, b, {}) = {}
    BY DEF Different
  <2>2. Cardinality({}) = 0
    BY FS_EmptySet
  <2>3. CostOf(a, b, {}, i, j) = i + j - 2 * Cardinality({}) + Cardinality({})
    BY <2>1, Zenon DEF CostOf
  <2>4. i + j - 2 * 0 + 0 = i + j
    OBVIOUS
  <2> QED  BY <2>2, <2>3, <2>4
<1>4. i + j \in Nat /\ i + j <= i + j
  OBVIOUS
<1> QED  BY <1>1, <1>2, <1>3, <1>4 DEF IsLeastCost

\* A letter without a pair costs one.
LEMMA Unpaired ==
  ASSUME NEW a, NEW b, NEW i \in Nat, NEW j \in Nat, NEW A
  PROVE  /\ i > 0 /\ IsAlignment(A, i - 1, j) =>
              IsAlignment(A, i, j) /\ CostOf(a, b, A, i, j) = CostOf(a, b, A, i - 1, j) + 1
         /\ j > 0 /\ IsAlignment(A, i, j - 1) =>
              IsAlignment(A, i, j) /\ CostOf(a, b, A, i, j) = CostOf(a, b, A, i, j - 1) + 1
<1>1. ASSUME IsAlignment(A, i, j)
      PROVE  /\ CostOf(a, b, A, i, j) = CostOf(a, b, A, i - 1, j) + 1
             /\ CostOf(a, b, A, i, j) = CostOf(a, b, A, i, j - 1) + 1
  <2>1. IsCounted(a, b, A)
    BY <1>1, AlignmentsCounted DEF IsAlignment
  <2>2. Cardinality(A) \in Nat /\ Cardinality(Different(a, b, A)) \in Nat
    BY <2>1 DEF IsCounted
  <2> QED  BY <2>2 DEF CostOf
<1>2. ASSUME i > 0, IsAlignment(A, i - 1, j) PROVE IsAlignment(A, i, j)
  <2>1. (1 .. i - 1) \X (1 .. j) \subseteq (1 .. i) \X (1 .. j)
    OBVIOUS
  <2> QED  BY <1>2, <2>1 DEF IsAlignment
<1>3. ASSUME j > 0, IsAlignment(A, i, j - 1) PROVE IsAlignment(A, i, j)
  <2>1. (1 .. i) \X (1 .. j - 1) \subseteq (1 .. i) \X (1 .. j)
    OBVIOUS
  <2> QED  BY <1>3, <2>1 DEF IsAlignment
<1> QED  BY <1>1, <1>2, <1>3

\* The entry from the three before it.
LEMMA EntryCost ==
  ASSUME NEW a, NEW b, NEW i \in Nat, NEW j \in Nat, i > 0, j > 0,
         NEW u, NEW l, NEW d,
         IsLeastCost(u, a, b, i - 1, j), IsLeastCost(l, a, b, i, j - 1),
         IsLeastCost(d, a, b, i - 1, j - 1)
  PROVE  IsLeastCost(Min({u + 1, l + 1, d + ChangeCost(a, b, i, j)}), a, b, i, j)
<1> DEFINE c == ChangeCost(a, b, i, j)
           m == Min({u + 1, l + 1, d + c})
<1>1. u \in Nat /\ l \in Nat /\ d \in Nat /\ c \in Nat
  BY DEF IsLeastCost, ChangeCost
<1>2. u + 1 \in Nat /\ l + 1 \in Nat /\ d + c \in Nat
  BY <1>1
<1> HIDE DEF c
<1>3. /\ m \in Nat /\ m <= u + 1 /\ m <= l + 1 /\ m <= d + c
      /\ m = u + 1 \/ m = l + 1 \/ m = d + c
  BY <1>2, MinOfThree
<1> HIDE DEF m
<1>4. ASSUME NEW A, IsAlignment(A, i, j) PROVE m <= CostOf(a, b, A, i, j)
  <2>1. CASE IsAlignment(A, i - 1, j)
    <3>1. u <= CostOf(a, b, A, i - 1, j)
      BY <2>1 DEF IsLeastCost
    <3>2. CostOf(a, b, A, i, j) = CostOf(a, b, A, i - 1, j) + 1
      BY <2>1, Unpaired
    <3>3. CostOf(a, b, A, i - 1, j) \in Int
      <4>1. IsCounted(a, b, A)
        BY <1>4, AlignmentsCounted DEF IsAlignment
      <4> QED  BY <4>1 DEF IsCounted, CostOf
    <3> QED  BY <1>1, <1>3, <3>1, <3>2, <3>3
  <2>2. CASE IsAlignment(A, i, j - 1)
    <3>1. l <= CostOf(a, b, A, i, j - 1)
      BY <2>2 DEF IsLeastCost
    <3>2. CostOf(a, b, A, i, j) = CostOf(a, b, A, i, j - 1) + 1
      BY <2>2, Unpaired
    <3>3. CostOf(a, b, A, i, j - 1) \in Int
      <4>1. IsCounted(a, b, A)
        BY <1>4, AlignmentsCounted DEF IsAlignment
      <4> QED  BY <4>1 DEF IsCounted, CostOf
    <3> QED  BY <1>1, <1>3, <3>1, <3>2, <3>3
  <2>3. CASE <<i, j>> \in A
    <3> DEFINE B == A \ {<<i, j>>}
    <3>1. IsAlignment(B, i - 1, j - 1)
      BY <1>4, <2>3, PairRemoved
    <3>2. A = B \cup {<<i, j>>}
      BY <2>3
    <3> HIDE DEF B
    <3>3. CostOf(a, b, A, i, j) = CostOf(a, b, B, i - 1, j - 1) + c
      BY <3>1, <3>2, PairAdded DEF c
    <3>4. d <= CostOf(a, b, B, i - 1, j - 1)
      BY <3>1 DEF IsLeastCost
    <3>5. CostOf(a, b, B, i - 1, j - 1) \in Int
      <4>1. i - 1 \in Nat /\ j - 1 \in Nat
        OBVIOUS
      <4>2. IsCounted(a, b, B)
        BY <3>1, <4>1, AlignmentsCounted DEF IsAlignment
      <4> QED  BY <4>2 DEF IsCounted, CostOf
    <3> QED  BY <1>1, <1>3, <3>3, <3>4, <3>5
  <2> QED  BY <1>4, <2>1, <2>2, <2>3, LastLetters
<1>5. \E A : IsAlignment(A, i, j) /\ CostOf(a, b, A, i, j) = m
  <2>1. CASE m = u + 1
    <3>1. PICK A : IsAlignment(A, i - 1, j) /\ CostOf(a, b, A, i - 1, j) = u
      BY DEF IsLeastCost
    <3>2. IsAlignment(A, i, j) /\ CostOf(a, b, A, i, j) = u + 1
      BY <3>1, Unpaired
    <3> QED  BY <2>1, <3>2
  <2>2. CASE m = l + 1
    <3>1. PICK A : IsAlignment(A, i, j - 1) /\ CostOf(a, b, A, i, j - 1) = l
      BY DEF IsLeastCost
    <3>2. IsAlignment(A, i, j) /\ CostOf(a, b, A, i, j) = l + 1
      BY <3>1, Unpaired
    <3> QED  BY <2>2, <3>2
  <2>3. CASE m = d + c
    <3>1. PICK A : IsAlignment(A, i - 1, j - 1) /\ CostOf(a, b, A, i - 1, j - 1) = d
      BY DEF IsLeastCost
    <3>2. /\ IsAlignment(A \cup {<<i, j>>}, i, j)
          /\ CostOf(a, b, A \cup {<<i, j>>}, i, j) = d + c
      BY <3>1, PairAdded DEF c
    <3> QED  BY <2>3, <3>2
  <2> QED  BY <1>3, <2>1, <2>2, <2>3
<1>6. IsLeastCost(m, a, b, i, j)
  BY <1>3, <1>4, <1>5 DEF IsLeastCost
<1> QED  BY <1>6 DEF m, c

\* An entry of the matrix from the ones before it.
EntryOf(m, a, b, i, j) ==
  IF i = 0 \/ j = 0 THEN i + j
  ELSE Min({m[<<i - 1, j>>] + 1, m[<<i, j - 1>>] + 1,
            m[<<i - 1, j - 1>>] + ChangeCost(a, b, i, j)})

IsMatrix(m, a, b) ==
  \A i \in 0 .. Len(a), j \in 0 .. Len(b) : m[<<i, j>>] = EntryOf(m, a, b, i, j)

\* Every entry is the cost of the cheapest alignment of two beginnings.
LEMMA MatrixCosts ==
  ASSUME NEW S, NEW a \in Seq(S), NEW b \in Seq(S), NEW m, IsMatrix(m, a, b)
  PROVE  \A i \in 0 .. Len(a), j \in 0 .. Len(b) : IsLeastCost(m[<<i, j>>], a, b, i, j)
<1> DEFINE N == Len(a)
           K == Len(b)
           T == {s \in 0 .. N + K : \A i \in 0 .. N, j \in 0 .. K :
                    i + j <= s => IsLeastCost(m[<<i, j>>], a, b, i, j)}
<1>1. N \in Nat /\ K \in Nat /\ N + K \in Nat
  OBVIOUS
<1>2. \A i \in 0 .. N, j \in 0 .. K : m[<<i, j>>] = EntryOf(m, a, b, i, j)
  BY DEF IsMatrix
<1> HIDE DEF N, K
<1>3. ASSUME NEW i \in 0 .. N, NEW j \in 0 .. K, i = 0 \/ j = 0
      PROVE  IsLeastCost(m[<<i, j>>], a, b, i, j)
  <2>1. m[<<i, j>>] = i + j
    BY <1>2, <1>3 DEF EntryOf
  <2>2. i \in Nat /\ j \in Nat
    BY <1>1
  <2> QED  BY <1>3, <2>1, <2>2, EdgeCost
<1>4. 0 \in T
  <2>1. ASSUME NEW i \in 0 .. N, NEW j \in 0 .. K, i + j <= 0 PROVE i = 0
    BY <1>1, <2>1
  <2> QED  BY <1>1, <1>3, <2>1
<1>5. ASSUME NEW s \in 0 .. N + K, s < N + K, s \in T PROVE s + 1 \in T
  <2>1. ASSUME NEW i \in 0 .. N, NEW j \in 0 .. K, i + j <= s + 1
        PROVE  IsLeastCost(m[<<i, j>>], a, b, i, j)
    <3>1. CASE i = 0 \/ j = 0
      BY <1>3, <3>1
    <3>2. CASE i # 0 /\ j # 0
      <4>1. /\ i \in Nat /\ j \in Nat /\ i > 0 /\ j > 0
            /\ i - 1 \in 0 .. N /\ j - 1 \in 0 .. K
            /\ (i - 1) + j <= s /\ i + (j - 1) <= s /\ (i - 1) + (j - 1) <= s
        BY <1>1, <2>1, <3>2
      <4>2. /\ IsLeastCost(m[<<i - 1, j>>], a, b, i - 1, j)
            /\ IsLeastCost(m[<<i, j - 1>>], a, b, i, j - 1)
            /\ IsLeastCost(m[<<i - 1, j - 1>>], a, b, i - 1, j - 1)
        BY <1>5, <4>1
      <4>3. m[<<i, j>>] = Min({m[<<i - 1, j>>] + 1, m[<<i, j - 1>>] + 1,
                               m[<<i - 1, j - 1>>] + ChangeCost(a, b, i, j)})
        BY <1>2, <3>2 DEF EntryOf
      <4> HIDE DEF T
      <4>4. IsLeastCost(Min({m[<<i - 1, j>>] + 1, m[<<i, j - 1>>] + 1,
                             m[<<i - 1, j - 1>>] + ChangeCost(a, b, i, j)}), a, b, i, j)
        BY <4>1, <4>2, EntryCost
      <4> QED  BY <4>3, <4>4
    <3> QED  BY <3>1, <3>2
  <2>2. s + 1 \in 0 .. N + K
    BY <1>1, <1>5
  <2> QED  BY <2>1, <2>2
<1>6. \A s \in 0 .. N + K : s < N + K /\ s \in T => s + 1 \in T
  BY <1>5
<1>7. \A s \in 0 .. N + K : s \in T
  <2> HIDE DEF T
  <2> QED  BY <1>1, <1>4, <1>6, InductionUpTo
<1>8. N + K \in T
  <2>1. N + K \in 0 .. N + K
    BY <1>1
  <2> HIDE DEF T
  <2> QED  BY <1>7, <2>1
<1>9. \A i \in 0 .. N, j \in 0 .. K : i + j <= N + K
  BY <1>1
<1>10. \A i \in 0 .. N, j \in 0 .. K : IsLeastCost(m[<<i, j>>], a, b, i, j)
  BY <1>8, <1>9
<1> QED  BY <1>10 DEF N, K

\* The cheapest alignment costs what the matrix says.
LEMMA EditDistanceIs ==
  ASSUME NEW S, NEW a \in Seq(S), NEW b \in Seq(S), NEW m, IsMatrix(m, a, b)
  PROVE  EditDistance(a, b) = m[<<Len(a), Len(b)>>]
<1> DEFINE N == Len(a)
           K == Len(b)
           Alignments == {A \in SUBSET ((DOMAIN a) \X (DOMAIN b)) :
                            \A p, q \in A : /\ p[1] < q[1] <=> p[2] < q[2]
                                            /\ p[1] = q[1] <=> p[2] = q[2]}
           costs == {CostOf(a, b, A, N, K) : A \in Alignments}
<1>1. N \in Nat /\ K \in Nat /\ DOMAIN a = 1 .. N /\ DOMAIN b = 1 .. K
  OBVIOUS
<1>2. EditDistance(a, b) = Min(costs)
  BY DEF EditDistance, CostOf, Different
<1>3. \A A : A \in Alignments <=> IsAlignment(A, N, K)
  BY <1>1 DEF IsAlignment
<1>4. IsLeastCost(m[<<N, K>>], a, b, N, K)
  <2>1. N \in 0 .. N /\ K \in 0 .. K
    BY <1>1
  <2> QED  BY <2>1, MatrixCosts
<1> HIDE DEF Alignments, N, K
<1>5. costs \subseteq Int
  <2>1. ASSUME NEW A \in Alignments PROVE CostOf(a, b, A, N, K) \in Int
    <3>1. IsCounted(a, b, A)
      BY <1>1, <1>3, AlignmentsCounted DEF IsAlignment
    <3> QED  BY <1>1, <3>1 DEF IsCounted, CostOf
  <2> QED  BY <2>1
<1>6. m[<<N, K>>] \in costs /\ \A x \in costs : m[<<N, K>>] <= x
  BY <1>3, <1>4 DEF IsLeastCost
<1> HIDE DEF costs
<1>7. Min(costs) = m[<<N, K>>]
  BY <1>5, <1>6, MinIs
<1> QED  BY <1>2, <1>7 DEF N, K

-----------------------------------------------------------------------------
\* A row of the matrix from the one before it.
IsRow(r, a, b, i, prev) ==
  /\ r \in [0 .. Len(b) -> Nat]
  /\ r[0] = i
  /\ \A j \in 1 .. Len(b) :
       r[j] = Min({prev[j] + 1, r[j - 1] + 1, prev[j - 1] + ChangeCost(a, b, i, j)})

\* The in-memory index computes the same entries, row by row.
LEMMA NextRowIs ==
  ASSUME NEW S, NEW a \in Seq(S), NEW b \in Seq(S), NEW i \in Nat,
         NEW prev \in [0 .. Len(b) -> Nat]
  PROVE  IsRow(NextRow(a, b, i, prev), a, b, i, prev)
<1> DEFINE K == Len(b)
           Good(f) == f = [j \in 0 .. Len(b) |->
                             IF j = 0 THEN i
                             ELSE Min({prev[j] + 1, f[j - 1] + 1,
                                       prev[j - 1] + IF a[i] = b[j] THEN 0 ELSE 1})]
           row == CHOOSE f : Good(f)
           Turn(j, x) == Min({prev[j] + 1, x + 1, prev[j - 1] + ChangeCost(a, b, i, j)})
<1>1. K \in Nat /\ prev \in [0 .. K -> Nat]
  OBVIOUS
<1>2. NextRow(a, b, i, prev) = row
  BY DEF NextRow
<1>3. \A f : Good(f) <=> f = [j \in 0 .. K |-> IF j = 0 THEN i ELSE Turn(j, f[j - 1])]
  BY DEF ChangeCost
<1> HIDE DEF Good, K
<1>4. ASSUME NEW j \in 1 .. K, NEW x \in Nat PROVE Turn(j, x) \in Nat
  <2>1. j \in 0 .. K /\ j - 1 \in 0 .. K
    BY <1>1
  <2>2. prev[j] + 1 \in Nat /\ x + 1 \in Nat /\ prev[j - 1] + ChangeCost(a, b, i, j) \in Nat
    BY <1>1, <2>1 DEF ChangeCost
  <2> QED  BY <2>2, MinOfThree
<1> HIDE DEF Turn
<1>5. PICK f : /\ f \in [0 .. K -> Nat] /\ f[0] = i
               /\ \A j \in 1 .. K : f[j] = Turn(j, f[j - 1])
  <2> DEFINE step == [j \in 1 .. K |-> [x \in Nat |-> Turn(j, x)]]
  <2>1. /\ step \in [1 .. K -> [Nat -> Nat]]
        /\ \A j \in 1 .. K : \A x \in Nat : step[j][x] = Turn(j, x)
    BY <1>4
  <2> HIDE DEF step
  <2>2. IsRecursion(K, Nat, i, step)
    BY <1>1, <2>1 DEF IsRecursion
  <2>3. PICK f : SolvesRecursion(f, K, Nat, i, step)
    BY <2>2, RecursionSolved
  <2>4. f \in [0 .. K -> Nat] /\ f[0] = i /\ \A j \in 1 .. K : f[j] = step[j][f[j - 1]]
    BY <2>3 DEF SolvesRecursion
  <2>5. \A j \in 1 .. K : f[j - 1] \in Nat
    BY <1>1, <2>4
  <2>6. \A j \in 1 .. K : f[j] = Turn(j, f[j - 1])
    BY <2>1, <2>4, <2>5
  <2> QED  BY <2>4, <2>6
<1>6. Good(f)
  <2>1. \A j \in 0 .. K : f[j] = IF j = 0 THEN i ELSE Turn(j, f[j - 1])
    BY <1>1, <1>5
  <2>2. f = [j \in 0 .. K |-> IF j = 0 THEN i ELSE Turn(j, f[j - 1])]
    BY <1>5, <2>1
  <2> QED  BY <1>3, <2>2
<1>7. Good(row)
  BY <1>6
<1> HIDE DEF row
<1>8. row = [j \in 0 .. K |-> IF j = 0 THEN i ELSE Turn(j, row[j - 1])]
  BY <1>3, <1>7
<1>9. \A j \in 0 .. K : row[j] = IF j = 0 THEN i ELSE Turn(j, row[j - 1])
  BY <1>8
<1> DEFINE T == {j \in 0 .. K : row[j] \in Nat}
<1>10. 0 \in T
  BY <1>1, <1>9
<1>11. ASSUME NEW j \in 0 .. K, j < K, j \in T PROVE j + 1 \in T
  <2>1. j + 1 \in 1 .. K /\ (j + 1) - 1 = j /\ j + 1 # 0 /\ j + 1 \in 0 .. K
    BY <1>1, <1>11
  <2>2. row[j + 1] = Turn(j + 1, row[j])
    BY <1>9, <2>1
  <2> QED  BY <1>4, <1>11, <2>1, <2>2
<1>12. \A j \in 0 .. K : row[j] \in Nat
  <2>1. \A j \in 0 .. K : j < K /\ j \in T => j + 1 \in T
    BY <1>11
  <2> HIDE DEF T
  <2>2. \A j \in 0 .. K : j \in T
    BY <1>1, <1>10, <2>1, InductionUpTo
  <2> QED  BY <2>2 DEF T
<1>13. row \in [0 .. K -> Nat]
  BY <1>8, <1>12
<1>14. row[0] = i /\ \A j \in 1 .. K : row[j] = Turn(j, row[j - 1])
  BY <1>1, <1>9
<1> QED  BY <1>2, <1>13, <1>14 DEF IsRow, K, Turn

\* The rows one by one.
AreRows(rows, a, b) ==
  /\ rows \in [0 .. Len(a) -> [0 .. Len(b) -> Nat]]
  /\ \A j \in 0 .. Len(b) : rows[0][j] = j
  /\ \A i \in 1 .. Len(a) : IsRow(rows[i], a, b, i, rows[i - 1])

\* The rows are those of the matrix.
LEMMA RowsAre ==
  ASSUME NEW S, NEW a \in Seq(S), NEW b \in Seq(S)
  PROVE  \E rows : /\ AreRows(rows, a, b)
                   /\ ~(a = <<>> \/ b = <<>>) => Levenshtein(a, b) = rows[Len(a)][Len(b)]
<1> DEFINE N == Len(a)
           V == [0 .. Len(b) -> Nat]
           base == [j \in 0 .. Len(b) |-> j]
           Good(f) == f = [i \in 0 .. Len(a) |->
                             IF i = 0 THEN [j \in 0 .. Len(b) |-> j]
                             ELSE NextRow(a, b, i, f[i - 1])]
           rows == CHOOSE f : Good(f)
<1>1. N \in Nat /\ base \in V
  OBVIOUS
<1>2. ~(a = <<>> \/ b = <<>>) => Levenshtein(a, b) = rows[Len(a)][Len(b)]
  BY DEF Levenshtein
<1>3. \A f : Good(f) <=> f = [i \in 0 .. N |-> IF i = 0 THEN base ELSE NextRow(a, b, i, f[i - 1])]
  OBVIOUS
<1>4. ASSUME NEW i \in 1 .. N, NEW r \in V
      PROVE  NextRow(a, b, i, r) \in V /\ IsRow(NextRow(a, b, i, r), a, b, i, r)
  <2>1. i \in Nat
    BY <1>1
  <2>2. IsRow(NextRow(a, b, i, r), a, b, i, r)
    BY <2>1, NextRowIs
  <2> QED  BY <2>2 DEF IsRow
<1>5. \A j \in 0 .. Len(b) : base[j] = j
  OBVIOUS
<1> HIDE DEF Good, N, V, base
<1>6. PICK f : /\ f \in [0 .. N -> V] /\ f[0] = base
               /\ \A i \in 1 .. N : f[i] = NextRow(a, b, i, f[i - 1])
  <2> DEFINE step == [i \in 1 .. N |-> [r \in V |-> NextRow(a, b, i, r)]]
  <2>1. /\ step \in [1 .. N -> [V -> V]]
        /\ \A i \in 1 .. N : \A r \in V : step[i][r] = NextRow(a, b, i, r)
    BY <1>4
  <2> HIDE DEF step
  <2>2. IsRecursion(N, V, base, step)
    BY <1>1, <2>1 DEF IsRecursion
  <2>3. PICK f : SolvesRecursion(f, N, V, base, step)
    BY <2>2, RecursionSolved
  <2>4. f \in [0 .. N -> V] /\ f[0] = base /\ \A i \in 1 .. N : f[i] = step[i][f[i - 1]]
    BY <2>3 DEF SolvesRecursion
  <2>5. \A i \in 1 .. N : f[i - 1] \in V
    BY <1>1, <2>4
  <2>6. \A i \in 1 .. N : f[i] = NextRow(a, b, i, f[i - 1])
    BY <2>1, <2>4, <2>5
  <2> QED  BY <2>4, <2>6
<1>7. Good(f)
  <2>1. \A i \in 0 .. N : f[i] = IF i = 0 THEN base ELSE NextRow(a, b, i, f[i - 1])
    BY <1>1, <1>6
  <2>2. f = [i \in 0 .. N |-> IF i = 0 THEN base ELSE NextRow(a, b, i, f[i - 1])]
    BY <1>6, <2>1
  <2> QED  BY <1>3, <2>2
<1>8. Good(rows)
  BY <1>7
<1> HIDE DEF rows
<1>9. rows = [i \in 0 .. N |-> IF i = 0 THEN base ELSE NextRow(a, b, i, rows[i - 1])]
  BY <1>3, <1>8
<1>10. \A i \in 0 .. N : rows[i] = IF i = 0 THEN base ELSE NextRow(a, b, i, rows[i - 1])
  BY <1>9
<1> DEFINE T == {i \in 0 .. N : rows[i] \in V}
<1>11. 0 \in T
  BY <1>1, <1>10
<1>12. ASSUME NEW i \in 0 .. N, i < N, i \in T PROVE i + 1 \in T
  <2>1. i + 1 \in 1 .. N /\ (i + 1) - 1 = i /\ i + 1 # 0 /\ i + 1 \in 0 .. N
    BY <1>1, <1>12
  <2>2. rows[i + 1] = NextRow(a, b, i + 1, rows[i])
    BY <1>10, <2>1
  <2> QED  BY <1>4, <1>12, <2>1, <2>2
<1>13. \A i \in 0 .. N : rows[i] \in V
  <2>1. \A i \in 0 .. N : i < N /\ i \in T => i + 1 \in T
    BY <1>12
  <2> HIDE DEF T
  <2>2. \A i \in 0 .. N : i \in T
    BY <1>1, <1>11, <2>1, InductionUpTo
  <2> QED  BY <2>2 DEF T
<1>14. rows \in [0 .. N -> V]
  BY <1>9, <1>13
<1>15. ASSUME NEW i \in 1 .. N PROVE IsRow(rows[i], a, b, i, rows[i - 1])
  <2>1. i \in 0 .. N /\ i - 1 \in 0 .. N /\ i # 0
    BY <1>1
  <2>2. rows[i] = NextRow(a, b, i, rows[i - 1]) /\ rows[i - 1] \in V
    BY <1>10, <1>13, <2>1
  <2> QED  BY <1>4, <2>2
<1>16. rows[0] = base
  BY <1>1, <1>10
<1>17. AreRows(rows, a, b)
  BY <1>5, <1>14, <1>15, <1>16 DEF AreRows, N, V
<1> QED  BY <1>2, <1>17

\* Rows, one below the other, are a matrix.
LEMMA RowsMatrix ==
  ASSUME NEW S, NEW a \in Seq(S), NEW b \in Seq(S), NEW rows, AreRows(rows, a, b)
  PROVE  IsMatrix([p \in (0 .. Len(a)) \X (0 .. Len(b)) |-> rows[p[1]][p[2]]], a, b)
<1> DEFINE N == Len(a)
           K == Len(b)
           m == [p \in (0 .. N) \X (0 .. K) |-> rows[p[1]][p[2]]]
<1>1. N \in Nat /\ K \in Nat
  OBVIOUS
<1>2. \A i \in 0 .. N, j \in 0 .. K : m[<<i, j>>] = rows[i][j]
  OBVIOUS
<1> HIDE DEF m
<1>3. ASSUME NEW i \in 0 .. N, NEW j \in 0 .. K PROVE m[<<i, j>>] = EntryOf(m, a, b, i, j)
  <2>1. CASE i = 0
    <3>1. rows[0][j] = j
      BY DEF AreRows
    <3> QED  BY <1>1, <1>2, <2>1, <3>1 DEF EntryOf
  <2>2. CASE i # 0
    <3>1. i \in 1 .. N /\ i - 1 \in 0 .. N
      BY <1>1, <2>2
    <3>2. IsRow(rows[i], a, b, i, rows[i - 1])
      BY <3>1 DEF AreRows
    <3>3. CASE j = 0
      BY <1>1, <1>2, <3>2, <3>3 DEF EntryOf, IsRow
    <3>4. CASE j # 0
      <4>1. j \in 1 .. K /\ j - 1 \in 0 .. K
        BY <1>1, <3>4
      <4>2. rows[i][j] = Min({rows[i - 1][j] + 1, rows[i][j - 1] + 1,
                              rows[i - 1][j - 1] + ChangeCost(a, b, i, j)})
        BY <3>2, <4>1 DEF IsRow
      <4>3. /\ m[<<i, j>>] = rows[i][j] /\ m[<<i - 1, j>>] = rows[i - 1][j]
            /\ m[<<i, j - 1>>] = rows[i][j - 1] /\ m[<<i - 1, j - 1>>] = rows[i - 1][j - 1]
        BY <1>2, <3>1, <4>1
      <4> QED  BY <2>2, <3>4, <4>2, <4>3 DEF EntryOf
    <3> QED  BY <3>3, <3>4
  <2> QED  BY <2>1, <2>2
<1>4. IsMatrix(m, a, b)
  BY <1>3 DEF IsMatrix
<1> QED  BY <1>4 DEF m

\* The matrix of the segments.
LEMMA MatrixIs ==
  ASSUME NEW S, NEW a \in Seq(S), NEW b \in Seq(S)
  PROVE  \E m : IsMatrix(m, a, b) /\ LevenshteinDistance(a, b) = m[<<Len(a), Len(b)>>]
<1> DEFINE D == (0 .. Len(a)) \X (0 .. Len(b))
           Good(f) == f = [p \in (0 .. Len(a)) \X (0 .. Len(b)) |->
                             IF p[1] = 0 \/ p[2] = 0 THEN p[1] + p[2]
                             ELSE Min({f[<<p[1] - 1, p[2]>>] + 1,
                                       f[<<p[1], p[2] - 1>>] + 1,
                                       f[<<p[1] - 1, p[2] - 1>>]
                                         + IF a[p[1]] = b[p[2]] THEN 0 ELSE 1})]
           matrix == CHOOSE f : Good(f)
<1>1. LevenshteinDistance(a, b) = matrix[<<Len(a), Len(b)>>]
  BY DEF LevenshteinDistance
<1>2. \A f : Good(f) <=> f = [p \in D |-> EntryOf(f, a, b, p[1], p[2])]
  BY DEF EntryOf, ChangeCost
<1>3. PICK rows : AreRows(rows, a, b)
  BY RowsAre
<1> DEFINE g == [p \in D |-> rows[p[1]][p[2]]]
<1>4. IsMatrix(g, a, b)
  BY <1>3, RowsMatrix
<1>5. \A p \in D : p = <<p[1], p[2]>> /\ p[1] \in 0 .. Len(a) /\ p[2] \in 0 .. Len(b)
  OBVIOUS
<1>6. \A i \in 0 .. Len(a), j \in 0 .. Len(b) : <<i, j>> \in D /\ <<i, j>>[1] = i /\ <<i, j>>[2] = j
  OBVIOUS
<1>7. g = [p \in D |-> g[p]]
  OBVIOUS
<1> HIDE DEF Good, g, D
<1>8. Good(g)
  <2>1. ASSUME NEW p \in D PROVE g[p] = EntryOf(g, a, b, p[1], p[2])
    BY <1>4, <1>5 DEF IsMatrix
  <2>2. g = [p \in D |-> EntryOf(g, a, b, p[1], p[2])]
    BY <1>7, <2>1
  <2> QED  BY <1>2, <2>2
<1>9. Good(matrix)
  BY <1>8
<1> HIDE DEF matrix
<1>10. matrix = [p \in D |-> EntryOf(matrix, a, b, p[1], p[2])]
  BY <1>2, <1>9
<1>11. \A p \in D : matrix[p] = EntryOf(matrix, a, b, p[1], p[2])
  BY <1>10
<1>12. IsMatrix(matrix, a, b)
  <2>1. ASSUME NEW i \in 0 .. Len(a), NEW j \in 0 .. Len(b)
        PROVE  matrix[<<i, j>>] = EntryOf(matrix, a, b, i, j)
    <3>1. <<i, j>> \in D /\ <<i, j>>[1] = i /\ <<i, j>>[2] = j
      BY <1>6
    <3>2. matrix[<<i, j>>] = EntryOf(matrix, a, b, <<i, j>>[1], <<i, j>>[2])
      BY <1>11, <3>1
    <3> QED  BY <3>1, <3>2
  <2> QED  BY <2>1 DEF IsMatrix
<1> QED  BY <1>1, <1>12

\* Both distances are the edit distance.
LEMMA DistancesAre ==
  ASSUME NEW S, NEW a \in Seq(S), NEW b \in Seq(S)
  PROVE  /\ LevenshteinDistance(a, b) = EditDistance(a, b)
         /\ Levenshtein(a, b) = EditDistance(a, b)
<1>1. LevenshteinDistance(a, b) = EditDistance(a, b)
  BY MatrixIs, EditDistanceIs
<1>2. PICK rows : /\ AreRows(rows, a, b)
                  /\ ~(a = <<>> \/ b = <<>>) => Levenshtein(a, b) = rows[Len(a)][Len(b)]
  BY RowsAre
<1> DEFINE m == [p \in (0 .. Len(a)) \X (0 .. Len(b)) |-> rows[p[1]][p[2]]]
<1>3. IsMatrix(m, a, b)
  BY <1>2, RowsMatrix
<1>4. Len(a) \in 0 .. Len(a) /\ Len(b) \in 0 .. Len(b)
  OBVIOUS
<1>5. m[<<Len(a), Len(b)>>] = rows[Len(a)][Len(b)]
  BY <1>4
<1> HIDE DEF m
<1>6. EditDistance(a, b) = m[<<Len(a), Len(b)>>]
  BY <1>3, EditDistanceIs
<1>7. CASE a = <<>> \/ b = <<>>
  <2>1. Len(a) = 0 \/ Len(b) = 0
    BY <1>7
  <2>2. m[<<Len(a), Len(b)>>] = EntryOf(m, a, b, Len(a), Len(b))
    BY <1>3, <1>4 DEF IsMatrix
  <2>3. EditDistance(a, b) = Len(a) + Len(b)
    BY <1>6, <2>1, <2>2 DEF EntryOf
  <2>4. Levenshtein(a, b) = Len(a) + Len(b)
    BY <1>7 DEF Levenshtein
  <2> QED  BY <1>1, <2>3, <2>4
<1>8. CASE ~(a = <<>> \/ b = <<>>)
  BY <1>1, <1>2, <1>5, <1>6, <1>8
<1> QED  BY <1>7, <1>8

-----------------------------------------------------------------------------
(* Words and globs                                                         *)

\* From a place i of 0 .. L to a place j in steps of rel[a + 1], ..., rel[b].
Leads(rel, a, b, L, i, j) ==
  \E cut \in [a .. b -> 0 .. L] :
    /\ cut[a] = i /\ cut[b] = j
    /\ \A k \in a + 1 .. b : <<cut[k - 1], cut[k]>> \in rel[k]

\* Without steps it leads to where it begins.
LEMMA LeadsNowhere ==
  ASSUME NEW rel, NEW a \in Nat, NEW L \in Nat, NEW i \in 0 .. L, NEW j \in 0 .. L
  PROVE  Leads(rel, a, a, L, i, j) <=> i = j
<1>1. ASSUME i = j PROVE Leads(rel, a, a, L, i, j)
  <2> DEFINE cut == [k \in a .. a |-> i]
  <2>1. cut \in [a .. a -> 0 .. L] /\ cut[a] = i /\ cut[a] = j
    BY <1>1
  <2>2. a + 1 .. a = {}
    OBVIOUS
  <2> HIDE DEF cut
  <2> QED  BY <2>1, <2>2 DEF Leads
<1> QED  BY <1>1 DEF Leads

\* One step more, at the end.
LEMMA LeadsOn ==
  ASSUME NEW rel, NEW a \in Nat, NEW b \in Nat, a <= b, NEW L \in Nat,
         NEW i \in 0 .. L, NEW j \in 0 .. L
  PROVE  Leads(rel, a, b + 1, L, i, j)
           <=> \E k \in 0 .. L : Leads(rel, a, b, L, i, k) /\ <<k, j>> \in rel[b + 1]
<1>1. ASSUME Leads(rel, a, b + 1, L, i, j)
      PROVE  \E k \in 0 .. L : Leads(rel, a, b, L, i, k) /\ <<k, j>> \in rel[b + 1]
  <2>1. PICK cut \in [a .. b + 1 -> 0 .. L] :
          /\ cut[a] = i /\ cut[b + 1] = j
          /\ \A k \in a + 1 .. b + 1 : <<cut[k - 1], cut[k]>> \in rel[k]
    BY <1>1 DEF Leads
  <2> DEFINE c == [k \in a .. b |-> cut[k]]
  <2>2. a \in a .. b /\ b \in a .. b + 1 /\ b + 1 \in a + 1 .. b + 1 /\ (b + 1) - 1 = b
    OBVIOUS
  <2>3. \A k \in a .. b : c[k] = cut[k] /\ cut[k] \in 0 .. L
    OBVIOUS
  <2>4. c \in [a .. b -> 0 .. L]
    BY <2>3
  <2> HIDE DEF c
  <2>5. \A k \in a + 1 .. b : c[k - 1] = cut[k - 1] /\ c[k] = cut[k] /\ k \in a + 1 .. b + 1
    BY <2>3
  <2>6. c[a] = i /\ c[b] = cut[b]
    BY <2>1, <2>2, <2>3
  <2>7. Leads(rel, a, b, L, i, cut[b])
    BY <2>1, <2>4, <2>5, <2>6 DEF Leads
  <2>8. <<cut[b], j>> \in rel[b + 1]
    BY <2>1, <2>2
  <2>9. cut[b] \in 0 .. L
    BY <2>2
  <2> QED  BY <2>7, <2>8, <2>9
<1>2. ASSUME NEW k \in 0 .. L, Leads(rel, a, b, L, i, k), <<k, j>> \in rel[b + 1]
      PROVE  Leads(rel, a, b + 1, L, i, j)
  <2>1. PICK c \in [a .. b -> 0 .. L] :
          /\ c[a] = i /\ c[b] = k
          /\ \A n \in a + 1 .. b : <<c[n - 1], c[n]>> \in rel[n]
    BY <1>2 DEF Leads
  <2> DEFINE cut == [n \in a .. b + 1 |-> IF n = b + 1 THEN j ELSE c[n]]
  <2>2. \A n \in a .. b : cut[n] = c[n]
    OBVIOUS
  <2>3. cut[b + 1] = j
    OBVIOUS
  <2>4. cut \in [a .. b + 1 -> 0 .. L]
    <3>1. \A n \in a .. b + 1 : n # b + 1 => n \in a .. b
      OBVIOUS
    <3> QED  BY <3>1
  <2> HIDE DEF cut
  <2>5. ASSUME NEW n \in a + 1 .. b + 1 PROVE <<cut[n - 1], cut[n]>> \in rel[n]
    <3>1. CASE n = b + 1
      <4>1. n - 1 = b /\ b \in a .. b
        BY <3>1
      <4> QED  BY <1>2, <2>1, <2>2, <2>3, <3>1, <4>1
    <3>2. CASE n # b + 1
      <4>1. n \in a + 1 .. b /\ n \in a .. b /\ n - 1 \in a .. b
        BY <3>2
      <4> QED  BY <2>1, <2>2, <4>1
    <3> QED  BY <3>1, <3>2
  <2>6. cut[a] = i
    <3>1. a \in a .. b
      OBVIOUS
    <3> QED  BY <2>1, <2>2, <3>1
  <2> QED  BY <2>3, <2>4, <2>5, <2>6 DEF Leads
<1> QED  BY <1>1, <1>2

\* One step more, at the beginning.
LEMMA LeadsBack ==
  ASSUME NEW rel, NEW a \in Nat, NEW b \in Nat, a < b, NEW L \in Nat,
         NEW i \in 0 .. L, NEW j \in 0 .. L
  PROVE  Leads(rel, a, b, L, i, j)
           <=> \E k \in 0 .. L : <<i, k>> \in rel[a + 1] /\ Leads(rel, a + 1, b, L, k, j)
<1>1. ASSUME Leads(rel, a, b, L, i, j)
      PROVE  \E k \in 0 .. L : <<i, k>> \in rel[a + 1] /\ Leads(rel, a + 1, b, L, k, j)
  <2>1. PICK cut \in [a .. b -> 0 .. L] :
          /\ cut[a] = i /\ cut[b] = j
          /\ \A k \in a + 1 .. b : <<cut[k - 1], cut[k]>> \in rel[k]
    BY <1>1 DEF Leads
  <2> DEFINE c == [k \in a + 1 .. b |-> cut[k]]
  <2>2. a + 1 \in a + 1 .. b /\ b \in a + 1 .. b /\ (a + 1) - 1 = a /\ a + 1 \in a .. b
    OBVIOUS
  <2>3. \A k \in a + 1 .. b : c[k] = cut[k] /\ cut[k] \in 0 .. L
    OBVIOUS
  <2>4. c \in [a + 1 .. b -> 0 .. L]
    BY <2>3
  <2> HIDE DEF c
  <2>5. \A k \in (a + 1) + 1 .. b : c[k - 1] = cut[k - 1] /\ c[k] = cut[k] /\ k \in a + 1 .. b
    BY <2>3
  <2>6. c[a + 1] = cut[a + 1] /\ c[b] = j
    BY <2>1, <2>2, <2>3
  <2>7. Leads(rel, a + 1, b, L, cut[a + 1], j)
    BY <2>1, <2>4, <2>5, <2>6 DEF Leads
  <2>8. <<i, cut[a + 1]>> \in rel[a + 1]
    BY <2>1, <2>2
  <2>9. cut[a + 1] \in 0 .. L
    BY <2>2
  <2> QED  BY <2>7, <2>8, <2>9
<1>2. ASSUME NEW k \in 0 .. L, <<i, k>> \in rel[a + 1], Leads(rel, a + 1, b, L, k, j)
      PROVE  Leads(rel, a, b, L, i, j)
  <2>1. PICK c \in [a + 1 .. b -> 0 .. L] :
          /\ c[a + 1] = k /\ c[b] = j
          /\ \A n \in (a + 1) + 1 .. b : <<c[n - 1], c[n]>> \in rel[n]
    BY <1>2 DEF Leads
  <2> DEFINE cut == [n \in a .. b |-> IF n = a THEN i ELSE c[n]]
  <2>2. \A n \in a + 1 .. b : cut[n] = c[n]
    OBVIOUS
  <2>3. cut[a] = i
    OBVIOUS
  <2>4. cut \in [a .. b -> 0 .. L]
    <3>1. \A n \in a .. b : n # a => n \in a + 1 .. b
      OBVIOUS
    <3> QED  BY <3>1
  <2> HIDE DEF cut
  <2>5. ASSUME NEW n \in a + 1 .. b PROVE <<cut[n - 1], cut[n]>> \in rel[n]
    <3>1. CASE n = a + 1
      <4>1. n - 1 = a /\ a + 1 \in a + 1 .. b
        BY <3>1
      <4> QED  BY <1>2, <2>1, <2>2, <2>3, <3>1, <4>1
    <3>2. CASE n # a + 1
      <4>1. n \in (a + 1) + 1 .. b /\ n \in a + 1 .. b /\ n - 1 \in a + 1 .. b
        BY <3>2
      <4> QED  BY <2>1, <2>2, <4>1
    <3> QED  BY <3>1, <3>2
  <2>6. cut[b] = j
    <3>1. b \in a + 1 .. b
      OBVIOUS
    <3> QED  BY <2>1, <2>2, <3>1
  <2> QED  BY <2>3, <2>4, <2>5, <2>6 DEF Leads
<1> QED  BY <1>1, <1>2

\* Only the steps between count.
LEMMA LeadsSame ==
  ASSUME NEW rel, NEW other, NEW b \in Nat, NEW L \in Nat, NEW i, NEW j,
         \A k \in 1 .. b : rel[k] = other[k]
  PROVE  Leads(rel, 0, b, L, i, j) <=> Leads(other, 0, b, L, i, j)
<1>1. 0 + 1 .. b = 1 .. b
  OBVIOUS
<1> QED  BY <1>1 DEF Leads

-----------------------------------------------------------------------------
\* The places between which a text has a letter of a pattern, or a part.
LetterSteps(t, c) ==
  {e \in (0 .. Len(t)) \X (0 .. Len(t)) :
     /\ e[1] <= e[2]
     /\ c = Star \/ (e[2] = e[1] + 1 /\ (c = Question \/ t[e[2]] = c))}

PartSteps(t, p) ==
  {e \in (0 .. Len(t)) \X (0 .. Len(t)) :
     IF p = <<Star>> THEN e[1] <= e[2]
     ELSE e[2] = e[1] + Len(p) /\ (p = <<Question>> \/ SubSeq(t, e[1] + 1, e[2]) = p)}

\* A sequence of one element.
LEMMA SingletonIs ==
  ASSUME NEW C, NEW s \in Seq(C), NEW c
  PROVE  s = <<c>> <=> Len(s) = 1 /\ s[1] = c
<1>1. ASSUME Len(s) = 1, s[1] = c PROVE s = <<c>>
  <2>1. c \in C
    BY <1>1, ElementOfSeq
  <2>2. <<c>> \in Seq(C) /\ Len(<<c>>) = 1 /\ <<c>>[1] = c
    BY <2>1
  <2>3. \A i \in 1 .. 1 : i = 1
    OBVIOUS
  <2>4. \A i \in 1 .. Len(s) : s[i] = <<c>>[i]
    BY <1>1, <2>2, <2>3
  <2> QED  BY <1>1, <2>2, <2>4, SeqEqual
<1> QED  BY <1>1

IsPieceOfOne(t, c, i, j) ==
  /\ Len(SubSeq(t, i + 1, j)) = 1 <=> j = i + 1
  /\ SubSeq(t, i + 1, j) = <<c>> <=> j = i + 1 /\ t[j] = c

LEMMA PieceOfOne ==
  ASSUME NEW C, NEW t \in Seq(C), NEW c, NEW i \in 0 .. Len(t), NEW j \in 0 .. Len(t), i <= j
  PROVE  IsPieceOfOne(t, c, i, j)
<1> DEFINE s == SubSeq(t, i + 1, j)
<1>1. Len(s) = j - i /\ s \in Seq(C)
  OBVIOUS
<1>2. j = i + 1 => s[1] = t[j]
  OBVIOUS
<1>3. j - i = 1 <=> j = i + 1
  OBVIOUS
<1> HIDE DEF s
<1>4. s = <<c>> <=> Len(s) = 1 /\ s[1] = c
  BY <1>1, SingletonIs
<1>5. /\ Len(s) = 1 <=> j = i + 1
      /\ s = <<c>> <=> j = i + 1 /\ t[j] = c
  BY <1>1, <1>2, <1>3, <1>4
<1> QED  BY <1>5 DEF s, IsPieceOfOne

\* A glob leads from the beginning of the text to its end.
LEMMA GlobLeads ==
  ASSUME NEW C, NEW t \in Seq(C), NEW p \in Seq(C)
  PROVE  Glob(t, p)
           <=> Leads([k \in 1 .. Len(p) |-> LetterSteps(t, p[k])], 0, Len(p), Len(t), 0, Len(t))
<1> DEFINE L == Len(t)
           N == Len(p)
           rel == [k \in 1 .. N |-> LetterSteps(t, p[k])]
           Fits(c, i, j) == LET piece == SubSeq(t, i + 1, j)
                            IN  /\ i <= j
                                /\ \/ c = Star
                                   \/ c = Question /\ Len(piece) = 1
                                   \/ piece = <<c>>
<1>1. L \in Nat /\ N \in Nat /\ DOMAIN p = 1 .. N /\ 0 + 1 .. N = 1 .. N
  OBVIOUS
<1>2. ASSUME NEW k \in 1 .. N, NEW i \in 0 .. L, NEW j \in 0 .. L
      PROVE  <<i, j>> \in rel[k] <=> Fits(p[k], i, j)
  <2>1. rel[k] = LetterSteps(t, p[k])
    OBVIOUS
  <2>2. <<i, j>> \in LetterSteps(t, p[k])
          <=> i <= j /\ (p[k] = Star \/ (j = i + 1 /\ (p[k] = Question \/ t[j] = p[k])))
    BY DEF LetterSteps
  <2>3. CASE i <= j
    <3>1. IsPieceOfOne(t, p[k], i, j)
      BY <2>3, PieceOfOne
    <3> HIDE DEF rel
    <3> QED  BY <2>1, <2>2, <2>3, <3>1 DEF IsPieceOfOne
  <2>4. CASE ~(i <= j)
    BY <2>1, <2>2, <2>4
  <2> QED  BY <2>3, <2>4
<1>3. Glob(t, p) <=> \E cut \in [0 .. N -> 0 .. L] :
                       /\ cut[0] = 0 /\ cut[N] = L
                       /\ \A k \in 1 .. N : Fits(p[k], cut[k - 1], cut[k])
  BY <1>1 DEF Glob
<1> HIDE DEF rel, Fits, L, N
<1>4. ASSUME NEW cut \in [0 .. N -> 0 .. L], NEW k \in 1 .. N
      PROVE  <<cut[k - 1], cut[k]>> \in rel[k] <=> Fits(p[k], cut[k - 1], cut[k])
  <2>1. k \in 0 .. N /\ k - 1 \in 0 .. N
    BY <1>1
  <2>2. cut[k - 1] \in 0 .. L /\ cut[k] \in 0 .. L
    BY <2>1
  <2> QED  BY <1>2, <2>2
<1>5. Leads(rel, 0, N, L, 0, L)
        <=> \E cut \in [0 .. N -> 0 .. L] :
              /\ cut[0] = 0 /\ cut[N] = L
              /\ \A k \in 1 .. N : <<cut[k - 1], cut[k]>> \in rel[k]
  BY <1>1 DEF Leads
<1>6. Glob(t, p) <=> Leads(rel, 0, N, L, 0, L)
  BY <1>3, <1>4, <1>5
<1> QED  BY <1>6 DEF rel, L, N

\* A part of one letter is that letter.
LEMMA OneLetterPart ==
  ASSUME NEW C, NEW t \in Seq(C), NEW c
  PROVE  PartSteps(t, <<c>>) = LetterSteps(t, c)
<1>1. ASSUME NEW i \in 0 .. Len(t), NEW j \in 0 .. Len(t)
      PROVE  <<i, j>> \in PartSteps(t, <<c>>) <=> <<i, j>> \in LetterSteps(t, c)
  <2>1. /\ <<c>> = <<Star>> <=> c = Star
        /\ <<c>> = <<Question>> <=> c = Question
        /\ Len(<<c>>) = 1
    OBVIOUS
  <2>2. <<i, j>> \in PartSteps(t, <<c>>)
          <=> IF c = Star THEN i <= j
              ELSE j = i + 1 /\ (c = Question \/ SubSeq(t, i + 1, j) = <<c>>)
    BY <2>1 DEF PartSteps
  <2>3. <<i, j>> \in LetterSteps(t, c)
          <=> i <= j /\ (c = Star \/ (j = i + 1 /\ (c = Question \/ t[j] = c)))
    BY DEF LetterSteps
  <2>4. j = i + 1 => i <= j
    OBVIOUS
  <2>5. j = i + 1 => (SubSeq(t, i + 1, j) = <<c>> <=> t[j] = c)
    <3>1. i <= j => IsPieceOfOne(t, c, i, j)
      BY PieceOfOne
    <3> QED  BY <2>4, <3>1 DEF IsPieceOfOne
  <2> QED  BY <2>2, <2>3, <2>4, <2>5
<1> QED  BY <1>1 DEF PartSteps, LetterSteps

\* One letter more at the end of a literal.
LEMMA LongerPart ==
  ASSUME NEW C, NEW t \in Seq(C), NEW p \in Seq(C), p # <<>>, NEW c \in C,
         p # <<Star>>, p # <<Question>>, c # Star, c # Question,
         NEW i \in 0 .. Len(t), NEW j \in 0 .. Len(t)
  PROVE  <<i, j>> \in PartSteps(t, Append(p, c))
           <=> \E k \in 0 .. Len(t) : <<i, k>> \in PartSteps(t, p) /\ <<k, j>> \in LetterSteps(t, c)
<1> DEFINE n == Len(p)
           q == Append(p, c)
<1>1. n \in Nat /\ n > 0 /\ q \in Seq(C) /\ Len(q) = n + 1
  OBVIOUS
<1>2. q # <<Star>> /\ q # <<Question>>
  <2>1. Len(<<Star>>) = 1 /\ Len(<<Question>>) = 1
    OBVIOUS
  <2>2. Len(q) # 1
    BY <1>1
  <2> HIDE DEF q
  <2> QED  BY <2>1, <2>2, Zenon
<1>3. <<i, j>> \in PartSteps(t, q) <=> j = i + (n + 1) /\ SubSeq(t, i + 1, j) = q
  BY <1>1, <1>2 DEF PartSteps
<1>4. \A k \in 0 .. Len(t) : <<i, k>> \in PartSteps(t, p) <=> k = i + n /\ SubSeq(t, i + 1, k) = p
  BY DEF PartSteps
<1>5. \A k \in 0 .. Len(t) : <<k, j>> \in LetterSteps(t, c) <=> j = k + 1 /\ t[j] = c
  BY DEF LetterSteps
<1>6. ASSUME j = i + (n + 1)
      PROVE  /\ i + n \in 0 .. Len(t) /\ j = (i + n) + 1
             /\ SubSeq(t, i + 1, j) = q <=> SubSeq(t, i + 1, i + n) = p /\ t[j] = c
  <2>1. i + n \in 0 .. Len(t) /\ j = (i + n) + 1 /\ i \in Nat /\ j \in 1 .. Len(t)
    BY <1>1, <1>6
  <2> DEFINE u == SubSeq(t, i + 1, i + n)
  <2>2. u \in Seq(C) /\ Len(u) = n
    BY <1>1, <2>1
  <2>4. t[j] \in C
    BY <2>1
  <2>3. SubSeq(t, i + 1, j) = Append(u, t[j])
    <3>1. i + 1 \in 1 .. Len(t) /\ j \in i + 1 .. Len(t) /\ j - 1 = i + n
      BY <1>1, <2>1
    <3>2. SubSeq(t, i + 1, j) = SubSeq(t, i + 1, j - 1) \o <<t[j]>>
      BY <3>1, SubSeqRecursiveSecond
    <3>3. SubSeq(t, i + 1, j) = u \o <<t[j]>>
      BY <3>1, <3>2
    <3> HIDE DEF u
    <3> QED  BY <2>2, <2>4, <3>3, AppendIsConcat
  <2> HIDE DEF u
  <2>5. Append(u, t[j]) = Append(p, c) <=> u = p /\ t[j] = c
    BY <2>2, <2>4
  <2> QED  BY <2>1, <2>3, <2>5 DEF u
<1>7. \A k \in 0 .. Len(t) : k = i + n /\ j = k + 1 => j = i + (n + 1)
  BY <1>1
<1> HIDE DEF n, q
<1>8. <<i, j>> \in PartSteps(t, q)
        <=> \E k \in 0 .. Len(t) : <<i, k>> \in PartSteps(t, p) /\ <<k, j>> \in LetterSteps(t, c)
  BY <1>3, <1>4, <1>5, <1>6, <1>7
<1> QED  BY <1>8 DEF q

-----------------------------------------------------------------------------
\* The parts of a pattern, none of them empty.
PartLists(C) == Seq(Seq(C) \ {<<>>})

PartsLead(t, parts, i, j) ==
  Leads([k \in 1 .. Len(parts) |-> PartSteps(t, parts[k])], 0, Len(parts), Len(t), i, j)

LettersLead(t, p, n, i, j) ==
  Leads([k \in 1 .. Len(p) |-> LetterSteps(t, p[k])], 0, n, Len(t), i, j)

\* Parts lead where those before the last one do, and then the last one.
LEMMA LastPart ==
  ASSUME NEW C, NEW t \in Seq(C), NEW parts \in PartLists(C), NEW more \in PartLists(C),
         Len(more) > 0, \A k \in 1 .. Len(more) - 1 : parts[k] = more[k],
         Len(more) - 1 <= Len(parts),
         NEW i \in 0 .. Len(t), NEW j \in 0 .. Len(t)
  PROVE  PartsLead(t, more, i, j)
           <=> \E k \in 0 .. Len(t) :
                 /\ Leads([n \in 1 .. Len(parts) |-> PartSteps(t, parts[n])],
                          0, Len(more) - 1, Len(t), i, k)
                 /\ <<k, j>> \in PartSteps(t, more[Len(more)])
<1> DEFINE M == Len(more) - 1
           rel == [n \in 1 .. Len(parts) |-> PartSteps(t, parts[n])]
           new == [n \in 1 .. Len(more) |-> PartSteps(t, more[n])]
           L == Len(t)
<1>1. M \in Nat /\ Len(more) = M + 1 /\ L \in Nat /\ Len(parts) \in Nat /\ 0 <= M /\ M <= Len(parts)
  BY DEF PartLists
<1>2. \A n \in 1 .. M : rel[n] = new[n]
  <2>1. ASSUME NEW n \in 1 .. M PROVE rel[n] = new[n]
    <3>1. n \in 1 .. Len(parts) /\ n \in 1 .. Len(more)
      BY <1>1
    <3>2. parts[n] = more[n]
      OBVIOUS
    <3> HIDE DEF M
    <3> QED  BY <3>1, <3>2
  <2> QED  BY <2>1
<1>3. new[M + 1] = PartSteps(t, more[M + 1])
  <2>1. M + 1 \in 1 .. Len(more)
    BY <1>1
  <2> QED  BY <2>1
<1> HIDE DEF rel, new, M, L
<1>4. Leads(new, 0, M + 1, L, i, j)
        <=> \E k \in 0 .. L : Leads(new, 0, M, L, i, k) /\ <<k, j>> \in new[M + 1]
  BY <1>1, LeadsOn DEF L
<1>5. \A k \in 0 .. L : Leads(new, 0, M, L, i, k) <=> Leads(rel, 0, M, L, i, k)
  BY <1>1, <1>2, LeadsSame
<1>6. PartsLead(t, more, i, j) <=> Leads(new, 0, M + 1, L, i, j)
  BY <1>1 DEF PartsLead, new, L
<1>7. PartsLead(t, more, i, j)
        <=> \E k \in 0 .. L : /\ Leads(rel, 0, M, L, i, k)
                              /\ <<k, j>> \in PartSteps(t, more[M + 1])
  BY <1>3, <1>4, <1>5, <1>6
<1> QED  BY <1>1, <1>7 DEF rel, M, L

\* A letter makes the parts longer by its own steps.
AddsSteps(t, parts, c, more) ==
  \A i, j \in 0 .. Len(t) :
    PartsLead(t, more, i, j)
      <=> \E k \in 0 .. Len(t) : PartsLead(t, parts, i, k) /\ <<k, j>> \in LetterSteps(t, c)

\* A letter that is a part of its own.
LEMMA PartAppended ==
  ASSUME NEW C, NEW t \in Seq(C), NEW parts \in PartLists(C), NEW c \in C
  PROVE  /\ Append(parts, <<c>>) \in PartLists(C)
         /\ AddsSteps(t, parts, c, Append(parts, <<c>>))
<1> DEFINE more == Append(parts, <<c>>)
           M == Len(parts)
<1>1. <<c>> \in Seq(C) \ {<<>>}
  OBVIOUS
<1>2. /\ more \in PartLists(C) /\ M \in Nat /\ Len(more) = M + 1 /\ more[M + 1] = <<c>>
      /\ \A k \in 1 .. M : more[k] = parts[k]
  BY <1>1, AppendProperties DEF PartLists
<1> HIDE DEF more
<1>3. Len(more) > 0 /\ Len(more) - 1 = M /\ M <= M
  BY <1>2
<1>4. PartSteps(t, more[Len(more)]) = LetterSteps(t, c)
  BY <1>2, OneLetterPart
<1> HIDE DEF M
<1>5. ASSUME NEW i \in 0 .. Len(t), NEW j \in 0 .. Len(t)
      PROVE  PartsLead(t, more, i, j)
               <=> \E k \in 0 .. Len(t) :
                     PartsLead(t, parts, i, k) /\ <<k, j>> \in LetterSteps(t, c)
  <2>1. PartsLead(t, more, i, j)
          <=> \E k \in 0 .. Len(t) :
                /\ Leads([n \in 1 .. Len(parts) |-> PartSteps(t, parts[n])],
                         0, Len(more) - 1, Len(t), i, k)
                /\ <<k, j>> \in PartSteps(t, more[Len(more)])
    <3>1. \A k \in 1 .. Len(more) - 1 : parts[k] = more[k]
      BY <1>2, <1>3
    <3>2. Len(more) - 1 <= Len(parts)
      BY <1>3 DEF M
    <3> QED  BY <1>2, <1>3, <3>1, <3>2, LastPart
  <2>2. Len(more) - 1 = Len(parts)
    BY <1>3 DEF M
  <2> QED  BY <1>4, <2>1, <2>2 DEF PartsLead
<1>6. AddsSteps(t, parts, c, more)
  BY <1>5 DEF AddsSteps
<1> QED  BY <1>2, <1>6 DEF more

\* A letter that makes a literal longer.
LEMMA PartExtended ==
  ASSUME NEW C, NEW t \in Seq(C), NEW parts \in PartLists(C), NEW c \in C,
         parts # <<>>, Last(parts) # <<Star>>, Last(parts) # <<Question>>,
         c # Star, c # Question
  PROVE  /\ [parts EXCEPT ![Len(parts)] = Append(@, c)] \in PartLists(C)
         /\ AddsSteps(t, parts, c, [parts EXCEPT ![Len(parts)] = Append(@, c)])
<1> DEFINE M == Len(parts)
           p == parts[M]
           q == Append(p, c)
           more == [parts EXCEPT ![M] = q]
<1>1. M \in Nat /\ M > 0 /\ M \in 1 .. M /\ p \in Seq(C) \ {<<>>} /\ p = Last(parts)
  BY DEF PartLists, Last
<1>2. q \in Seq(C) \ {<<>>}
  BY <1>1, AppendProperties
<1>3. more = [parts EXCEPT ![Len(parts)] = Append(@, c)]
  OBVIOUS
<1> HIDE DEF q
<1>4. /\ more \in PartLists(C) /\ Len(more) = M
      /\ \A k \in 1 .. M : more[k] = IF k = M THEN q ELSE parts[k]
  BY <1>1, <1>2, ExceptSeq DEF PartLists
<1> HIDE DEF more
<1>5. more[M] = q /\ \A k \in 1 .. M - 1 : more[k] = parts[k]
  BY <1>1, <1>4
<1> HIDE DEF M
<1>6. ASSUME NEW i \in 0 .. Len(t), NEW j \in 0 .. Len(t)
      PROVE  PartsLead(t, more, i, j)
               <=> \E k \in 0 .. Len(t) :
                     PartsLead(t, parts, i, k) /\ <<k, j>> \in LetterSteps(t, c)
  <2> DEFINE Before(k) == Leads([n \in 1 .. Len(parts) |-> PartSteps(t, parts[n])],
                                0, M - 1, Len(t), i, k)
  <2>1. PartsLead(t, more, i, j)
          <=> \E k \in 0 .. Len(t) : Before(k) /\ <<k, j>> \in PartSteps(t, q)
    <3>1. Len(more) > 0 /\ Len(more) - 1 <= Len(parts) /\ Len(more) = M
      BY <1>1, <1>4 DEF M
    <3>2. \A k \in 1 .. Len(more) - 1 : parts[k] = more[k]
      BY <1>5, <3>1
    <3>3. PartsLead(t, more, i, j)
            <=> \E k \in 0 .. Len(t) :
                  /\ Leads([n \in 1 .. Len(parts) |-> PartSteps(t, parts[n])],
                           0, Len(more) - 1, Len(t), i, k)
                  /\ <<k, j>> \in PartSteps(t, more[Len(more)])
      BY <1>4, <3>1, <3>2, LastPart
    <3> QED  BY <1>5, <3>1, <3>3
  <2>2. ASSUME NEW l \in 0 .. Len(t)
        PROVE  PartsLead(t, parts, i, l)
                 <=> \E k \in 0 .. Len(t) : Before(k) /\ <<k, l>> \in PartSteps(t, p)
    <3>1. Len(parts) > 0 /\ Len(parts) - 1 <= Len(parts) /\ Len(parts) = M
      BY <1>1 DEF M
    <3>2. PartsLead(t, parts, i, l)
            <=> \E k \in 0 .. Len(t) :
                  /\ Leads([n \in 1 .. Len(parts) |-> PartSteps(t, parts[n])],
                           0, Len(parts) - 1, Len(t), i, k)
                  /\ <<k, l>> \in PartSteps(t, parts[Len(parts)])
      BY <3>1, LastPart
    <3> QED  BY <3>1, <3>2
  <2>3. \A k \in 0 .. Len(t) :
          <<k, j>> \in PartSteps(t, q)
            <=> \E l \in 0 .. Len(t) :
                  <<k, l>> \in PartSteps(t, p) /\ <<l, j>> \in LetterSteps(t, c)
    BY <1>1, LongerPart DEF q
  <2> HIDE DEF Before
  <2> QED  BY <2>1, <2>2, <2>3
<1>7. AddsSteps(t, parts, c, more)
  BY <1>6 DEF AddsSteps
<1> QED  BY <1>3, <1>4, <1>7

\* Either way the parts lead where the letters lead.
LEMMA PartAdded ==
  ASSUME NEW C, NEW t \in Seq(C), NEW parts \in PartLists(C), NEW c \in C
  PROVE  /\ AddPart(parts, c) \in PartLists(C)
         /\ AddsSteps(t, parts, c, AddPart(parts, c))
<1> DEFINE special(p) == p \in {<<Star>>, <<Question>>}
<1>1. CASE parts = <<>> \/ special(<<c>>) \/ special(Last(parts))
  <2>1. AddPart(parts, c) = Append(parts, <<c>>)
    BY <1>1 DEF AddPart
  <2> QED  BY <2>1, PartAppended
<1>2. CASE ~(parts = <<>> \/ special(<<c>>) \/ special(Last(parts)))
  <2> DEFINE more == [parts EXCEPT ![Len(parts)] = Append(@, c)]
  <2>1. AddPart(parts, c) = more
    BY <1>2 DEF AddPart
  <2>2. /\ parts # <<>> /\ Last(parts) # <<Star>> /\ Last(parts) # <<Question>>
        /\ c # Star /\ c # Question
    BY <1>2
  <2>3. more \in PartLists(C) /\ AddsSteps(t, parts, c, more)
    BY <2>2, PartExtended
  <2> HIDE DEF more
  <2> QED  BY <2>1, <2>3
<1> QED  BY <1>1, <1>2

-----------------------------------------------------------------------------
\* The parts of a pattern lead where its letters lead.
LEMMA PatternCompiled ==
  ASSUME NEW C, NEW t \in Seq(C), NEW p \in Seq(C)
  PROVE  /\ CompileWildcardPattern(p) \in PartLists(C)
         /\ \A i, j \in 0 .. Len(t) :
              PartsLead(t, CompileWildcardPattern(p), i, j) <=> LettersLead(t, p, Len(p), i, j)
<1> DEFINE N == Len(p)
           V == PartLists(C)
           Good(f) == f = [n \in 0 .. Len(p) |-> IF n = 0 THEN <<>> ELSE AddPart(f[n - 1], p[n])]
           parts == CHOOSE f : Good(f)
<1>1. N \in Nat /\ <<>> \in V /\ \A n \in 1 .. N : p[n] \in C
  BY DEF PartLists
<1>2. CompileWildcardPattern(p) = parts[N]
  BY DEF CompileWildcardPattern
<1>3. \A f : Good(f) <=> f = [n \in 0 .. N |-> IF n = 0 THEN <<>> ELSE AddPart(f[n - 1], p[n])]
  OBVIOUS
<1>4. \A n \in 1 .. N : \A x \in V : AddPart(x, p[n]) \in V
  BY <1>1, PartAdded
<1> HIDE DEF Good, N, V
<1>5. PICK f : /\ f \in [0 .. N -> V] /\ f[0] = <<>>
               /\ \A n \in 1 .. N : f[n] = AddPart(f[n - 1], p[n])
  <2> DEFINE step == [n \in 1 .. N |-> [x \in V |-> AddPart(x, p[n])]]
  <2>1. /\ step \in [1 .. N -> [V -> V]]
        /\ \A n \in 1 .. N : \A x \in V : step[n][x] = AddPart(x, p[n])
    BY <1>4
  <2> HIDE DEF step
  <2>2. IsRecursion(N, V, <<>>, step)
    BY <1>1, <2>1 DEF IsRecursion
  <2>3. PICK f : SolvesRecursion(f, N, V, <<>>, step)
    BY <2>2, RecursionSolved
  <2>4. f \in [0 .. N -> V] /\ f[0] = <<>> /\ \A n \in 1 .. N : f[n] = step[n][f[n - 1]]
    BY <2>3 DEF SolvesRecursion
  <2>5. \A n \in 1 .. N : f[n - 1] \in V
    BY <1>1, <2>4
  <2>6. \A n \in 1 .. N : f[n] = AddPart(f[n - 1], p[n])
    BY <2>1, <2>4, <2>5
  <2> QED  BY <2>4, <2>6
<1>6. Good(f)
  <2>1. \A n \in 0 .. N : f[n] = IF n = 0 THEN <<>> ELSE AddPart(f[n - 1], p[n])
    BY <1>1, <1>5
  <2>2. f = [n \in 0 .. N |-> IF n = 0 THEN <<>> ELSE AddPart(f[n - 1], p[n])]
    BY <1>5, <2>1
  <2> QED  BY <1>3, <2>2
<1>7. Good(parts)
  BY <1>6
<1> HIDE DEF parts
<1>8. parts = [n \in 0 .. N |-> IF n = 0 THEN <<>> ELSE AddPart(parts[n - 1], p[n])]
  BY <1>3, <1>7
<1>9. \A n \in 0 .. N : parts[n] = IF n = 0 THEN <<>> ELSE AddPart(parts[n - 1], p[n])
  BY <1>8
<1> DEFINE T == {n \in 0 .. N : /\ parts[n] \in V
                                /\ \A i, j \in 0 .. Len(t) :
                                     PartsLead(t, parts[n], i, j) <=> LettersLead(t, p, n, i, j)}
<1>10. 0 \in T
  <2>1. parts[0] = <<>>
    BY <1>1, <1>9
  <2>2. \A i, j \in 0 .. Len(t) : PartsLead(t, <<>>, i, j) <=> LettersLead(t, p, 0, i, j)
    <3>1. Len(<<>>) = 0 /\ Len(t) \in Nat
      OBVIOUS
    <3> QED  BY <3>1, LeadsNowhere DEF PartsLead, LettersLead
  <2> QED  BY <1>1, <2>1, <2>2
<1>11. ASSUME NEW n \in 0 .. N, n < N, n \in T PROVE n + 1 \in T
  <2>1. n + 1 \in 1 .. N /\ (n + 1) - 1 = n /\ n + 1 # 0 /\ n + 1 \in 0 .. N /\ n \in Nat
    BY <1>1, <1>11
  <2>2. parts[n + 1] = AddPart(parts[n], p[n + 1]) /\ p[n + 1] \in C
    BY <1>1, <1>9, <2>1
  <2>3. parts[n] \in V /\ \A i, j \in 0 .. Len(t) :
          PartsLead(t, parts[n], i, j) <=> LettersLead(t, p, n, i, j)
    BY <1>11
  <2>4. parts[n + 1] \in V /\ AddsSteps(t, parts[n], p[n + 1], parts[n + 1])
    BY <2>2, <2>3, PartAdded DEF V
  <2>5. ASSUME NEW i \in 0 .. Len(t), NEW j \in 0 .. Len(t)
        PROVE  PartsLead(t, parts[n + 1], i, j) <=> LettersLead(t, p, n + 1, i, j)
    <3> DEFINE rel == [k \in 1 .. Len(p) |-> LetterSteps(t, p[k])]
    <3>1. rel[n + 1] = LetterSteps(t, p[n + 1])
      BY <2>1 DEF N
    <3> HIDE DEF rel
    <3>2. Len(t) \in Nat /\ 0 <= n
      BY <2>1
    <3>3. Leads(rel, 0, n + 1, Len(t), i, j)
            <=> \E k \in 0 .. Len(t) : /\ Leads(rel, 0, n, Len(t), i, k)
                                       /\ <<k, j>> \in rel[n + 1]
      BY <2>1, <3>2, LeadsOn
    <3>4. /\ LettersLead(t, p, n + 1, i, j) <=> Leads(rel, 0, n + 1, Len(t), i, j)
          /\ \A k \in 0 .. Len(t) : LettersLead(t, p, n, i, k) <=> Leads(rel, 0, n, Len(t), i, k)
      BY DEF LettersLead, rel
    <3>5. PartsLead(t, parts[n + 1], i, j)
            <=> \E k \in 0 .. Len(t) : /\ PartsLead(t, parts[n], i, k)
                                       /\ <<k, j>> \in LetterSteps(t, p[n + 1])
      BY <2>4 DEF AddsSteps
    <3> QED  BY <2>3, <3>1, <3>3, <3>4, <3>5
  <2> QED  BY <2>1, <2>4, <2>5
<1>12. N \in T
  <2>1. \A n \in 0 .. N : n < N /\ n \in T => n + 1 \in T
    BY <1>11
  <2> HIDE DEF T
  <2>2. \A n \in 0 .. N : n \in T
    BY <1>1, <1>10, <2>1, InductionUpTo
  <2>3. N \in 0 .. N
    BY <1>1
  <2> QED  BY <2>2, <2>3
<1> QED  BY <1>2, <1>12 DEF N, V

\* The places from where the last parts match the rest of a text.
LEMMA PartsMatched ==
  ASSUME NEW C, NEW t \in Seq(C), NEW p \in Seq(C)
  PROVE  MatchesWildcard(t, p) <=> PartsLead(t, CompileWildcardPattern(p), 0, Len(t))
<1> DEFINE parts == CompileWildcardPattern(p)
           M == Len(parts)
           L == Len(t)
           rel == [k \in 1 .. M |-> PartSteps(t, parts[k])]
           Good(f) == f = [n \in 0 .. Len(parts) |->
                             IF n = 0 THEN {Len(t)}
                             ELSE PartMatches(t, parts[Len(parts) - n + 1], f[n - 1])]
           from == CHOOSE f : Good(f)
           Behind(n) == {i \in 0 .. L : Leads(rel, M - n, M, L, i, L)}
<1>1. MatchesWildcard(t, p) <=> 0 \in from[M]
  BY DEF MatchesWildcard
<1>2. parts \in PartLists(C)
  BY PatternCompiled
<1> HIDE DEF parts
<1>3. M \in Nat /\ L \in Nat /\ L \in 0 .. L
  BY <1>2 DEF PartLists
<1>4. PartsLead(t, parts, 0, L) <=> Leads(rel, 0, M, L, 0, L)
  BY DEF PartsLead
<1>5. \A f : Good(f) <=> f = [n \in 0 .. M |-> IF n = 0 THEN {L}
                                               ELSE PartMatches(t, parts[M - n + 1], f[n - 1])]
  OBVIOUS
<1>6. \A k \in 1 .. M : rel[k] = PartSteps(t, parts[k])
  OBVIOUS
<1> HIDE DEF Good, rel, M
<1>7. Behind(0) = {L}
  <2>1. \A i \in 0 .. L : Leads(rel, M, M, L, i, L) <=> i = L
    BY <1>3, LeadsNowhere
  <2>2. M - 0 = M
    BY <1>3
  <2> QED  BY <1>3, <2>1, <2>2
<1>8. ASSUME NEW n \in 0 .. M, n < M
      PROVE  Behind(n + 1) = PartMatches(t, parts[M - n], Behind(n))
  <2> DEFINE a == M - (n + 1)
             q == parts[M - n]
  <2>1. a \in Nat /\ a < M /\ a + 1 = M - n /\ M - n \in 1 .. M
    BY <1>3, <1>8
  <2>2. rel[M - n] = PartSteps(t, q)
    BY <1>6, <2>1
  <2>3. ASSUME NEW i \in 0 .. L
        PROVE  i \in Behind(n + 1)
                 <=> \E k \in 0 .. L : <<i, k>> \in PartSteps(t, q) /\ k \in Behind(n)
    <3>1. Leads(rel, a, M, L, i, L)
            <=> \E k \in 0 .. L : <<i, k>> \in rel[a + 1] /\ Leads(rel, a + 1, M, L, k, L)
      <4> HIDE DEF a
      <4> QED  BY <1>3, <2>1, LeadsBack
    <3> QED  BY <2>1, <2>2, <3>1
  <2>4. Behind(n) \subseteq 0 .. L /\ Behind(n + 1) \subseteq 0 .. L
    OBVIOUS
  <2>5. Len(q) \in Nat
    BY <1>2, <2>1 DEF PartLists, M
  <2> HIDE DEF Behind, q, a
  <2>6. ASSUME NEW i \in 0 .. L
        PROVE  i \in PartMatches(t, q, Behind(n))
                 <=> \E k \in 0 .. L : <<i, k>> \in PartSteps(t, q) /\ k \in Behind(n)
    <3>1. CASE q = <<Star>>
      <4>1. i \in PartMatches(t, q, Behind(n)) <=> \E k \in i .. L : k \in Behind(n)
        BY <3>1 DEF PartMatches
      <4>2. \A k \in 0 .. L : <<i, k>> \in PartSteps(t, q) <=> i <= k
        BY <3>1 DEF PartSteps
      <4>3. \A k \in i .. L : k \in 0 .. L /\ i <= k
        BY <1>3
      <4>4. \A k \in 0 .. L : i <= k => k \in i .. L
        BY <1>3
      <4> QED  BY <4>1, <4>2, <4>3, <4>4
    <3>2. CASE q # <<Star>>
      <4>1. i \in PartMatches(t, q, Behind(n))
              <=> /\ i + Len(q) <= L
                  /\ q = <<Question>> \/ SubSeq(t, i + 1, i + Len(q)) = q
                  /\ i + Len(q) \in Behind(n)
        BY <3>2 DEF PartMatches
      <4>2. \A k \in 0 .. L :
              <<i, k>> \in PartSteps(t, q)
                <=> k = i + Len(q) /\ (q = <<Question>> \/ SubSeq(t, i + 1, k) = q)
        BY <3>2 DEF PartSteps
      <4>3. i + Len(q) <= L => i + Len(q) \in 0 .. L
        BY <1>3, <2>5
      <4>4. \A k \in 0 .. L : k = i + Len(q) => i + Len(q) <= L
        BY <1>3
      <4> QED  BY <4>1, <4>2, <4>3, <4>4
    <3> QED  BY <3>1, <3>2
  <2>7. PartMatches(t, q, Behind(n)) \subseteq 0 .. L
    BY DEF PartMatches
  <2>8. Behind(n + 1) = PartMatches(t, q, Behind(n))
    BY <2>3, <2>4, <2>6, <2>7
  <2> QED  BY <2>8 DEF q
<1> HIDE DEF Behind, L
<1> DEFINE f == [n \in 0 .. M |-> Behind(n)]
<1>9. Good(f)
  <2>1. ASSUME NEW n \in 0 .. M
        PROVE  f[n] = IF n = 0 THEN {L} ELSE PartMatches(t, parts[M - n + 1], f[n - 1])
    <3>1. CASE n = 0
      BY <1>7, <3>1
    <3>2. CASE n # 0
      <4>1. n - 1 \in 0 .. M /\ n - 1 < M /\ (n - 1) + 1 = n /\ M - (n - 1) = M - n + 1
        BY <1>3, <3>2
      <4>2. Behind(n) = PartMatches(t, parts[M - n + 1], Behind(n - 1))
        BY <1>8, <4>1
      <4> QED  BY <3>2, <4>1, <4>2
    <3> QED  BY <3>1, <3>2
  <2>2. f = [n \in 0 .. M |-> f[n]]
    OBVIOUS
  <2> HIDE DEF f
  <2>3. f = [n \in 0 .. M |-> IF n = 0 THEN {L} ELSE PartMatches(t, parts[M - n + 1], f[n - 1])]
    BY <2>1, <2>2
  <2> QED  BY <1>5, <2>3
<1>10. Good(from)
  <2> HIDE DEF f
  <2> QED  BY <1>9
<1> HIDE DEF from, f
<1>11. \A n \in 0 .. M :
          from[n] = IF n = 0 THEN {L} ELSE PartMatches(t, parts[M - n + 1], from[n - 1])
  <2>1. from = [n \in 0 .. M |->
                  IF n = 0 THEN {L} ELSE PartMatches(t, parts[M - n + 1], from[n - 1])]
    BY <1>5, <1>10
  <2> QED  BY <2>1
<1> DEFINE T == {n \in 0 .. M : from[n] = Behind(n)}
<1>12. 0 \in T
  <2>1. from[0] = {L}
    BY <1>3, <1>11
  <2>2. from[0] = Behind(0) /\ 0 \in 0 .. M
    BY <1>3, <1>7, <2>1
  <2> QED  BY <2>2
<1>13. ASSUME NEW n \in 0 .. M, n < M, n \in T PROVE n + 1 \in T
  <2>1. n + 1 \in 0 .. M /\ n + 1 # 0 /\ (n + 1) - 1 = n /\ M - (n + 1) + 1 = M - n
    BY <1>3, <1>13
  <2>2. from[n + 1] = PartMatches(t, parts[M - n], from[n])
    BY <1>11, <2>1
  <2>3. from[n] = Behind(n)
    BY <1>13
  <2>4. from[n + 1] = Behind(n + 1)
    BY <1>8, <1>13, <2>2, <2>3
  <2> QED  BY <2>1, <2>4
<1>14. M \in T
  <2>1. \A n \in 0 .. M : n < M /\ n \in T => n + 1 \in T
    BY <1>13
  <2> HIDE DEF T
  <2>2. \A n \in 0 .. M : n \in T
    BY <1>3, <1>12, <2>1, InductionUpTo
  <2>3. M \in 0 .. M
    BY <1>3
  <2> QED  BY <2>2, <2>3
<1>15. 0 \in Behind(M) <=> Leads(rel, 0, M, L, 0, L)
  <2>1. M - M = 0 /\ 0 \in 0 .. L
    BY <1>3 DEF L
  <2> QED  BY <2>1 DEF Behind
<1> QED  BY <1>1, <1>4, <1>14, <1>15 DEF L, parts

\* The wildcard matcher accepts the globs.
LEMMA WildcardsAreGlobs ==
  ASSUME NEW C, NEW t \in Seq(C), NEW p \in Seq(C)
  PROVE  MatchesWildcard(t, p) <=> Glob(t, p)
<1>1. Len(t) \in 0 .. Len(t) /\ 0 \in 0 .. Len(t)
  OBVIOUS
<1>2. PartsLead(t, CompileWildcardPattern(p), 0, Len(t)) <=> LettersLead(t, p, Len(p), 0, Len(t))
  BY <1>1, PatternCompiled
<1>3. LettersLead(t, p, Len(p), 0, Len(t)) <=> Glob(t, p)
  BY GlobLeads DEF LettersLead
<1> QED  BY <1>2, <1>3, PartsMatched

-----------------------------------------------------------------------------
\* A letter that is no wildcard.
Plain(c) == c # Star /\ c # Question

\* Cuts that make a text a glob's.
Cuts(t, p, cut) ==
  /\ cut \in [0 .. Len(p) -> 0 .. Len(t)]
  /\ cut[0] = 0 /\ cut[Len(p)] = Len(t)
  /\ \A k \in 1 .. Len(p) : <<cut[k - 1], cut[k]>> \in LetterSteps(t, p[k])

LEMMA GlobCuts ==
  ASSUME NEW C, NEW t \in Seq(C), NEW p \in Seq(C)
  PROVE  Glob(t, p) <=> \E cut : Cuts(t, p, cut)
<1> DEFINE rel == [k \in 1 .. Len(p) |-> LetterSteps(t, p[k])]
<1>1. Glob(t, p) <=> Leads(rel, 0, Len(p), Len(t), 0, Len(t))
  BY GlobLeads
<1>2. \A k \in 1 .. Len(p) : rel[k] = LetterSteps(t, p[k])
  OBVIOUS
<1>3. 0 + 1 .. Len(p) = 1 .. Len(p)
  OBVIOUS
<1> HIDE DEF rel
<1> QED  BY <1>1, <1>2, <1>3 DEF Leads, Cuts

\* Plain letters at the beginning of a pattern are those of the text.
LEMMA PlainBeginning ==
  ASSUME NEW C, NEW t \in Seq(C), NEW p \in Seq(C), NEW m \in 0 .. Len(p),
         \A k \in 1 .. m : Plain(p[k]), NEW cut, Cuts(t, p, cut)
  PROVE  m <= Len(t) /\ cut[m] = m /\ \A k \in 1 .. m : t[k] = p[k]
<1> DEFINE N == Len(p)
           T == {n \in 0 .. m : cut[n] = n /\ \A k \in 1 .. n : t[k] = p[k]}
<1>1. N \in Nat /\ m \in Nat /\ m <= N /\ Len(t) \in Nat
  OBVIOUS
<1>2. /\ cut \in [0 .. N -> 0 .. Len(t)] /\ cut[0] = 0
      /\ \A k \in 1 .. N : <<cut[k - 1], cut[k]>> \in LetterSteps(t, p[k])
  BY DEF Cuts
<1> HIDE DEF N
<1>3. 0 \in T
  BY <1>1, <1>2
<1>4. ASSUME NEW n \in 0 .. m, n < m, n \in T PROVE n + 1 \in T
  <2>1. n + 1 \in 1 .. m /\ n + 1 \in 1 .. N /\ (n + 1) - 1 = n /\ n + 1 \in 0 .. m /\ n \in Nat
    BY <1>1, <1>4
  <2>2. <<cut[n], cut[n + 1]>> \in LetterSteps(t, p[n + 1])
    BY <1>2, <2>1
  <2>3. Plain(p[n + 1])
    BY <2>1
  <2>4. cut[n + 1] = cut[n] + 1 /\ t[cut[n + 1]] = p[n + 1]
    BY <2>2, <2>3 DEF LetterSteps, Plain
  <2>5. cut[n] = n /\ \A k \in 1 .. n : t[k] = p[k]
    BY <1>4
  <2>6. cut[n + 1] = n + 1 /\ t[n + 1] = p[n + 1]
    BY <2>4, <2>5
  <2>7. \A k \in 1 .. n + 1 : k \in 1 .. n \/ k = n + 1
    BY <2>1
  <2> QED  BY <2>1, <2>5, <2>6, <2>7
<1>5. m \in T
  <2>1. \A n \in 0 .. m : n < m /\ n \in T => n + 1 \in T
    BY <1>4
  <2> HIDE DEF T
  <2>2. \A n \in 0 .. m : n \in T
    BY <1>1, <1>3, <2>1, InductionUpTo
  <2> QED  BY <1>1, <2>2
<1>6. m \in 0 .. N
  BY <1>1
<1>7. cut[m] \in 0 .. Len(t)
  BY <1>2, <1>6
<1> QED  BY <1>1, <1>5, <1>7

\* A word without wildcards is one glob's only text.
LEMMA TermsAreGlobs ==
  ASSUME NEW C, NEW t \in Seq(C), NEW p \in Seq(C), \A k \in 1 .. Len(p) : Plain(p[k])
  PROVE  t = p <=> Glob(t, p)
<1>1. Len(p) \in Nat /\ Len(p) \in 0 .. Len(p) /\ Len(t) \in Nat
  OBVIOUS
<1>2. ASSUME Glob(t, p) PROVE t = p
  <2>1. PICK cut : Cuts(t, p, cut)
    BY <1>2, GlobCuts
  <2>2. cut[Len(p)] = Len(p) /\ \A k \in 1 .. Len(p) : t[k] = p[k]
    BY <1>1, <2>1, PlainBeginning
  <2>3. Len(t) = Len(p)
    BY <2>1, <2>2 DEF Cuts
  <2> QED  BY <2>2, <2>3, SeqEqual
<1>3. ASSUME t = p PROVE Glob(t, p)
  <2> DEFINE cut == [k \in 0 .. Len(p) |-> k]
  <2>1. cut \in [0 .. Len(p) -> 0 .. Len(t)] /\ cut[0] = 0 /\ cut[Len(p)] = Len(t)
    BY <1>1, <1>3
  <2>2. ASSUME NEW k \in 1 .. Len(p) PROVE <<cut[k - 1], cut[k]>> \in LetterSteps(t, p[k])
    <3>1. cut[k - 1] = k - 1 /\ cut[k] = k /\ k - 1 \in 0 .. Len(t) /\ k \in 0 .. Len(t)
      BY <1>1, <1>3
    <3>2. t[k] = p[k] /\ k = (k - 1) + 1 /\ k - 1 <= k
      BY <1>1, <1>3
    <3> HIDE DEF cut
    <3> QED  BY <3>1, <3>2 DEF LetterSteps
  <2> HIDE DEF cut
  <2>3. Cuts(t, p, cut)
    BY <2>1, <2>2 DEF Cuts
  <2> QED  BY <2>3, GlobCuts
<1> QED  BY <1>2, <1>3

\* Stars behind plain letters: any text that begins with these.
LEMMA PrefixesAreGlobs ==
  ASSUME NEW C, NEW t \in Seq(C), NEW p \in Seq(C), NEW m \in 0 .. Len(p), m < Len(p),
         \A k \in 1 .. m : Plain(p[k]), \A k \in m + 1 .. Len(p) : p[k] = Star
  PROVE  IsPrefix(SubSeq(p, 1, m), t) <=> Glob(t, p)
<1> DEFINE N == Len(p)
           L == Len(t)
<1>1. N \in Nat /\ m \in Nat /\ m < N /\ L \in Nat
  OBVIOUS
<1>2. IsPrefix(SubSeq(p, 1, m), t) <=> m <= L /\ \A k \in 1 .. m : t[k] = p[k]
  <2> DEFINE u == SubSeq(p, 1, m)
  <2>1. u \in Seq(C) /\ Len(u) = m /\ \A k \in 1 .. m : u[k] = p[k]
    BY <1>1
  <2>2. SubSeq(u, 1, m) = u
    BY <2>1, SubSeqFull
  <2> HIDE DEF u
  <2>3. ASSUME m <= L PROVE SubSeq(t, 1, m) = u <=> \A k \in 1 .. m : t[k] = p[k]
    <3> DEFINE v == SubSeq(t, 1, m)
    <3>1. v \in Seq(C) /\ Len(v) = m /\ \A k \in 1 .. m : v[k] = t[k]
      BY <1>1, <2>3
    <3> HIDE DEF v
    <3>2. (\A k \in 1 .. m : v[k] = u[k]) => v = u
      BY <2>1, <3>1, SeqEqual
    <3> QED  BY <2>1, <3>1, <3>2 DEF v
  <2>4. IsPrefix(u, t) <=> m <= L /\ u = SubSeq(t, 1, m)
    BY <2>1, <2>2 DEF IsPrefix
  <2> QED  BY <2>3, <2>4 DEF u
<1>3. ASSUME Glob(t, p) PROVE m <= L /\ \A k \in 1 .. m : t[k] = p[k]
  <2>1. PICK cut : Cuts(t, p, cut)
    BY <1>3, GlobCuts
  <2> QED  BY <2>1, PlainBeginning
<1>4. ASSUME m <= L, \A k \in 1 .. m : t[k] = p[k] PROVE Glob(t, p)
  <2> DEFINE cut == [k \in 0 .. N |-> IF k <= m THEN k ELSE L]
  <2>1. cut \in [0 .. N -> 0 .. L] /\ cut[0] = 0 /\ cut[N] = L
    BY <1>1, <1>4
  <2>2. \A k \in 0 .. N : cut[k] = IF k <= m THEN k ELSE L
    OBVIOUS
  <2> HIDE DEF cut
  <2>3. ASSUME NEW k \in 1 .. N PROVE <<cut[k - 1], cut[k]>> \in LetterSteps(t, p[k])
    <3>1. k \in 0 .. N /\ k - 1 \in 0 .. N /\ k \in Nat
      BY <1>1
    <3>2. CASE k <= m
      <4>1. cut[k - 1] = k - 1 /\ cut[k] = k
        BY <1>1, <2>2, <3>1, <3>2
      <4>2. t[k] = p[k] /\ k = (k - 1) + 1 /\ k - 1 <= k /\ k - 1 \in 0 .. L /\ k \in 0 .. L
        BY <1>1, <1>4, <3>1, <3>2
      <4> QED  BY <4>1, <4>2 DEF LetterSteps
    <3>3. CASE k > m
      <4>1. p[k] = Star /\ cut[k] = L
        BY <1>1, <2>2, <3>1, <3>3
      <4>2. cut[k - 1] \in 0 .. L
        BY <2>1, <3>1
      <4>3. cut[k - 1] <= L /\ L \in 0 .. L
        BY <1>1, <4>2
      <4> QED  BY <4>1, <4>2, <4>3 DEF LetterSteps
    <3> QED  BY <1>1, <3>1, <3>2, <3>3
  <2>4. Cuts(t, p, cut)
    BY <2>1, <2>3 DEF Cuts
  <2> QED  BY <2>4, GlobCuts
<1> QED  BY <1>2, <1>3, <1>4

\* A word without the stars at its end.
LEMMA StarsTrimmed ==
  ASSUME NEW C, NEW w \in Seq(C)
  PROVE  \E m \in 0 .. Len(w) : /\ TrimStars(w) = SubSeq(w, 1, m)
                                /\ \A k \in m + 1 .. Len(w) : w[k] = Star
<1> DEFINE kept == {n \in 0 .. Len(w) : \A i \in n + 1 .. Len(w) : w[i] = Star}
<1>1. kept \subseteq Nat /\ Len(w) \in kept
  <2>1. Len(w) + 1 .. Len(w) = {} /\ Len(w) \in 0 .. Len(w)
    OBVIOUS
  <2> QED  BY <2>1
<1>2. Min(kept) \in kept
  <2> HIDE DEF kept
  <2> QED  BY <1>1, MinIn
<1>3. TrimStars(w) = SubSeq(w, 1, Min(kept))
  BY DEF TrimStars
<1> QED  BY <1>2, <1>3

\* Lookups, prefixes and wildcards are exact, for all words and terms.
LEMMA WordsAreExact ==
  ASSUME NEW C, NEW t \in Seq(C), NEW w \in Seq(C)
  PROVE  LET isTerm   == ~Has(w, Star)
             isPrefix == ~isTerm /\ Last(w) = Star /\ ~Has(w, Question)
         IN  \/ isTerm /\ Has(w, Question)
             \/ isPrefix /\ Has(TrimStars(w), Star)
             \/ WordMatches(w, t) <=> Glob(t, w)
<1>1. Len(w) \in Nat /\ DOMAIN w = 1 .. Len(w)
  OBVIOUS
<1>2. \A c : Has(w, c) <=> \E k \in 1 .. Len(w) : w[k] = c
  BY <1>1 DEF Has
<1>3. CASE ~Has(w, Star)
  <2>1. WordMatches(w, t) <=> t = w
    BY <1>3 DEF WordMatches
  <2>2. ASSUME ~Has(w, Question) PROVE t = w <=> Glob(t, w)
    <3>1. \A k \in 1 .. Len(w) : Plain(w[k])
      BY <1>2, <1>3, <2>2 DEF Plain
    <3> QED  BY <3>1, TermsAreGlobs
  <2> QED  BY <1>3, <2>1, <2>2
<1>4. CASE Has(w, Star) /\ Last(w) = Star /\ ~Has(w, Question)
  <2>1. WordMatches(w, t) <=> IsPrefix(TrimStars(w), t)
    BY <1>4 DEF WordMatches
  <2>2. PICK m \in 0 .. Len(w) : /\ TrimStars(w) = SubSeq(w, 1, m)
                                 /\ \A k \in m + 1 .. Len(w) : w[k] = Star
    BY StarsTrimmed
  <2>3. ASSUME ~Has(TrimStars(w), Star) PROVE IsPrefix(TrimStars(w), t) <=> Glob(t, w)
    <3> DEFINE u == SubSeq(w, 1, m)
    <3>1. DOMAIN u = 1 .. m /\ \A k \in 1 .. m : u[k] = w[k]
      BY <1>1
    <3> HIDE DEF u
    <3>2. \A k \in 1 .. m : w[k] # Star
      BY <2>2, <2>3, <3>1 DEF Has, u
    <3>3. \A k \in 1 .. m : w[k] # Question
      BY <1>1, <1>2, <1>4
    <3>4. m < Len(w)
      <4>1. Len(w) > 0 /\ w[Len(w)] = Star
        BY <1>1, <1>2, <1>4 DEF Last
      <4>2. ASSUME m = Len(w) PROVE FALSE
        <5>1. Len(w) \in 1 .. m
          BY <1>1, <4>1, <4>2
        <5> QED  BY <3>2, <4>1, <5>1
      <4>3. m \in Nat /\ m <= Len(w)
        OBVIOUS
      <4>4. m # Len(w)
        BY <4>2
      <4>5. \A a, b \in Nat : a <= b /\ a # b => a < b
        OBVIOUS
      <4> QED  BY <1>1, <4>3, <4>4, <4>5, Zenon
    <3>5. \A k \in 1 .. m : Plain(w[k])
      BY <3>2, <3>3 DEF Plain
    <3>6. IsPrefix(SubSeq(w, 1, m), t) <=> Glob(t, w)
      BY <2>2, <3>4, <3>5, PrefixesAreGlobs
    <3> QED  BY <2>2, <3>6
  <2> QED  BY <1>4, <2>1, <2>3
<1>5. CASE Has(w, Star) /\ ~(Last(w) = Star /\ ~Has(w, Question))
  <2>1. WordMatches(w, t) <=> MatchesWildcard(t, w)
    BY <1>5 DEF WordMatches
  <2> QED  BY <2>1, WildcardsAreGlobs
<1> QED  BY <1>3, <1>4, <1>5

-----------------------------------------------------------------------------
(* Tokens and phrases                                                      *)

Nothing == [tokens |-> <<>>, word |-> <<>>]
States(C) == [tokens : Seq(Seq(C)), word : Seq(C)]
Done(s) == AddToken(s.tokens, s.word)
Behind(x, s) == [tokens |-> x \o s.tokens, word |-> s.word]

\* The states of reading a text.
IsReading(C, f, t) ==
  /\ f \in [0 .. Len(t) -> States(C)]
  /\ f[0] = Nothing
  /\ \A k \in 1 .. Len(t) : f[k] = NextLetter(f[k - 1], t[k])

\* Reading a letter leaves tokens and a word.
LEMMA ReadingTypes ==
  ASSUME NEW C, NEW s \in States(C), NEW c \in C
  PROVE  NextLetter(s, c) \in States(C) /\ Done(s) \in Seq(Seq(C)) /\ Nothing \in States(C)
<1>1. s.tokens \in Seq(Seq(C)) /\ s.word \in Seq(C)
  BY DEF States
<1>2. Done(s) \in Seq(Seq(C))
  BY <1>1, AppendProperties DEF Done, AddToken
<1>3. Nothing \in States(C)
  BY DEF Nothing, States
<1>4. CASE c = Space
  <2>1. NextLetter(s, c) = [tokens |-> Done(s), word |-> <<>>]
    BY <1>4 DEF NextLetter, Done
  <2> QED  BY <1>2, <1>3, <2>1 DEF States
<1>5. CASE c # Space /\ c \in Signs
  BY <1>2, <1>3, <1>5 DEF NextLetter
<1>6. CASE c # Space /\ c \notin Signs
  <2>1. NextLetter(s, c) = [s EXCEPT !.word = Append(@, c)]
    BY <1>6 DEF NextLetter
  <2>2. Append(s.word, c) \in Seq(C)
    BY <1>1, AppendProperties
  <2> QED  BY <1>2, <1>3, <2>1, <2>2 DEF States
<1> QED  BY <1>4, <1>5, <1>6

LEMMA ReadingIs ==
  ASSUME NEW C, NEW t \in Seq(C)
  PROVE  \E f : IsReading(C, f, t)
<1> DEFINE N == Len(t)
           V == States(C)
           step == [k \in 1 .. N |-> [s \in V |-> NextLetter(s, t[k])]]
<1>1. N \in Nat /\ \A k \in 1 .. N : t[k] \in C
  OBVIOUS
<1>2. Nothing \in V
  BY DEF Nothing, States
<1>3. \A k \in 1 .. N : \A s \in V : NextLetter(s, t[k]) \in V
  BY <1>1, ReadingTypes
<1> HIDE DEF V, N
<1>4. /\ step \in [1 .. N -> [V -> V]]
      /\ \A k \in 1 .. N : \A s \in V : step[k][s] = NextLetter(s, t[k])
  BY <1>3
<1> HIDE DEF step
<1>5. IsRecursion(N, V, Nothing, step)
  BY <1>1, <1>2, <1>4 DEF IsRecursion
<1>6. PICK f : SolvesRecursion(f, N, V, Nothing, step)
  BY <1>5, RecursionSolved
<1>7. f \in [0 .. N -> V] /\ f[0] = Nothing /\ \A k \in 1 .. N : f[k] = step[k][f[k - 1]]
  BY <1>6 DEF SolvesRecursion
<1>8. \A k \in 1 .. N : f[k - 1] \in V
  BY <1>1, <1>7
<1>9. \A k \in 1 .. N : f[k] = NextLetter(f[k - 1], t[k])
  BY <1>4, <1>7, <1>8
<1> QED  BY <1>7, <1>9 DEF IsReading, N, V

\* The tokens are those of any reading at its end.
LEMMA TokensRead ==
  ASSUME NEW C, NEW t \in Seq(C), NEW f, IsReading(C, f, t)
  PROVE  Tokenize(t) = Done(f[Len(t)])
<1> DEFINE N == Len(t)
           Good(g) == g = [k \in 0 .. Len(t) |->
                             IF k = 0 THEN [tokens |-> <<>>, word |-> <<>>]
                             ELSE NextLetter(g[k - 1], t[k])]
           read == CHOOSE g : Good(g)
<1>1. Tokenize(t) = AddToken(read[Len(t)].tokens, read[Len(t)].word)
  BY DEF Tokenize
<1>2. \A g : Good(g)
        <=> g = [k \in 0 .. N |-> IF k = 0 THEN Nothing ELSE NextLetter(g[k - 1], t[k])]
  BY DEF Nothing
<1>3. N \in Nat
  OBVIOUS
<1>4. f \in [0 .. N -> States(C)] /\ f[0] = Nothing
      /\ \A k \in 1 .. N : f[k] = NextLetter(f[k - 1], t[k])
  BY DEF IsReading
<1> HIDE DEF Good, N
<1>5. Good(f)
  <2>1. \A k \in 0 .. N : f[k] = IF k = 0 THEN Nothing ELSE NextLetter(f[k - 1], t[k])
    BY <1>3, <1>4
  <2>2. f = [k \in 0 .. N |-> IF k = 0 THEN Nothing ELSE NextLetter(f[k - 1], t[k])]
    BY <1>4, <2>1
  <2> QED  BY <1>2, <2>2
<1>6. Good(read)
  BY <1>5
<1> HIDE DEF read
<1>7. \A k \in 0 .. N : read[k] = IF k = 0 THEN Nothing ELSE NextLetter(read[k - 1], t[k])
  <2>1. read = [k \in 0 .. N |-> IF k = 0 THEN Nothing ELSE NextLetter(read[k - 1], t[k])]
    BY <1>2, <1>6
  <2> QED  BY <2>1
<1> DEFINE T == {k \in 0 .. N : read[k] = f[k]}
<1>8. 0 \in T
  BY <1>3, <1>4, <1>7
<1>9. ASSUME NEW k \in 0 .. N, k < N, k \in T PROVE k + 1 \in T
  <2>1. k + 1 \in 1 .. N /\ k + 1 \in 0 .. N /\ k + 1 # 0 /\ (k + 1) - 1 = k
    BY <1>3, <1>9
  <2>2. read[k + 1] = NextLetter(read[k], t[k + 1])
    BY <1>7, <2>1
  <2>3. f[k + 1] = NextLetter(f[k], t[k + 1])
    BY <1>4, <2>1
  <2> QED  BY <1>9, <2>1, <2>2, <2>3
<1>10. N \in T
  <2>1. \A k \in 0 .. N : k < N /\ k \in T => k + 1 \in T
    BY <1>9
  <2> HIDE DEF T
  <2>2. \A k \in 0 .. N : k \in T
    BY <1>3, <1>8, <2>1, InductionUpTo
  <2>3. N \in 0 .. N
    BY <1>3
  <2> QED  BY <2>2, <2>3
<1>11. read[N] = f[N]
  BY <1>10
<1> QED  BY <1>1, <1>11 DEF N, Done

\* Tokens are words.
LEMMA TokensType ==
  ASSUME NEW C, NEW t \in Seq(C)
  PROVE  Tokenize(t) \in Seq(Seq(C))
<1>1. PICK f : IsReading(C, f, t)
  BY ReadingIs
<1>2. Len(t) \in 0 .. Len(t)
  OBVIOUS
<1>3. f[Len(t)] \in States(C)
  BY <1>1, <1>2 DEF IsReading
<1>4. Tokenize(t) = Done(f[Len(t)])
  BY <1>1, TokensRead
<1>5. AddToken(f[Len(t)].tokens, f[Len(t)].word) \in Seq(Seq(C))
  <2>1. f[Len(t)].tokens \in Seq(Seq(C)) /\ f[Len(t)].word \in Seq(C)
    BY <1>3 DEF States
  <2> QED  BY <2>1, AppendProperties DEF AddToken
<1> QED  BY <1>4, <1>5 DEF Done

\* Reading the beginning of a text.
LEMMA TokensOfBeginning ==
  ASSUME NEW C, NEW t \in Seq(C), NEW f, IsReading(C, f, t), NEW i \in 0 .. Len(t)
  PROVE  Tokenize(SubSeq(t, 1, i)) = Done(f[i])
<1> DEFINE p == SubSeq(t, 1, i)
           g == [k \in 0 .. i |-> f[k]]
<1>1. p \in Seq(C) /\ Len(p) = i /\ \A k \in 1 .. i : p[k] = t[k]
  OBVIOUS
<1>2. i \in Nat /\ i <= Len(t)
  OBVIOUS
<1>3. \A k \in 0 .. i : k \in 0 .. Len(t)
  BY <1>2
<1>4. g \in [0 .. i -> States(C)] /\ \A k \in 0 .. i : g[k] = f[k]
  BY <1>3 DEF IsReading
<1> HIDE DEF g, p
<1>5. ASSUME NEW k \in 1 .. i PROVE g[k] = NextLetter(g[k - 1], p[k])
  <2>1. k \in 0 .. i /\ k - 1 \in 0 .. i /\ k \in 1 .. Len(t)
    BY <1>2
  <2>2. f[k] = NextLetter(f[k - 1], t[k])
    BY <2>1 DEF IsReading
  <2> QED  BY <1>1, <1>4, <2>1, <2>2
<1>6. g[0] = Nothing /\ g[i] = f[i]
  <2>1. 0 \in 0 .. i /\ i \in 0 .. i
    BY <1>2
  <2> QED  BY <1>4, <2>1 DEF IsReading
<1>7. IsReading(C, g, p)
  BY <1>1, <1>4, <1>5, <1>6 DEF IsReading
<1>8. Tokenize(p) = Done(g[i])
  BY <1>1, <1>7, TokensRead
<1> QED  BY <1>6, <1>8 DEF p

LEMMA WordGrows ==
  ASSUME NEW k, NEW w, NEW c, c # Space, c \notin Signs
  PROVE  NextLetter([tokens |-> k, word |-> w], c) = [tokens |-> k, word |-> Append(w, c)]
  BY DEF NextLetter

\* Tokens read before stay in front.
LEMMA ReadBehind ==
  ASSUME NEW C, NEW x \in Seq(Seq(C)), NEW s \in States(C), NEW c \in C
  PROVE  /\ NextLetter(Behind(x, s), c) = Behind(x, NextLetter(s, c))
         /\ Done(Behind(x, s)) = x \o Done(s)
<1> DEFINE k == s.tokens
           w == s.word
           W == Seq(C)
<1>1. k \in Seq(W) /\ w \in W /\ s = [tokens |-> k, word |-> w]
  BY DEF States
<1>2. Behind(x, s) = [tokens |-> x \o k, word |-> w]
  BY DEF Behind
<1> HIDE DEF k, w, W
<1>3. AddToken(x \o k, w) = x \o AddToken(k, w)
  <2>1. Append(x \o k, w) = x \o Append(k, w)
    <3>1. x \in Seq(W)
      BY DEF W
    <3>2. x \o k \in Seq(W) /\ <<w>> \in Seq(W)
      BY <1>1, <3>1
    <3>3. Append(x \o k, w) = (x \o k) \o <<w>>
      BY <1>1, <3>2, AppendIsConcat
    <3>4. Append(k, w) = k \o <<w>>
      BY <1>1, AppendIsConcat
    <3>5. (x \o k) \o <<w>> = x \o (k \o <<w>>)
      BY <1>1, <3>1, <3>2, ConcatAssociative
    <3> QED  BY <3>3, <3>4, <3>5
  <2> QED  BY <2>1 DEF AddToken
<1>4. Done(Behind(x, s)) = x \o Done(s)
  <2>1. Done(Behind(x, s)) = AddToken(x \o k, w)
    BY <1>2 DEF Done
  <2>2. Done(s) = AddToken(k, w)
    BY DEF Done, k, w
  <2> QED  BY <1>3, <2>1, <2>2
<1>5. CASE c = Space
  <2>1. NextLetter(Behind(x, s), c) = [tokens |-> Done(Behind(x, s)), word |-> <<>>]
    BY <1>5 DEF NextLetter, Done
  <2>2. NextLetter(s, c) = [tokens |-> Done(s), word |-> <<>>]
    BY <1>5 DEF NextLetter, Done
  <2>3. Behind(x, NextLetter(s, c)) = [tokens |-> x \o Done(s), word |-> <<>>]
    BY <2>2 DEF Behind
  <2> QED  BY <1>4, <2>1, <2>3
<1>6. CASE c # Space /\ c \in Signs
  BY <1>4, <1>6 DEF NextLetter
<1>7. CASE c # Space /\ c \notin Signs
  <2>1. NextLetter(Behind(x, s), c) = [tokens |-> x \o k, word |-> Append(w, c)]
    BY <1>2, <1>7, WordGrows
  <2>2. NextLetter(s, c) = [tokens |-> k, word |-> Append(w, c)]
    BY <1>1, <1>7, WordGrows
  <2>3. Behind(x, NextLetter(s, c)) = [tokens |-> x \o k, word |-> Append(w, c)]
    BY <2>2 DEF Behind
  <2> QED  BY <1>4, <2>1, <2>3
<1> QED  BY <1>4, <1>5, <1>6, <1>7

\* A place between words.
IsBound(t, i) == i \in {0, Len(t)} \/ t[i] = Space \/ t[i + 1] = Space

\* Behind a place between words, a text is read as if it began there.
LEMMA TokensOfRest ==
  ASSUME NEW C, NEW t \in Seq(C), NEW f, IsReading(C, f, t),
         NEW i \in 0 .. Len(t), IsBound(t, i), NEW j \in i .. Len(t)
  PROVE  Done(f[j]) = Done(f[i]) \o Tokenize(SubSeq(t, i + 1, j))
<1> DEFINE p == SubSeq(t, i + 1, j)
           N == Len(t)
           K == j - i
           x == Done(f[i])
<1>1. N \in Nat /\ i \in Nat /\ j \in Nat /\ i <= j /\ j <= N /\ K \in Nat /\ i + K = j
  OBVIOUS
<1>2. /\ f \in [0 .. N -> States(C)] /\ f[0] = Nothing
      /\ \A k \in 1 .. N : f[k] = NextLetter(f[k - 1], t[k])
      /\ \A k \in 1 .. N : t[k] \in C
  BY DEF IsReading
<1>3. p \in Seq(C) /\ Len(p) = K /\ \A k \in 1 .. K : p[k] = t[i + k]
  <2>1. IsPiece(C, t, i, j, p)
    BY <1>1, PieceFacts
  <2> HIDE DEF p
  <2> QED  BY <1>1, <2>1 DEF IsPiece
<1> HIDE DEF p, N, K
<1>4. f[i] \in States(C)
  BY <1>1, <1>2 DEF N
<1>5. x \in Seq(Seq(C))
  <2>1. f[i].tokens \in Seq(Seq(C)) /\ f[i].word \in Seq(C)
    BY <1>4 DEF States
  <2> QED  BY <2>1, AppendProperties DEF Done, AddToken
<1>6. PICK g : IsReading(C, g, p)
  BY <1>3, ReadingIs
<1>7. /\ g \in [0 .. K -> States(C)] /\ g[0] = Nothing
      /\ \A k \in 1 .. K : g[k] = NextLetter(g[k - 1], p[k])
  BY <1>3, <1>6 DEF IsReading
<1>8. Tokenize(p) = Done(g[K])
  BY <1>3, <1>6, TokensRead
<1>9. /\ Nothing \in States(C) /\ Done(Nothing) = <<>>
      /\ \A y \in Seq(Seq(C)) : Behind(y, Nothing) = [tokens |-> y, word |-> <<>>]
  <2>1. \A y \in Seq(Seq(C)) : y \o <<>> = y
    OBVIOUS
  <2> QED  BY <2>1 DEF Nothing, States, Done, AddToken, Behind
<1>10. CASE K = 0
  <2>1. Tokenize(p) = <<>> /\ j = i
    BY <1>1, <1>7, <1>8, <1>9, <1>10
  <2>2. x \o <<>> = x
    BY <1>5
  <2> QED  BY <2>1, <2>2 DEF p
<1>11. CASE K # 0
  <2> DEFINE T == {k \in 0 .. K : k = 0 \/ f[i + k] = Behind(x, g[k])}
  <2>1. 0 \in T
    BY <1>1
  <2>2. ASSUME NEW k \in 0 .. K, k < K, k \in T PROVE k + 1 \in T
    <3>1. /\ k + 1 \in 1 .. K /\ k + 1 \in 0 .. K /\ (k + 1) - 1 = k /\ k \in Nat
          /\ i + (k + 1) \in 1 .. N /\ (i + (k + 1)) - 1 = i + k
      BY <1>1, <2>2
    <3>2. p[k + 1] = t[i + (k + 1)] /\ t[i + (k + 1)] \in C
      BY <1>2, <1>3, <3>1
    <3>3. f[i + (k + 1)] = NextLetter(f[i + k], p[k + 1])
      BY <1>2, <3>1, <3>2
    <3>4. g[k + 1] = NextLetter(g[k], p[k + 1]) /\ g[k] \in States(C)
      BY <1>7, <3>1
    <3>5. NextLetter(Behind(x, g[k]), p[k + 1]) = Behind(x, NextLetter(g[k], p[k + 1]))
      <4> HIDE DEF x, T
      <4> QED  BY <1>5, <3>2, <3>4, ReadBehind
    <3>6. CASE f[i + k] = Behind(x, g[k])
      BY <3>1, <3>3, <3>4, <3>5, <3>6
    <3>7. CASE k = 0 /\ t[i + 1] = Space
      <4>1. p[1] = Space /\ f[i + 1] = NextLetter(f[i], Space)
        BY <1>1, <3>2, <3>3, <3>7
      <4>2. f[i + 1] = [tokens |-> x, word |-> <<>>]
        BY <4>1 DEF NextLetter, Done
      <4>3. g[1] = NextLetter(Nothing, Space)
        BY <1>7, <3>4, <3>7, <4>1
      <4>4. g[1] = [tokens |-> Done(Nothing), word |-> <<>>]
        BY <4>3 DEF NextLetter, Done
      <4>5. g[1] = Nothing
        BY <1>9, <4>4 DEF Nothing
      <4>6. f[i + 1] = Behind(x, g[1])
        BY <1>5, <1>9, <4>2, <4>5
      <4> QED  BY <3>1, <3>7, <4>6
    <3>8. CASE k = 0 /\ i = 0
      <4>1. f[i] = Nothing /\ x = <<>>
        BY <1>2, <1>9, <3>8
      <4>2. i + k = 0 /\ f[0] = Nothing /\ g[0] = Nothing
        BY <1>2, <1>7, <3>8
      <4>3. <<>> \in Seq(Seq(C)) /\ Nothing = [tokens |-> <<>>, word |-> <<>>]
        BY DEF Nothing
      <4>4. Behind(<<>>, Nothing) = Nothing
        BY <1>9, <4>3
      <4>5. f[i + k] = Behind(x, g[k])
        BY <3>8, <4>1, <4>2, <4>4
      <4> QED  BY <3>6, <4>5
    <3>9. CASE k = 0 /\ i # 0 /\ t[i] = Space
      <4>1. i \in 1 .. N /\ i - 1 \in 0 .. N
        BY <1>1, <3>9
      <4>2. f[i] = NextLetter(f[i - 1], Space)
        BY <1>2, <3>9, <4>1
      <4>3. f[i] = [tokens |-> Done(f[i - 1]), word |-> <<>>]
        BY <4>2 DEF NextLetter, Done
      <4>4. f[i] = [tokens |-> x, word |-> <<>>]
        BY <4>3 DEF Done, AddToken
      <4>5. i + k = i /\ g[k] = Nothing
        BY <1>1, <1>7, <3>9
      <4>6. f[i + k] = Behind(x, g[k])
        BY <1>5, <1>9, <4>4, <4>5
      <4> QED  BY <3>6, <4>6
    <3>10. k = 0 => i = 0 \/ t[i] = Space \/ t[i + 1] = Space
      <4>1. i # N
        BY <1>1, <1>11
      <4> QED  BY <4>1 DEF IsBound, N
    <3>11. k = 0 \/ f[i + k] = Behind(x, g[k])
      BY <2>2
    <3> QED  BY <3>6, <3>7, <3>8, <3>9, <3>10, <3>11
  <2>3. K \in T
    <3>1. \A k \in 0 .. K : k < K /\ k \in T => k + 1 \in T
      BY <2>2
    <3> HIDE DEF T
    <3>2. \A k \in 0 .. K : k \in T
      BY <1>1, <2>1, <3>1, InductionUpTo
    <3>3. K \in 0 .. K
      BY <1>1
    <3> QED  BY <3>2, <3>3
  <2>4. f[j] = Behind(x, g[K])
    BY <1>1, <1>11, <2>3
  <2>5. g[K] \in States(C) /\ 1 \in 1 .. K
    BY <1>1, <1>7, <1>11
  <2>6. p[1] \in C
    BY <1>3, <2>5
  <2>7. Done(Behind(x, g[K])) = x \o Done(g[K])
    <3> HIDE DEF x
    <3> QED  BY <1>5, <2>5, <2>6, ReadBehind
  <2> QED  BY <1>8, <2>4, <2>7 DEF p
<1> QED  BY <1>10, <1>11

\* The tokens of a piece between words are among those of the text, in a row.
LEMMA TokensOfPiece ==
  ASSUME NEW C, NEW t \in Seq(C), NEW i \in 0 .. Len(t), NEW j \in i .. Len(t),
         IsBound(t, i), IsBound(t, j)
  PROVE  \E x, y \in Seq(Seq(C)) : Tokenize(t) = (x \o Tokenize(SubSeq(t, i + 1, j))) \o y
<1>1. PICK f : IsReading(C, f, t)
  BY ReadingIs
<1>2. /\ j \in 0 .. Len(t) /\ Len(t) \in j .. Len(t) /\ Len(t) \in 0 .. Len(t)
      /\ Len(t) \in Nat /\ i \in Nat /\ j \in Nat
  OBVIOUS
<1>3. Tokenize(t) = Done(f[Len(t)])
  BY <1>1, TokensRead
<1>4. Done(f[Len(t)]) = Done(f[j]) \o Tokenize(SubSeq(t, j + 1, Len(t)))
  BY <1>1, <1>2, TokensOfRest
<1>5. Done(f[j]) = Done(f[i]) \o Tokenize(SubSeq(t, i + 1, j))
  BY <1>1, TokensOfRest
<1>6. Done(f[i]) = Tokenize(SubSeq(t, 1, i))
  BY <1>1, TokensOfBeginning
<1>7. SubSeq(t, 1, i) \in Seq(C) /\ SubSeq(t, j + 1, Len(t)) \in Seq(C)
  <2>1. IsPiece(C, t, j, Len(t), SubSeq(t, j + 1, Len(t)))
    BY <1>2, PieceFacts
  <2>2. SubSeq(t, 1, i) \in Seq(C)
    OBVIOUS
  <2> QED  BY <2>1, <2>2 DEF IsPiece
<1>8. /\ Tokenize(SubSeq(t, 1, i)) \in Seq(Seq(C))
      /\ Tokenize(SubSeq(t, j + 1, Len(t))) \in Seq(Seq(C))
  BY <1>7, TokensType
<1> QED  BY <1>3, <1>4, <1>5, <1>6, <1>8

-----------------------------------------------------------------------------
\* A document is found where every later term is behind some first one.
IsFound(doc, terms) ==
  /\ Places(doc, terms[1]) # {}
  /\ \A i \in 2 .. Len(terms) :
       \E p \in Places(doc, terms[1]) : p + i - 1 \in Places(doc, terms[i])

LEMMA FoundIs ==
  ASSUME NEW docs, NEW n \in Nat, DOMAIN docs = 1 .. n,
         \A d \in 1 .. n : docs[d].id = d,
         NEW terms, terms # <<>>, NEW d \in 1 .. n
  PROVE  d \in SearchPhrase(docs, terms) <=> IsFound(docs[d], terms)
<1>1. ASSUME NEW first, NEW i, NEW w
      PROVE  FoundAt(docs, d, first, i, w) <=> \E p \in first : p + i - 1 \in Places(docs[d], w)
  <2> DEFINE entries == {e \in DOMAIN docs : docs[e].id = d /\ Places(docs[e], w) # {}}
  <2>1. FoundAt(docs, d, first, i, w)
          <=> entries # {} /\ \E p \in first : p + i - 1 \in Places(docs[Min(entries)], w)
    BY DEF FoundAt
  <2>2. CASE Places(docs[d], w) = {}
    <3>1. entries = {}
      BY <2>2
    <3> QED  BY <2>1, <2>2, <3>1
  <2>3. CASE Places(docs[d], w) # {}
    <3>1. entries = {d} /\ {d} \subseteq Nat
      BY <2>3
    <3>2. Min({d}) \in {d}
      BY <3>1, MinIn
    <3> HIDE DEF entries
    <3>3. Min(entries) = d /\ entries # {}
      BY <3>1, <3>2
    <3> QED  BY <2>1, <3>3
  <2> QED  BY <2>2, <2>3
<1> DEFINE Suits(e) == LET first == Places(docs[e], terms[1])
                       IN  /\ first # {}
                           /\ \A i \in 2 .. Len(terms) :
                                FoundAt(docs, docs[e].id, first, i, terms[i])
<1>2. SearchPhrase(docs, terms) = {docs[e].id : e \in {e \in DOMAIN docs : Suits(e)}}
  BY DEF SearchPhrase
<1>3. Suits(d) <=> IsFound(docs[d], terms)
  BY <1>1 DEF IsFound
<1> HIDE DEF Suits
<1>4. d \in SearchPhrase(docs, terms) <=> Suits(d)
  BY <1>2
<1> QED  BY <1>3, <1>4

\* The place of a token, counted from 0.
LEMMA PlacesAre ==
  ASSUME NEW W, NEW doc, doc.tokens \in Seq(W), NEW w, NEW p \in Nat
  PROVE  p \in Places(doc, w) <=> p + 1 \in 1 .. Len(doc.tokens) /\ doc.tokens[p + 1] = w
<1>1. DOMAIN doc.tokens = 1 .. Len(doc.tokens)
  OBVIOUS
<1>2. ASSUME p \in Places(doc, w) PROVE p + 1 \in 1 .. Len(doc.tokens) /\ doc.tokens[p + 1] = w
  <2>1. PICK i \in 1 .. Len(doc.tokens) : doc.tokens[i] = w /\ p = i - 1
    BY <1>1, <1>2 DEF Places
  <2>2. p + 1 = i
    BY <2>1
  <2> QED  BY <2>1, <2>2
<1>3. ASSUME p + 1 \in 1 .. Len(doc.tokens), doc.tokens[p + 1] = w PROVE p \in Places(doc, w)
  <2>1. p = (p + 1) - 1
    OBVIOUS
  <2> QED  BY <1>1, <1>3, <2>1 DEF Places
<1> QED  BY <1>2, <1>3

\* Terms that a document has in a row are found.
LEMMA RowFound ==
  ASSUME NEW W, NEW doc, NEW x \in Seq(W), NEW terms \in Seq(W), NEW y \in Seq(W),
         terms # <<>>, doc.tokens = (x \o terms) \o y
  PROVE  IsFound(doc, terms)
<1> DEFINE X == Len(x)
           M == Len(terms)
           z == (x \o terms) \o y
<1>1. X \in Nat /\ M \in Nat /\ M > 0 /\ Len(y) \in Nat
  OBVIOUS
<1>2. z \in Seq(W) /\ Len(z) = X + M + Len(y) /\ \A i \in 1 .. M : z[X + i] = terms[i]
  <2>1. /\ x \o terms \in Seq(W) /\ Len(x \o terms) = X + M
        /\ \A i \in 1 .. X + M : (x \o terms)[i] = IF i <= X THEN x[i] ELSE terms[i - X]
    BY ConcatProperties
  <2>2. \A i \in 1 .. M : (x \o terms)[X + i] = terms[i]
    <3>1. \A i \in 1 .. M : X + i \in 1 .. X + M /\ ~(X + i <= X) /\ (X + i) - X = i
      BY <1>1
    <3> HIDE DEF X, M
    <3> QED  BY <2>1, <3>1
  <2> DEFINE v == x \o terms
  <2> HIDE DEF v
  <2>3. /\ v \o y \in Seq(W) /\ Len(v \o y) = Len(v) + Len(y)
        /\ \A i \in 1 .. Len(v) + Len(y) : (v \o y)[i] = IF i <= Len(v) THEN v[i] ELSE y[i - Len(v)]
    BY <2>1, ConcatProperties DEF v
  <2>4. Len(v) = X + M
    BY <2>1 DEF v
  <2>5. \A i \in 1 .. M : X + i \in 1 .. Len(v) + Len(y) /\ X + i <= Len(v)
    BY <1>1, <2>4
  <2>6. \A i \in 1 .. M : (v \o y)[X + i] = v[X + i]
    BY <2>3, <2>5
  <2> QED  BY <1>1, <2>1, <2>2, <2>3, <2>4, <2>6 DEF v
<1>3. doc.tokens = z
  OBVIOUS
<1> HIDE DEF X, M, z
<1>4. doc.tokens \in Seq(W)
  BY <1>2, <1>3
<1>5. ASSUME NEW i \in 1 .. M PROVE X + i - 1 \in Places(doc, terms[i])
  <2>1. X + i - 1 \in Nat /\ (X + i - 1) + 1 = X + i /\ X + i \in 1 .. Len(z)
    BY <1>1, <1>2
  <2>2. doc.tokens[X + i] = terms[i] /\ Len(doc.tokens) = Len(z)
    BY <1>2, <1>3
  <2> QED  BY <1>4, <2>1, <2>2, PlacesAre
<1>6. X \in Places(doc, terms[1])
  <2>1. 1 \in 1 .. M /\ X + 1 - 1 = X
    BY <1>1
  <2> QED  BY <1>5, <2>1
<1>7. \A i \in 2 .. M : i \in 1 .. M
  BY <1>1
<1> QED  BY <1>5, <1>6, <1>7 DEF IsFound, M

\* Two terms are found where a document has them side by side.
LEMMA PairFound ==
  ASSUME NEW W, NEW doc, doc.tokens \in Seq(W), NEW pair \in Seq(W), Len(pair) = 2
  PROVE  IsFound(doc, pair) <=> SideBySide(doc, pair)
<1> DEFINE N == Len(doc.tokens)
<1>1. N \in Nat /\ \A i \in 2 .. 2 : i = 2
  OBVIOUS
<1>2. Places(doc, pair[1]) \subseteq Nat
  <2>1. DOMAIN doc.tokens = 1 .. N
    OBVIOUS
  <2>2. \A i \in 1 .. N : i - 1 \in Nat
    BY <1>1
  <2> HIDE DEF N
  <2> QED  BY <2>1, <2>2 DEF Places
<1>3. IsFound(doc, pair) <=> \E p \in Places(doc, pair[1]) : p + 2 - 1 \in Places(doc, pair[2])
  <2>1. 2 \in 2 .. Len(pair) /\ \A i \in 2 .. Len(pair) : i = 2
    OBVIOUS
  <2> QED  BY <2>1 DEF IsFound
<1>4. ASSUME NEW p \in Places(doc, pair[1]), p + 2 - 1 \in Places(doc, pair[2])
      PROVE  \E i \in 1 .. N - 1 : doc.tokens[i] = pair[1] /\ doc.tokens[i + 1] = pair[2]
  <2>1. p \in Nat /\ p + 2 - 1 \in Nat /\ (p + 2 - 1) + 1 = (p + 1) + 1
    BY <1>2
  <2>2. p + 1 \in 1 .. N /\ doc.tokens[p + 1] = pair[1]
    BY <2>1, PlacesAre
  <2>3. (p + 2 - 1) + 1 \in 1 .. N /\ doc.tokens[(p + 2 - 1) + 1] = pair[2]
    BY <1>4, <2>1, PlacesAre
  <2>4. p + 1 \in 1 .. N - 1
    BY <1>1, <2>1, <2>2, <2>3
  <2> QED  BY <2>1, <2>2, <2>3, <2>4
<1>5. ASSUME NEW i \in 1 .. N - 1, doc.tokens[i] = pair[1], doc.tokens[i + 1] = pair[2]
      PROVE  \E p \in Places(doc, pair[1]) : p + 2 - 1 \in Places(doc, pair[2])
  <2>1. i - 1 \in Nat /\ (i - 1) + 1 = i /\ i \in 1 .. N /\ i \in Nat
        /\ (i - 1) + 2 - 1 = i /\ i + 1 \in 1 .. N
    BY <1>1
  <2>2. i - 1 \in Places(doc, pair[1])
    BY <1>5, <2>1, PlacesAre
  <2>3. i \in Places(doc, pair[2])
    BY <1>5, <2>1, PlacesAre
  <2> QED  BY <2>1, <2>2, <2>3
<1> QED  BY <1>3, <1>4, <1>5 DEF SideBySide

LEMMA EmptyTokens ==
  ASSUME NEW C
  PROVE  Tokenize(<<>>) = <<>>
<1> DEFINE e == <<>>
<1>1. e \in Seq(C) /\ Len(e) = 0
  OBVIOUS
<1>2. Done(Nothing) = e
  BY DEF Nothing, Done, AddToken
<1> HIDE DEF e
<1>3. PICK f : IsReading(C, f, e)
  BY <1>1, ReadingIs
<1>4. Tokenize(e) = Done(f[Len(e)])
  BY <1>1, <1>3, TokensRead
<1>5. f[0] = Nothing
  BY <1>3 DEF IsReading
<1>6. Tokenize(e) = e
  BY <1>1, <1>2, <1>4, <1>5
<1> QED  BY <1>6 DEF e

\* A piece between word bounds is found in its own document.
LEMMA PieceFound ==
  ASSUME NEW C, NEW t \in Seq(C), NEW i \in 0 .. Len(t), NEW j \in 0 .. Len(t),
         IsBound(t, i), IsBound(t, j), NEW doc, doc.tokens = Tokenize(t),
         Tokenize(SubSeq(t, i + 1, j)) # <<>>
  PROVE  IsFound(doc, Tokenize(SubSeq(t, i + 1, j)))
<1> DEFINE p == SubSeq(t, i + 1, j)
           terms == Tokenize(p)
<1>1. i \in Nat /\ j \in Nat /\ j <= Len(t)
  OBVIOUS
<1>2. i <= j
  <2>1. ASSUME ~(i <= j) PROVE FALSE
    <3>1. i + 1 \in Int /\ j \in Int /\ j < i + 1
      BY <1>1, <2>1
    <3>2. p = <<>>
      BY <3>1, SubSeqEmpty
    <3> HIDE DEF p
    <3>3. terms = <<>>
      BY <3>2, EmptyTokens
    <3> QED  BY <3>3 DEF p
  <2> QED  BY <2>1
<1>3. j \in i .. Len(t)
  BY <1>1, <1>2
<1>4. PICK x, y \in Seq(Seq(C)) : Tokenize(t) = (x \o Tokenize(SubSeq(t, i + 1, j))) \o y
  BY <1>3, TokensOfPiece
<1>5. doc.tokens = (x \o terms) \o y
  BY <1>4
<1>6. p \in Seq(C)
  <2>1. IsPiece(C, t, i, j, p)
    BY <1>1, PieceFacts
  <2> HIDE DEF p
  <2> QED  BY <2>1 DEF IsPiece
<1>7. terms \in Seq(Seq(C))
  <2> HIDE DEF p
  <2> QED  BY <1>6, TokensType
<1>8. terms # <<>>
  OBVIOUS
<1> HIDE DEF terms
<1> DEFINE W == Seq(C)
<1>9. x \in Seq(W) /\ y \in Seq(W) /\ terms \in Seq(W)
  BY <1>7
<1> HIDE DEF W
<1>10. IsFound(doc, terms)
  BY <1>5, <1>8, <1>9, RowFound
<1> QED  BY <1>10 DEF terms

LEMMA PiecesAre ==
  ASSUME NEW C, NEW t \in Seq(C), NEW p \in PiecesOf(t)
  PROVE  /\ Tokenize(p) \in Seq(Seq(C))
         /\ \A doc : doc.tokens = Tokenize(t) /\ Tokenize(p) # <<>> => IsFound(doc, Tokenize(p))
<1>1. PICK i \in WordBounds(t), j \in WordBounds(t) : p = SubSeq(t, i + 1, j)
  BY DEF PiecesOf
<1>2. i \in 0 .. Len(t) /\ j \in 0 .. Len(t) /\ IsBound(t, i) /\ IsBound(t, j)
  BY <1>1 DEF WordBounds, IsBound
<1>3. IsPiece(C, t, i, j, SubSeq(t, i + 1, j))
  <2>1. i \in Nat /\ j \in Nat /\ j <= Len(t)
    BY <1>2
  <2> QED  BY <2>1, PieceFacts
<1>4. p \in Seq(C)
  BY <1>1, <1>3 DEF IsPiece
<1>5. \A doc : doc.tokens = Tokenize(t) /\ Tokenize(p) # <<>> => IsFound(doc, Tokenize(p))
  BY <1>1, <1>2, PieceFound
<1> QED  BY <1>4, <1>5, TokensType

\* Phrases are exact, for all documents.
LEMMA PhrasesAreExact ==
  ASSUME NEW C, NEW texts \in Seq(Seq(C))
  PROVE  PhrasesExact(texts)
<1> DEFINE n == Len(texts)
           docs == Indexed(texts)
           W == Seq(C)
<1>1. n \in Nat /\ DOMAIN texts = 1 .. n /\ \A d \in 1 .. n : texts[d] \in Seq(C)
  OBVIOUS
<1>2. /\ DOMAIN docs = 1 .. n
      /\ \A d \in 1 .. n : docs[d].id = d /\ docs[d].tokens = Tokenize(texts[d])
  BY <1>1 DEF Indexed
<1> HIDE DEF docs, n
<1>3. \A d \in 1 .. n : docs[d].tokens \in Seq(W)
  BY <1>1, <1>2, TokensType
<1>4. ASSUME NEW d \in 1 .. n, NEW p \in PiecesOf(texts[d])
      PROVE  /\ Tokenize(p) \in Seq(W)
             /\ Tokenize(p) # <<>> => IsFound(docs[d], Tokenize(p))
  <2>1. texts[d] \in Seq(C) /\ docs[d].tokens = Tokenize(texts[d])
    BY <1>1, <1>2
  <2> QED  BY <2>1, PiecesAre
<1> HIDE DEF W
<1>5. \A d \in 1 .. n : \A p \in PiecesOf(texts[d]) :
         Tokenize(p) # <<>> => d \in SearchPhrase(docs, Tokenize(p))
  BY <1>1, <1>2, <1>4, FoundIs
<1>6. ASSUME NEW pair \in Seq(W), Len(pair) = 2, NEW d \in 1 .. n
      PROVE  d \in SearchPhrase(docs, pair) <=> SideBySide(docs[d], pair)
  <2>1. pair # <<>>
    <3>1. Len(<<>>) = 0
      OBVIOUS
    <3>2. Len(pair) # 0
      BY <1>6
    <3> QED  BY <3>1, <3>2, Zenon
  <2>2. d \in SearchPhrase(docs, pair) <=> IsFound(docs[d], pair)
    BY <1>1, <1>2, <2>1, FoundIs
  <2>3. docs[d].tokens \in Seq(W)
    BY <1>3
  <2>4. IsFound(docs[d], pair) <=> SideBySide(docs[d], pair)
    BY <1>6, <2>3, PairFound
  <2> QED  BY <2>2, <2>4
<1>7. \A pair \in {Tokenize(p) : p \in UNION {PiecesOf(texts[d]) : d \in 1 .. n}} : pair \in Seq(W)
  BY <1>4
<1>8. \A d \in DOMAIN texts : \A p \in PiecesOf(texts[d]) :
         Tokenize(p) # <<>> => d \in SearchPhrase(docs, Tokenize(p))
  BY <1>1, <1>5
<1>9. \A pair \in {Tokenize(p) : p \in UNION {PiecesOf(texts[d]) : d \in DOMAIN texts}} :
         Len(pair) = 2 =>
           \A d \in DOMAIN docs : d \in SearchPhrase(docs, pair) <=> SideBySide(docs[d], pair)
  BY <1>1, <1>2, <1>6, <1>7
<1> QED  BY <1>8, <1>9 DEF PhrasesExact, docs

-----------------------------------------------------------------------------
(* Highlighting                                                            *)

\* The i-th letter is in an occurrence that begins behind less than n letters.
InOccurrence(t, terms, n, i) ==
  \E p \in Positions(t, terms) : p[1] < n /\ p[1] < i /\ i <= p[2]

InInterval(m, k, i) == m[k][1] < i /\ i <= m[k][2]

\* Intervals in order, apart from each other, that cover these occurrences.
AreMerged(t, terms, n, m) ==
  /\ m \in Seq(Nat \X Nat)
  /\ \A k \in 1 .. Len(m) : m[k][1] < m[k][2] /\ m[k][2] <= Len(t) /\ m[k][1] < n
  /\ \A k, l \in 1 .. Len(m) : k < l => m[k][2] < m[l][1]
  /\ \A i \in Nat : InOccurrence(t, terms, n, i) <=> \E k \in 1 .. Len(m) : InInterval(m, k, i)

\* An occurrence lies in the text and is not empty.
LEMMA OccurrenceFacts ==
  ASSUME NEW C, NEW t \in Seq(C), NEW terms, <<>> \notin terms, NEW p \in Positions(t, terms)
  PROVE  p[1] \in 0 .. Len(t) /\ p[2] \in 0 .. Len(t) /\ p[1] < p[2] /\ p = <<p[1], p[2]>>
<1>1. p \in (0 .. Len(t)) \X (0 .. Len(t)) /\ p[1] <= p[2] /\ Slice(t, p[1], p[2]) \in terms
  BY DEF Positions
<1>2. p[1] # p[2]
  <2>1. ASSUME p[1] = p[2] PROVE FALSE
    <3>1. p[1] + 1 \in Int /\ p[2] \in Int /\ p[2] < p[1] + 1
      BY <1>1, <2>1
    <3>2. SubSeq(t, p[1] + 1, p[2]) = <<>>
      BY <3>1, SubSeqEmpty
    <3> QED  BY <1>1, <3>2 DEF Slice
  <2> QED  BY <2>1
<1> QED  BY <1>1, <1>2

\* What the occurrences add that begin behind n letters.
LEMMA EndsFacts ==
  ASSUME NEW C, NEW t \in Seq(C), NEW terms, <<>> \notin terms, NEW n \in Nat
  PROVE  /\ EndsOf(t, terms, n) \subseteq 0 .. Len(t)
         /\ \A e \in EndsOf(t, terms, n) : n < e
         /\ \A i \in Nat : InOccurrence(t, terms, n + 1, i)
              <=> \/ InOccurrence(t, terms, n, i)
                  \/ \E e \in EndsOf(t, terms, n) : n < i /\ i <= e
<1>1. \A p \in Positions(t, terms) :
         p[1] \in 0 .. Len(t) /\ p[2] \in 0 .. Len(t) /\ p[1] < p[2]
  BY OccurrenceFacts
<1>2. \A e : e \in EndsOf(t, terms, n) <=> \E p \in Positions(t, terms) : p[1] = n /\ p[2] = e
  BY DEF EndsOf
<1>3. \A e \in EndsOf(t, terms, n) : e \in 0 .. Len(t) /\ n < e
  BY <1>1, <1>2
<1>4. \A p \in Positions(t, terms) : p[1] < n + 1 <=> p[1] < n \/ p[1] = n
  BY <1>1
<1>5. \A i \in Nat : InOccurrence(t, terms, n + 1, i)
              <=> \/ InOccurrence(t, terms, n, i)
                  \/ \E e \in EndsOf(t, terms, n) : n < i /\ i <= e
  BY <1>2, <1>4 DEF InOccurrence
<1> QED  BY <1>3, <1>5

\* An end that the last interval reaches makes it longer.
LEMMA LastWidened ==
  ASSUME NEW C, NEW t \in Seq(C), NEW terms, NEW n \in Nat, NEW m, AreMerged(t, terms, n, m),
         m # <<>>, NEW e \in 0 .. Len(t), n < e, n <= m[Len(m)][2],
         \A i \in Nat : InOccurrence(t, terms, n + 1, i)
            <=> InOccurrence(t, terms, n, i) \/ (n < i /\ i <= e)
  PROVE  AreMerged(t, terms, n + 1,
                   [m EXCEPT ![Len(m)] = <<m[Len(m)][1], Max({m[Len(m)][2], e})>>])
<1> DEFINE M == Len(m)
           a == m[M][1]
           b == m[M][2]
           c == Max({b, e})
           new == [m EXCEPT ![M] = <<a, c>>]
<1>1. /\ m \in Seq(Nat \X Nat)
      /\ \A k \in 1 .. M : m[k][1] < m[k][2] /\ m[k][2] <= Len(t) /\ m[k][1] < n
      /\ \A k, l \in 1 .. M : k < l => m[k][2] < m[l][1]
      /\ \A i \in Nat : InOccurrence(t, terms, n, i) <=> \E k \in 1 .. M : InInterval(m, k, i)
  BY DEF AreMerged
<1>2. M \in Nat /\ M > 0 /\ M \in 1 .. M
  BY <1>1
<1>3. \A k \in 1 .. M : m[k][1] \in Nat /\ m[k][2] \in Nat
  BY <1>1
<1>4. a \in Nat /\ b \in 0 .. Len(t) /\ a < b /\ a < n /\ n <= b /\ Len(t) \in Nat
  BY <1>1, <1>2, <1>3
<1> HIDE DEF a, b
<1>5. c \in 0 .. Len(t) /\ b <= c /\ e <= c /\ (c = b \/ c = e)
  BY <1>4, MaxOfTwo
<1> HIDE DEF c
<1>6. <<a, c>> \in Nat \X Nat /\ <<a, c>>[1] = a /\ <<a, c>>[2] = c
  BY <1>4, <1>5
<1>7. /\ new \in Seq(Nat \X Nat) /\ Len(new) = M
      /\ \A k \in 1 .. M : new[k] = IF k = M THEN <<a, c>> ELSE m[k]
  BY <1>1, <1>2, <1>6, ExceptSeq
<1> HIDE DEF new, M
<1>8. \A k \in 1 .. M : new[k][1] = m[k][1] /\ new[k][2] = IF k = M THEN c ELSE m[k][2]
  BY <1>6, <1>7 DEF a
<1>9. ASSUME NEW k \in 1 .. M
      PROVE  new[k][1] < new[k][2] /\ new[k][2] <= Len(t) /\ new[k][1] < n + 1
  <2>1. m[k][1] < m[k][2] /\ m[k][2] <= Len(t) /\ m[k][1] < n /\ m[k][1] \in Nat
    BY <1>1, <1>3
  <2>2. k = M => m[k][1] = a
    BY DEF a
  <2> QED  BY <1>4, <1>5, <1>8, <2>1, <2>2
<1>10. ASSUME NEW k \in 1 .. M, NEW l \in 1 .. M, k < l PROVE new[k][2] < new[l][1]
  <2>1. k # M
    BY <1>2, <1>10
  <2> QED  BY <1>1, <1>8, <1>10, <2>1
<1>11. ASSUME NEW i \in Nat
       PROVE  InOccurrence(t, terms, n + 1, i) <=> \E k \in 1 .. M : InInterval(new, k, i)
  <2>1. \A k \in 1 .. M : k # M => (InInterval(new, k, i) <=> InInterval(m, k, i))
    BY <1>8 DEF InInterval
  <2>2. InInterval(m, M, i) <=> a < i /\ i <= b
    BY DEF InInterval, a, b
  <2>3. InInterval(new, M, i) <=> a < i /\ i <= c
    BY <1>2, <1>8 DEF InInterval, a
  <2>4. InInterval(new, M, i) <=> InInterval(m, M, i) \/ (n < i /\ i <= e)
    <3>1. a < i /\ i <= c <=> (a < i /\ i <= b) \/ (n < i /\ i <= e)
      BY <1>4, <1>5
    <3> QED  BY <2>2, <2>3, <3>1
  <2> QED  BY <1>1, <1>2, <2>1, <2>4
<1>12. AreMerged(t, terms, n + 1, new)
  BY <1>7, <1>9, <1>10, <1>11 DEF AreMerged
<1> QED  BY <1>12 DEF new, M, a, b, c

\* An end that begins behind the last interval is one of its own.
LEMMA IntervalAppended ==
  ASSUME NEW C, NEW t \in Seq(C), NEW terms, NEW n \in Nat, NEW m, AreMerged(t, terms, n, m),
         NEW e \in 0 .. Len(t), n < e, m = <<>> \/ m[Len(m)][2] < n,
         \A i \in Nat : InOccurrence(t, terms, n + 1, i)
            <=> InOccurrence(t, terms, n, i) \/ (n < i /\ i <= e)
  PROVE  AreMerged(t, terms, n + 1, Append(m, <<n, e>>))
<1> DEFINE M == Len(m)
           new == Append(m, <<n, e>>)
<1>1. /\ m \in Seq(Nat \X Nat)
      /\ \A k \in 1 .. M : m[k][1] < m[k][2] /\ m[k][2] <= Len(t) /\ m[k][1] < n
      /\ \A k, l \in 1 .. M : k < l => m[k][2] < m[l][1]
      /\ \A i \in Nat : InOccurrence(t, terms, n, i) <=> \E k \in 1 .. M : InInterval(m, k, i)
  BY DEF AreMerged
<1>2. M \in Nat
  BY <1>1
<1>3. \A k \in 1 .. M : m[k][1] \in Nat /\ m[k][2] \in Nat
  BY <1>1
<1>4. <<n, e>> \in Nat \X Nat /\ <<n, e>>[1] = n /\ <<n, e>>[2] = e
  OBVIOUS
<1>5. /\ new \in Seq(Nat \X Nat) /\ Len(new) = M + 1 /\ new[M + 1] = <<n, e>>
      /\ \A k \in 1 .. M : new[k] = m[k]
  BY <1>1, <1>4, AppendProperties
<1>6. \A k \in 1 .. M : m[k][2] < n
  <2>1. ASSUME NEW k \in 1 .. M PROVE m[k][2] < n
    <3>1. m # <<>>
      BY <1>1, <2>1
    <3>2. m[M][2] < n /\ M \in 1 .. M
      BY <1>2, <3>1
    <3>3. CASE k = M
      BY <3>2, <3>3
    <3>4. CASE k # M
      <4>1. m[k][2] < m[M][1] /\ m[M][1] < m[M][2]
        BY <1>1, <1>2, <3>2, <3>4
      <4> QED  BY <1>3, <3>2, <4>1
    <3> QED  BY <3>3, <3>4
  <2> QED  BY <2>1
<1> HIDE DEF new, M
<1>7. \A k \in 1 .. M + 1 : k \in 1 .. M \/ k = M + 1
  BY <1>2
<1>8. new[M + 1][1] = n /\ new[M + 1][2] = e /\ M + 1 \in 1 .. M + 1
  BY <1>2, <1>4, <1>5
<1>9. ASSUME NEW k \in 1 .. M + 1
      PROVE  new[k][1] < new[k][2] /\ new[k][2] <= Len(t) /\ new[k][1] < n + 1
  <2>1. CASE k \in 1 .. M
    BY <1>1, <1>3, <1>5, <2>1
  <2>2. CASE k = M + 1
    BY <1>8, <2>2
  <2> QED  BY <1>7, <2>1, <2>2
<1>10. ASSUME NEW k \in 1 .. M + 1, NEW l \in 1 .. M + 1, k < l PROVE new[k][2] < new[l][1]
  <2>1. k \in 1 .. M
    BY <1>2, <1>10
  <2>2. CASE l \in 1 .. M
    BY <1>1, <1>5, <1>10, <2>1, <2>2
  <2>3. CASE l = M + 1
    BY <1>5, <1>6, <1>8, <2>1, <2>3
  <2> QED  BY <1>7, <2>2, <2>3
<1>11. ASSUME NEW i \in Nat
       PROVE  InOccurrence(t, terms, n + 1, i) <=> \E k \in 1 .. M + 1 : InInterval(new, k, i)
  <2>1. \A k \in 1 .. M : InInterval(new, k, i) <=> InInterval(m, k, i)
    BY <1>5 DEF InInterval
  <2>2. InInterval(new, M + 1, i) <=> n < i /\ i <= e
    BY <1>8 DEF InInterval
  <2>3. \A k \in 1 .. M : k \in 1 .. M + 1
    BY <1>2
  <2> QED  BY <1>1, <1>7, <1>8, <2>1, <2>2, <2>3
<1>12. AreMerged(t, terms, n + 1, new)
  BY <1>5, <1>9, <1>10, <1>11 DEF AreMerged
<1> QED  BY <1>12 DEF new

\* One turn of the merging.
MergeTurn(t, terms, n, m) ==
  IF EndsOf(t, terms, n) = {} THEN m ELSE MergeInto(m, <<n, Max(EndsOf(t, terms, n))>>)

\* Either way the intervals stay in order and apart from each other.
LEMMA TurnMerges ==
  ASSUME NEW C, NEW t \in Seq(C), NEW terms, <<>> \notin terms, NEW n \in Nat,
         NEW m, AreMerged(t, terms, n, m)
  PROVE  AreMerged(t, terms, n + 1, MergeTurn(t, terms, n, m))
<1> DEFINE E == EndsOf(t, terms, n)
           e == Max(E)
<1>1. /\ E \subseteq 0 .. Len(t) /\ \A x \in E : n < x
      /\ \A i \in Nat : InOccurrence(t, terms, n + 1, i)
            <=> InOccurrence(t, terms, n, i) \/ \E x \in E : n < i /\ i <= x
  BY EndsFacts
<1>2. Len(t) \in Nat /\ m \in Seq(Nat \X Nat)
  BY DEF AreMerged
<1> HIDE DEF E
<1>3. CASE E = {}
  <2>1. MergeTurn(t, terms, n, m) = m
    BY <1>3 DEF MergeTurn, E
  <2>2. \A k \in 1 .. Len(m) : m[k][1] \in Nat
    BY <1>2
  <2>3. \A k \in 1 .. Len(m) : m[k][1] < n + 1
    BY <2>2 DEF AreMerged
  <2>4. \A i \in Nat : InOccurrence(t, terms, n + 1, i) <=> InOccurrence(t, terms, n, i)
    BY <1>1, <1>3
  <2>5. AreMerged(t, terms, n + 1, m)
    BY <2>3, <2>4 DEF AreMerged
  <2> QED  BY <2>1, <2>5
<1>4. CASE E # {}
  <2>1. e \in E /\ \A x \in E : x <= e
    BY <1>1, <1>2, <1>4, MaxIn
  <2> HIDE DEF e
  <2>2. e \in 0 .. Len(t) /\ n < e /\ \A x \in E : x \in Nat
    BY <1>1, <2>1
  <2>3. ASSUME NEW i \in Nat
        PROVE  InOccurrence(t, terms, n + 1, i)
                 <=> InOccurrence(t, terms, n, i) \/ (n < i /\ i <= e)
    <3>1. (\E x \in E : n < i /\ i <= x) <=> n < i /\ i <= e
      BY <2>1, <2>2
    <3> QED  BY <1>1, <3>1
  <2>4. MergeTurn(t, terms, n, m) = MergeInto(m, <<n, e>>)
    BY <1>4 DEF MergeTurn, E, e
  <2>5. <<n, e>>[1] = n /\ <<n, e>>[2] = e
    OBVIOUS
  <2>6. CASE m # <<>> /\ n <= m[Len(m)][2]
    <3>1. MergeInto(m, <<n, e>>) = [m EXCEPT ![Len(m)] = <<m[Len(m)][1], Max({m[Len(m)][2], e})>>]
      BY <2>5, <2>6 DEF MergeInto, Last
    <3> QED  BY <2>2, <2>3, <2>4, <2>6, <3>1, LastWidened
  <2>7. CASE ~(m # <<>> /\ n <= m[Len(m)][2])
    <3>1. MergeInto(m, <<n, e>>) = Append(m, <<n, e>>)
      BY <2>5, <2>7 DEF MergeInto, Last
    <3>2. m = <<>> \/ m[Len(m)][2] < n
      <4>1. m # <<>> => m[Len(m)][2] \in Nat
        BY <1>2
      <4> QED  BY <2>7, <4>1
    <3> QED  BY <2>2, <2>3, <2>4, <3>1, <3>2, IntervalAppended
  <2> QED  BY <2>6, <2>7
<1> QED  BY <1>3, <1>4

LEMMA IntervalsStay ==
  ASSUME NEW m \in Seq(Nat \X Nat), NEW n \in Nat, NEW e \in Nat
  PROVE  MergeInto(m, <<n, e>>) \in Seq(Nat \X Nat)
<1>1. <<n, e>> \in Nat \X Nat /\ <<n, e>>[1] = n /\ <<n, e>>[2] = e
  OBVIOUS
<1>2. CASE m # <<>> /\ n <= m[Len(m)][2]
  <2> DEFINE a == m[Len(m)][1]
             b == m[Len(m)][2]
             c == Max({b, e})
             p == <<a, c>>
  <2>1. Len(m) \in 1 .. Len(m)
    BY <1>2
  <2>2. a \in Nat /\ b \in Nat
    BY <2>1
  <2> HIDE DEF a, b
  <2>3. b + e \in Nat /\ b \in 0 .. b + e /\ e \in 0 .. b + e
    BY <2>2
  <2>4. c \in 0 .. b + e
    BY <2>3, MaxOfTwo
  <2> HIDE DEF c
  <2>5. p \in Nat \X Nat
    BY <2>2, <2>3, <2>4
  <2>6. MergeInto(m, <<n, e>>) = [m EXCEPT ![Len(m)] = p]
    BY <1>1, <1>2 DEF MergeInto, Last, a, b, c
  <2> HIDE DEF p
  <2>7. [m EXCEPT ![Len(m)] = p] \in Seq(Nat \X Nat)
    BY <2>1, <2>5, ExceptSeq
  <2> QED  BY <2>6, <2>7
<1>3. CASE ~(m # <<>> /\ n <= m[Len(m)][2])
  <2>1. MergeInto(m, <<n, e>>) = Append(m, <<n, e>>)
    BY <1>1, <1>3 DEF MergeInto, Last
  <2>2. \A q \in Nat \X Nat : Append(m, q) \in Seq(Nat \X Nat)
    BY AppendProperties
  <2> QED  BY <1>1, <2>1, <2>2
<1> QED  BY <1>2, <1>3

LEMMA TurnTypes ==
  ASSUME NEW C, NEW t \in Seq(C), NEW terms, <<>> \notin terms, NEW n \in Nat,
         NEW m \in Seq(Nat \X Nat)
  PROVE  MergeTurn(t, terms, n, m) \in Seq(Nat \X Nat)
<1> DEFINE E == EndsOf(t, terms, n)
           e == Max(E)
<1>1. CASE E = {}
  BY <1>1 DEF MergeTurn
<1>2. CASE E # {}
  <2>1. E \subseteq 0 .. Len(t) /\ Len(t) \in Nat
    BY EndsFacts
  <2>2. MergeTurn(t, terms, n, m) = MergeInto(m, <<n, e>>)
    BY <1>2 DEF MergeTurn
  <2> HIDE DEF E
  <2>3. e \in E
    BY <1>2, <2>1, MaxIn
  <2> HIDE DEF e
  <2>4. e \in Nat
    BY <2>1, <2>3
  <2> QED  BY <2>2, <2>4, IntervalsStay
<1> QED  BY <1>1, <1>2

\* The intervals of all occurrences.
LEMMA MergedIs ==
  ASSUME NEW C, NEW t \in Seq(C), NEW terms, <<>> \notin terms
  PROVE  AreMerged(t, terms, Len(t), Merged(t, terms))
<1> DEFINE L == Len(t)
           V == Seq(Nat \X Nat)
           Good(f) == f = [n \in 0 .. Len(t) |->
                             IF n = 0 THEN <<>>
                             ELSE IF EndsOf(t, terms, n - 1) = {} THEN f[n - 1]
                             ELSE MergeInto(f[n - 1], <<n - 1, Max(EndsOf(t, terms, n - 1))>>)]
           merged == CHOOSE f : Good(f)
           Turn(n, m) == MergeTurn(t, terms, n - 1, m)
<1>1. L \in Nat /\ <<>> \in V
  OBVIOUS
<1>2. Merged(t, terms) = merged[L]
  BY DEF Merged
<1>3. \A f : Good(f) <=> f = [n \in 0 .. L |-> IF n = 0 THEN <<>> ELSE Turn(n, f[n - 1])]
  BY DEF MergeTurn
<1>4. ASSUME NEW n \in 1 .. L, NEW m \in V PROVE Turn(n, m) \in V
  <2>1. n - 1 \in Nat
    BY <1>1
  <2> QED  BY <2>1, TurnTypes
<1> HIDE DEF Good, L, V
<1>5. PICK f : /\ f \in [0 .. L -> V] /\ f[0] = <<>>
               /\ \A n \in 1 .. L : f[n] = Turn(n, f[n - 1])
  <2> HIDE DEF Turn
  <2> DEFINE step == [n \in 1 .. L |-> [m \in V |-> Turn(n, m)]]
  <2>1. /\ step \in [1 .. L -> [V -> V]]
        /\ \A n \in 1 .. L : \A m \in V : step[n][m] = Turn(n, m)
    BY <1>4
  <2> HIDE DEF step
  <2>2. IsRecursion(L, V, <<>>, step)
    BY <1>1, <2>1 DEF IsRecursion
  <2>3. PICK f : SolvesRecursion(f, L, V, <<>>, step)
    BY <2>2, RecursionSolved
  <2>4. f \in [0 .. L -> V] /\ f[0] = <<>> /\ \A n \in 1 .. L : f[n] = step[n][f[n - 1]]
    BY <2>3 DEF SolvesRecursion
  <2>5. \A n \in 1 .. L : f[n - 1] \in V
    BY <1>1, <2>4
  <2>6. \A n \in 1 .. L : f[n] = Turn(n, f[n - 1])
    BY <2>1, <2>4, <2>5
  <2> QED  BY <2>4, <2>6
<1>6. Good(f)
  <2> HIDE DEF Turn
  <2>1. \A n \in 0 .. L : f[n] = IF n = 0 THEN <<>> ELSE Turn(n, f[n - 1])
    BY <1>1, <1>5
  <2>2. f = [n \in 0 .. L |-> IF n = 0 THEN <<>> ELSE Turn(n, f[n - 1])]
    BY <1>5, <2>1
  <2> QED  BY <1>3, <2>2
<1>7. Good(merged)
  BY <1>6
<1> HIDE DEF merged
<1>8. \A n \in 0 .. L : merged[n] = IF n = 0 THEN <<>> ELSE Turn(n, merged[n - 1])
  <2> HIDE DEF Turn
  <2>1. merged = [n \in 0 .. L |-> IF n = 0 THEN <<>> ELSE Turn(n, merged[n - 1])]
    BY <1>3, <1>7
  <2> QED  BY <2>1
<1> DEFINE T == {n \in 0 .. L : AreMerged(t, terms, n, merged[n])}
<1>9. 0 \in T
  <2>1. merged[0] = <<>>
    BY <1>1, <1>8
  <2>2. AreMerged(t, terms, 0, <<>>)
    <3>1. 1 .. Len(<<>>) = {}
      OBVIOUS
    <3>2. \A i \in Nat : ~InOccurrence(t, terms, 0, i)
      BY OccurrenceFacts DEF InOccurrence
    <3> QED  BY <3>1, <3>2 DEF AreMerged
  <2> QED  BY <1>1, <2>1, <2>2
<1>10. ASSUME NEW n \in 0 .. L, n < L, n \in T PROVE n + 1 \in T
  <2>1. n + 1 \in 0 .. L /\ n + 1 # 0 /\ (n + 1) - 1 = n /\ n \in Nat
    BY <1>1, <1>10
  <2>2. merged[n + 1] = MergeTurn(t, terms, n, merged[n])
    BY <1>8, <2>1
  <2>3. AreMerged(t, terms, n, merged[n])
    BY <1>10
  <2>4. AreMerged(t, terms, n + 1, merged[n + 1])
    BY <2>1, <2>2, <2>3, TurnMerges
  <2> QED  BY <2>1, <2>4
<1>11. L \in T
  <2>1. \A n \in 0 .. L : n < L /\ n \in T => n + 1 \in T
    BY <1>10
  <2> HIDE DEF T
  <2>2. \A n \in 0 .. L : n \in T
    BY <1>1, <1>9, <2>1, InductionUpTo
  <2>3. L \in 0 .. L
    BY <1>1
  <2> QED  BY <2>2, <2>3
<1> QED  BY <1>2, <1>11 DEF L

\* They cover the covered letters.
IsCover(t, covered, m) ==
  /\ m \in Seq(Nat \X Nat)
  /\ covered \subseteq 1 .. Len(t)
  /\ \A k \in 1 .. Len(m) : m[k][1] < m[k][2] /\ m[k][2] <= Len(t)
  /\ \A k, l \in 1 .. Len(m) : k < l => m[k][2] < m[l][1]
  /\ \A i \in Nat : i \in covered <=> \E k \in 1 .. Len(m) : InInterval(m, k, i)

LEMMA CoverIs ==
  ASSUME NEW C, NEW t \in Seq(C), NEW terms, <<>> \notin terms
  PROVE  IsCover(t, Covered(t, terms), Merged(t, terms))
<1> DEFINE m == Merged(t, terms)
           covered == Covered(t, terms)
<1>1. AreMerged(t, terms, Len(t), m)
  BY MergedIs
<1>2. \A p \in Positions(t, terms) :
         p[1] \in 0 .. Len(t) /\ p[2] \in 0 .. Len(t) /\ p[1] < p[2]
  BY OccurrenceFacts
<1>3. \A i : i \in covered <=> \E p \in Positions(t, terms) : i \in p[1] + 1 .. p[2]
  BY DEF Covered
<1>4. covered \subseteq 1 .. Len(t)
  BY <1>2, <1>3
<1>5. \A p \in Positions(t, terms) : p[1] < Len(t)
  BY <1>2
<1>6. \A i \in Nat : i \in covered <=> InOccurrence(t, terms, Len(t), i)
  <2>1. ASSUME NEW i \in Nat, NEW p \in Positions(t, terms)
        PROVE  i \in p[1] + 1 .. p[2] <=> p[1] < Len(t) /\ p[1] < i /\ i <= p[2]
    BY <1>2, <1>5
  <2> QED  BY <1>3, <2>1 DEF InOccurrence
<1> HIDE DEF m, covered
<1>7. IsCover(t, covered, m)
  BY <1>1, <1>4, <1>6 DEF IsCover, AreMerged
<1> QED  BY <1>7 DEF m, covered

-----------------------------------------------------------------------------
\* Letter by letter, up to a place.
AreLetters(D, t, covered, end, f) ==
  /\ f \in [0 .. end -> Seq(D)]
  /\ f[0] = <<>>
  /\ \A i \in 1 .. end : f[i] = WithLetter(t, covered, end, f[i - 1], i)

LEMMA LettersAre ==
  ASSUME NEW D, {Open, Close} \subseteq D, NEW t \in Seq(D), NEW covered,
         NEW end \in 0 .. Len(t)
  PROVE  \E f : /\ AreLetters(D, t, covered, end, f)
                /\ LetterByLetter(t, covered, 0, end) = f[end]
<1> DEFINE V == Seq(D)
           Good(f) == f = [i \in 0 .. end |->
                             IF i = 0 THEN <<>> ELSE WithLetter(t, covered, end, f[i - 1], i)]
           letters == CHOOSE f : Good(f)
           Turn(i, s) == WithLetter(t, covered, end, s, i)
<1>1. end \in Nat /\ <<>> \in V /\ end <= Len(t)
  OBVIOUS
<1>2. LetterByLetter(t, covered, 0, end) = letters[end]
  BY DEF LetterByLetter
<1>3. \A f : Good(f) <=> f = [i \in 0 .. end |-> IF i = 0 THEN <<>> ELSE Turn(i, f[i - 1])]
  OBVIOUS
<1>4. ASSUME NEW i \in 1 .. end, NEW s \in V PROVE Turn(i, s) \in V
  <2>1. <<>> \in V /\ <<Open>> \in V /\ <<Close>> \in V /\ <<t[i]>> \in V
    BY <1>1
  <2>2. \A x, y \in V : x \o y \in V
    BY ConcatProperties
  <2> HIDE DEF V
  <2> QED  BY <2>1, <2>2 DEF WithLetter
<1> HIDE DEF Good, V, Turn
<1>5. PICK f : /\ f \in [0 .. end -> V] /\ f[0] = <<>>
               /\ \A i \in 1 .. end : f[i] = Turn(i, f[i - 1])
  <2> DEFINE step == [i \in 1 .. end |-> [s \in V |-> Turn(i, s)]]
  <2>1. /\ step \in [1 .. end -> [V -> V]]
        /\ \A i \in 1 .. end : \A s \in V : step[i][s] = Turn(i, s)
    BY <1>4
  <2> HIDE DEF step
  <2>2. IsRecursion(end, V, <<>>, step)
    BY <1>1, <2>1 DEF IsRecursion
  <2>3. PICK f : SolvesRecursion(f, end, V, <<>>, step)
    BY <2>2, RecursionSolved
  <2>4. f \in [0 .. end -> V] /\ f[0] = <<>> /\ \A i \in 1 .. end : f[i] = step[i][f[i - 1]]
    BY <2>3 DEF SolvesRecursion
  <2>5. \A i \in 1 .. end : f[i - 1] \in V
    BY <1>1, <2>4
  <2>6. \A i \in 1 .. end : f[i] = Turn(i, f[i - 1])
    BY <2>1, <2>4, <2>5
  <2> QED  BY <2>4, <2>6
<1>6. Good(f)
  <2>1. \A i \in 0 .. end : f[i] = IF i = 0 THEN <<>> ELSE Turn(i, f[i - 1])
    BY <1>1, <1>5
  <2>2. f = [i \in 0 .. end |-> IF i = 0 THEN <<>> ELSE Turn(i, f[i - 1])]
    BY <1>5, <2>1
  <2> QED  BY <1>3, <2>2
<1>7. Good(letters)
  BY <1>6
<1> HIDE DEF letters
<1>8. letters = [i \in 0 .. end |-> IF i = 0 THEN <<>> ELSE Turn(i, letters[i - 1])]
  BY <1>3, <1>7
<1>9. \A i \in 0 .. end : letters[i] = IF i = 0 THEN <<>> ELSE Turn(i, letters[i - 1])
  BY <1>8
<1> DEFINE T == {i \in 0 .. end : letters[i] \in V}
<1>10. 0 \in T
  BY <1>1, <1>9
<1>11. ASSUME NEW i \in 0 .. end, i < end, i \in T PROVE i + 1 \in T
  <2>1. i + 1 \in 1 .. end /\ (i + 1) - 1 = i /\ i + 1 # 0 /\ i + 1 \in 0 .. end
    BY <1>1, <1>11
  <2>2. letters[i + 1] = Turn(i + 1, letters[i])
    BY <1>9, <2>1
  <2> QED  BY <1>4, <1>11, <2>1, <2>2
<1>12. \A i \in 0 .. end : letters[i] \in V
  <2>1. \A i \in 0 .. end : i < end /\ i \in T => i + 1 \in T
    BY <1>11
  <2> HIDE DEF T
  <2>2. \A i \in 0 .. end : i \in T
    BY <1>1, <1>10, <2>1, InductionUpTo
  <2> QED  BY <2>2 DEF T
<1>13. letters \in [0 .. end -> V]
  BY <1>8, <1>12
<1>14. letters[0] = <<>> /\ \A i \in 1 .. end : letters[i] = Turn(i, letters[i - 1])
  BY <1>1, <1>9
<1>15. AreLetters(D, t, covered, end, letters)
  BY <1>13, <1>14 DEF AreLetters, V, Turn
<1> QED  BY <1>2, <1>15

\* A piece of a text is one letter longer than the one before.
IsLonger(D, t, a, b) ==
  /\ Slice(t, a, b) \in Seq(D) /\ <<t[b + 1]>> \in Seq(D)
  /\ Slice(t, a, b + 1) = Slice(t, a, b) \o <<t[b + 1]>>

LEMMA SliceLonger ==
  ASSUME NEW D, NEW t \in Seq(D), NEW a \in Nat, NEW b \in Nat, a <= b, b < Len(t)
  PROVE  IsLonger(D, t, a, b) /\ Slice(t, a, a) = <<>>
<1>1. /\ a + 1 \in 1 .. Len(t) /\ b + 1 \in a + 1 .. Len(t) /\ (b + 1) - 1 = b
  OBVIOUS
<1>2. SubSeq(t, a + 1, b + 1) = SubSeq(t, a + 1, (b + 1) - 1) \o <<t[b + 1]>>
  BY <1>1, SubSeqRecursiveSecond
<1>3. SubSeq(t, a + 1, b) \in Seq(D)
  OBVIOUS
<1>4. SubSeq(t, a + 1, a) = <<>>
  BY SubSeqEmpty
<1>5. t[b + 1] \in D
  OBVIOUS
<1>6. <<t[b + 1]>> \in Seq(D)
  BY <1>5
<1> QED  BY <1>1, <1>2, <1>3, <1>4, <1>6 DEF Slice, IsLonger

\* Two pieces are appended one after the other, or together.
AreThree(D, v, w, z) == v \in Seq(D) /\ w \in Seq(D) /\ z \in Seq(D)
AppendsBoth(v, w, z) == (v \o w) \o z = v \o (w \o z)

LEMMA JoinedOnwards ==
  ASSUME NEW D, NEW v, NEW w, NEW z, AreThree(D, v, w, z)
  PROVE  AppendsBoth(v, w, z)
BY ConcatAssociative DEF AreThree, AppendsBoth

\* Letters that are not covered are written as they are.
ArePlain(covered, end, a, b) ==
  a \in Nat /\ b \in Nat /\ a <= b /\ b <= end /\ \A i \in a + 1 .. b : i \notin covered

IsCopied(t, f, a, b) == f[b] = f[a] \o Slice(t, a, b)

LEMMA Unmarked ==
  ASSUME NEW D, {Open, Close} \subseteq D, NEW t \in Seq(D), NEW covered,
         NEW end \in 0 .. Len(t), NEW f, AreLetters(D, t, covered, end, f),
         NEW a, NEW b, ArePlain(covered, end, a, b)
  PROVE  IsCopied(t, f, a, b)
<1>0. a \in Nat /\ b \in Nat /\ a <= b /\ b <= end /\ \A i \in a + 1 .. b : i \notin covered
  BY DEF ArePlain
<1> DEFINE K == b - a
           T == {k \in 0 .. K : f[a + k] = f[a] \o Slice(t, a, a + k)}
<1>1. K \in Nat /\ a + K = b /\ end \in Nat /\ end <= Len(t) /\ Len(t) \in Nat /\ a \in 0 .. end
  BY <1>0
<1>2. f[a] \in Seq(D) /\ f[a] \o <<>> = f[a]
  <2>1. f[a] \in Seq(D)
    BY <1>1 DEF AreLetters
  <2> QED  BY <2>1
<1>3. Slice(t, a, a) = <<>>
  BY <1>0, SubSeqEmpty DEF Slice
<1> HIDE DEF K
<1>4. 0 \in T
  BY <1>1, <1>2, <1>3
<1>5. ASSUME NEW k \in 0 .. K, k < K, k \in T PROVE k + 1 \in T
  <2>1. /\ k + 1 \in 0 .. K /\ a + k \in Nat /\ a <= a + k /\ a + k < Len(t)
        /\ (a + k) + 1 = a + (k + 1) /\ a + (k + 1) \in 1 .. end
        /\ (a + (k + 1)) - 1 = a + k /\ a + (k + 1) \in a + 1 .. b
    BY <1>0, <1>1, <1>5
  <2> DEFINE i == a + (k + 1)
  <2>2. f[i] = WithLetter(t, covered, end, f[a + k], i) /\ i \notin covered
    BY <1>0, <2>1 DEF AreLetters
  <2>3. f[a + k] = f[a] \o Slice(t, a, a + k)
    BY <1>5
  <2>4. IsLonger(D, t, a, a + k)
    BY <1>0, <2>1, SliceLonger
  <2> DEFINE s == Slice(t, a, a + k)
             x == <<t[i]>>
  <2>5. s \in Seq(D) /\ x \in Seq(D) /\ Slice(t, a, i) = s \o x
    BY <2>1, <2>4 DEF IsLonger
  <2>6. f[i] = ((f[a + k] \o <<>>) \o x) \o <<>>
    BY <2>2 DEF WithLetter
  <2> HIDE DEF s, x, i, T
  <2>7. f[a] \o s \in Seq(D) /\ (f[a] \o s) \o x \in Seq(D)
    BY <1>2, <2>5, ConcatProperties
  <2>8. f[i] = (f[a] \o s) \o x
    BY <2>3, <2>6, <2>7, ConcatEmptySeq DEF s
  <2>9. f[i] = f[a] \o Slice(t, a, i)
    <3>1. AreThree(D, f[a], s, x)
      BY <1>2, <2>5 DEF AreThree
    <3>2. AppendsBoth(f[a], s, x)
      BY <3>1, JoinedOnwards
    <3>3. (f[a] \o s) \o x = f[a] \o (s \o x)
      BY <3>2 DEF AppendsBoth
    <3> QED  BY <2>5, <2>8, <3>3
  <2> QED  BY <2>1, <2>9 DEF T, i
<1>6. K \in T
  <2>1. \A k \in 0 .. K : k < K /\ k \in T => k + 1 \in T
    BY <1>5
  <2> HIDE DEF T
  <2>2. \A k \in 0 .. K : k \in T
    BY <1>1, <1>4, <2>1, InductionUpTo
  <2>3. K \in 0 .. K
    BY <1>1
  <2> QED  BY <2>2, <2>3
<1> QED  BY <1>1, <1>6 DEF IsCopied

\* Letters that are covered are written between two marks.
AreCovered(covered, end, a, b) ==
  /\ a \in Nat /\ b \in Nat /\ a < b /\ b <= end /\ a \notin covered
  /\ b = end \/ b + 1 \notin covered
  /\ \A i \in a + 1 .. b : i \in covered

IsBetweenMarks(t, f, a, b) == f[b] = ((f[a] \o <<Open>>) \o Slice(t, a, b)) \o <<Close>>

LEMMA Marked ==
  ASSUME NEW D, {Open, Close} \subseteq D, NEW t \in Seq(D), NEW covered,
         NEW end \in 0 .. Len(t), NEW f, AreLetters(D, t, covered, end, f),
         NEW a, NEW b, AreCovered(covered, end, a, b)
  PROVE  IsBetweenMarks(t, f, a, b)
<1>0. /\ a \in Nat /\ b \in Nat /\ a < b /\ b <= end /\ a \notin covered
      /\ b = end \/ b + 1 \notin covered
      /\ \A i \in a + 1 .. b : i \in covered
  BY DEF AreCovered
<1> DEFINE K == (b - a) - 1
           u == f[a] \o <<Open>>
           Ahead(i) == IF i \in covered /\ i - 1 \notin covered THEN <<Open>> ELSE <<>>
           T == {k \in 0 .. K : f[a + k] \o Ahead(a + (k + 1)) = u \o Slice(t, a, a + k)}
<1>1. /\ K \in Nat /\ (a + K) + 1 = b /\ a + K < Len(t) /\ a + K \in Nat /\ a <= a + K
      /\ end \in Nat /\ end <= Len(t) /\ Len(t) \in Nat /\ a \in 0 .. end
      /\ a + (K + 1) = b /\ b \in 1 .. end /\ b - 1 = a + K
  BY <1>0
<1>2. f[a] \in Seq(D) /\ <<Open>> \in Seq(D) /\ <<Close>> \in Seq(D) /\ u \in Seq(D)
  <2>1. f[a] \in Seq(D)
    BY <1>1 DEF AreLetters
  <2> QED  BY <2>1
<1>3. Slice(t, a, a) = <<>> /\ u \o <<>> = u
  BY <1>0, <1>2, SubSeqEmpty DEF Slice
<1>4. \A i \in 1 .. end :
        f[i] = ((f[i - 1] \o Ahead(i)) \o <<t[i]>>)
                 \o (IF i \in covered /\ (i = end \/ i + 1 \notin covered) THEN <<Close>> ELSE <<>>)
  BY DEF AreLetters, WithLetter
<1>5. Ahead(a + 1) = <<Open>>
  <2>1. a + 1 \in a + 1 .. b /\ (a + 1) - 1 = a
    BY <1>0
  <2> QED  BY <1>0, <2>1
<1>6. \A i \in a + 2 .. b : Ahead(i) = <<>>
  <2>1. \A i \in a + 2 .. b : i - 1 \in a + 1 .. b
    BY <1>0
  <2> QED  BY <1>0, <2>1
<1> HIDE DEF K, Ahead, u
<1>7. 0 \in T
  <2>1. a + 0 = a /\ a + (0 + 1) = a + 1 /\ 0 \in 0 .. K
    BY <1>0, <1>1
  <2>2. f[a] \o Ahead(a + 1) = u
    BY <1>5 DEF u
  <2> QED  BY <1>3, <2>1, <2>2
<1>8. ASSUME NEW k \in 0 .. K, k < K, k \in T PROVE k + 1 \in T
  <2>1. /\ k + 1 \in 0 .. K /\ a + k \in Nat /\ a <= a + k /\ a + k < Len(t)
        /\ (a + k) + 1 = a + (k + 1) /\ a + (k + 1) \in 1 .. end
        /\ (a + (k + 1)) - 1 = a + k /\ a + (k + 1) \in a + 1 .. b
        /\ (a + (k + 1)) + 1 \in a + 1 .. b /\ a + (k + 1) # end
        /\ a + ((k + 1) + 1) \in a + 2 .. b
    BY <1>0, <1>1, <1>8
  <2> DEFINE i == a + (k + 1)
             s == Slice(t, a, a + k)
             x == <<t[i]>>
  <2>2. f[i] = ((f[a + k] \o Ahead(i)) \o x) \o <<>>
    BY <1>0, <1>4, <2>1
  <2>3. f[a + k] \o Ahead(i) = u \o s
    BY <1>8
  <2>4. IsLonger(D, t, a, a + k)
    BY <1>0, <2>1, SliceLonger
  <2>5. s \in Seq(D) /\ x \in Seq(D) /\ Slice(t, a, i) = s \o x
    BY <2>1, <2>4 DEF IsLonger
  <2> HIDE DEF s, x, T, i
  <2>6. u \o s \in Seq(D) /\ (u \o s) \o x \in Seq(D)
    BY <1>2, <2>5, ConcatProperties
  <2>7. f[i] = (u \o s) \o x
    BY <2>2, <2>3, <2>6, ConcatEmptySeq
  <2>8. f[i] = u \o Slice(t, a, i)
    <3>1. AreThree(D, u, s, x)
      BY <1>2, <2>5 DEF AreThree
    <3>2. AppendsBoth(u, s, x)
      BY <3>1, JoinedOnwards
    <3>3. (u \o s) \o x = u \o (s \o x)
      BY <3>2 DEF AppendsBoth
    <3> QED  BY <2>5, <2>7, <3>3
  <2>9. f[i] \o Ahead(a + ((k + 1) + 1)) = f[i]
    <3>1. Ahead(a + ((k + 1) + 1)) = <<>>
      BY <1>6, <2>1
    <3>2. f[i] \in Seq(D)
      BY <2>6, <2>7
    <3> QED  BY <3>1, <3>2, ConcatEmptySeq
  <2> QED  BY <2>1, <2>8, <2>9 DEF T, i
<1>9. K \in T
  <2>1. \A k \in 0 .. K : k < K /\ k \in T => k + 1 \in T
    BY <1>8
  <2> HIDE DEF T
  <2>2. \A k \in 0 .. K : k \in T
    BY <1>1, <1>7, <2>1, InductionUpTo
  <2>3. K \in 0 .. K
    BY <1>1
  <2> QED  BY <2>2, <2>3
<1> DEFINE s == Slice(t, a, a + K)
           x == <<t[b]>>
<1>10. f[a + K] \o Ahead(b) = u \o s
  BY <1>1, <1>9
<1>11. f[b] = ((u \o s) \o x) \o <<Close>>
  <2>1. b \in covered
    <3>1. b \in a + 1 .. b
      BY <1>0
    <3> QED  BY <1>0, <3>1
  <2> QED  BY <1>0, <1>1, <1>4, <1>10, <2>1
<1>12. s \in Seq(D) /\ x \in Seq(D) /\ Slice(t, a, b) = s \o x
  <2>1. IsLonger(D, t, a, a + K)
    BY <1>1, SliceLonger
  <2> QED  BY <1>1, <2>1 DEF IsLonger
<1> HIDE DEF s, x
<1>13. (u \o s) \o x = u \o Slice(t, a, b)
  <2>1. AreThree(D, u, s, x)
    BY <1>2, <1>12 DEF AreThree
  <2>2. AppendsBoth(u, s, x)
    BY <2>1, JoinedOnwards
  <2>3. (u \o s) \o x = u \o (s \o x)
    BY <2>2 DEF AppendsBoth
  <2> QED  BY <1>12, <2>3
<1> QED  BY <1>11, <1>13 DEF u, IsBetweenMarks

-----------------------------------------------------------------------------
\* What is written after the first k matches: the letters up to a place, before
\* which no covered letter of the window is left out.
IsMarked(t, covered, end, m, f, k, s) ==
  /\ s.done \in 0 .. end
  /\ s.text = f[s.done]
  /\ \A i \in s.done + 1 .. end : i \in covered => \E l \in k + 1 .. Len(m) : InInterval(m, l, i)
  /\ \A l \in k + 1 .. Len(m) : m[l][1] < end => s.done <= m[l][1]

\* Where the next interval lies among the covered letters.
IsNext(t, covered, end, m, k, done, to) ==
  LET a == m[k + 1][1]
  IN  /\ a \in Nat /\ to \in Nat /\ done <= a /\ a < to /\ to <= end /\ a \notin covered
      /\ to = end \/ to + 1 \notin covered
      /\ \A i \in done + 1 .. a : i \notin covered
      /\ \A i \in a + 1 .. to : i \in covered
      /\ \A i \in to + 1 .. end : i \in covered => \E l \in k + 2 .. Len(m) : InInterval(m, l, i)
      /\ \A l \in k + 2 .. Len(m) : m[l][1] < end => to <= m[l][1]

\* What IsMarked says about the next match, if it begins inside the window.
LEMMA NextInterval ==
  ASSUME NEW D, NEW t \in Seq(D), NEW covered, NEW m, IsCover(t, covered, m),
         NEW end \in 0 .. Len(t), NEW f, NEW k \in Nat, k < Len(m), NEW s,
         IsMarked(t, covered, end, m, f, k, s), m[k + 1][1] < end
  PROVE  IsNext(t, covered, end, m, k, s.done, Min({m[k + 1][2], end}))
<1> DEFINE M == Len(m)
           a == m[k + 1][1]
           b == m[k + 1][2]
           to == Min({b, end})
           done == s.done
<1>1. /\ m \in Seq(Nat \X Nat) /\ covered \subseteq 1 .. Len(t)
      /\ \A j \in 1 .. M : m[j][1] < m[j][2] /\ m[j][2] <= Len(t)
      /\ \A j, l \in 1 .. M : j < l => m[j][2] < m[l][1]
      /\ \A i \in Nat : i \in covered <=> \E j \in 1 .. M : m[j][1] < i /\ i <= m[j][2]
  BY DEF IsCover, InInterval
<1>2. /\ done \in 0 .. end
      /\ \A i \in done + 1 .. end :
           i \in covered => \E l \in k + 1 .. M : m[l][1] < i /\ i <= m[l][2]
      /\ \A l \in k + 1 .. M : m[l][1] < end => done <= m[l][1]
  BY DEF IsMarked, InInterval
<1>3. M \in Nat /\ k + 1 \in 1 .. M /\ k + 1 \in k + 1 .. M /\ end \in Nat /\ Len(t) \in Nat
  BY <1>1
<1>4. \A j \in 1 .. M : m[j][1] \in Nat /\ m[j][2] \in Nat
  BY <1>1
<1>5. a \in Nat /\ b \in Nat /\ a < b /\ a < end /\ done <= a /\ done \in Nat
  BY <1>1, <1>2, <1>3, <1>4
<1>6. /\ \A j \in 1 .. M : j < k + 1 => m[j][2] < a
      /\ \A j \in 1 .. M : k + 1 < j => b < m[j][1]
  BY <1>1, <1>3
<1>7. \A j \in 1 .. M : j < k + 1 \/ j = k + 1 \/ k + 1 < j
  BY <1>3
<1> HIDE DEF done
<1>8. \A j \in 1 .. M : m[j][2] < a \/ (m[j][1] = a /\ m[j][2] = b) \/ b < m[j][1]
  BY <1>6, <1>7
<1> HIDE DEF a, b, M
<1>9. to \in Nat /\ to <= b /\ to <= end /\ (to = b \/ to = end)
  BY <1>3, <1>5, MinOfTwo
<1> HIDE DEF to
<1>10. a < to
  BY <1>5, <1>9
<1>11. a \notin covered
  <2>1. ASSUME NEW j \in 1 .. M, m[j][1] < a, a <= m[j][2] PROVE FALSE
    BY <1>4, <1>5, <1>8, <2>1
  <2> QED  BY <1>1, <1>5, <2>1
<1>12. to = end \/ to + 1 \notin covered
  <2>1. ASSUME NEW j \in 1 .. M, m[j][1] < b + 1, b + 1 <= m[j][2] PROVE FALSE
    <3> DEFINE x == m[j][1]
               y == m[j][2]
    <3>1. x \in Nat /\ y \in Nat /\ x < b + 1 /\ b + 1 <= y
      BY <1>4, <2>1
    <3>2. y < a \/ (x = a /\ y = b) \/ b < x
      BY <1>8
    <3> HIDE DEF x, y
    <3> QED  BY <1>5, <3>1, <3>2
  <2>2. b + 1 \in Nat
    BY <1>5
  <2> QED  BY <1>1, <1>9, <2>1, <2>2
<1>13. ASSUME NEW i \in done + 1 .. a PROVE i \notin covered
  <2>1. i \in Nat /\ i <= a /\ i \in done + 1 .. end
    BY <1>3, <1>5, <1>13
  <2>2. ASSUME NEW j \in k + 1 .. M, m[j][1] < i, i <= m[j][2] PROVE FALSE
    <3>1. j \in 1 .. M /\ (j = k + 1 \/ k + 1 < j)
      BY <1>3, <2>2
    <3>2. m[j][1] \in Nat
      BY <1>4, <3>1
    <3>3. j = k + 1 => m[j][1] = a
      BY DEF a
    <3> QED  BY <1>5, <1>6, <2>1, <2>2, <3>1, <3>2, <3>3
  <2> QED  BY <1>2, <2>1, <2>2
<1>14. ASSUME NEW i \in a + 1 .. to PROVE i \in covered
  <2>1. i \in Nat /\ a < i /\ i <= b
    BY <1>5, <1>9, <1>14
  <2> QED  BY <1>1, <1>3, <2>1 DEF a, b
<1>15. ASSUME NEW i \in to + 1 .. end, i \in covered
       PROVE  \E l \in k + 2 .. M : InInterval(m, l, i)
  <2>1. i \in done + 1 .. end /\ to < i /\ i <= end /\ i \in Nat
    BY <1>3, <1>5, <1>9, <1>10, <1>15
  <2>2. PICK l \in k + 1 .. M : m[l][1] < i /\ i <= m[l][2]
    BY <1>2, <1>15, <2>1
  <2>3. b < i
    BY <1>3, <1>9, <2>1
  <2>4. l # k + 1
    BY <1>5, <2>1, <2>2, <2>3 DEF b
  <2>5. l \in k + 2 .. M
    BY <1>3, <2>4
  <2> QED  BY <2>2, <2>5 DEF InInterval
<1>16. ASSUME NEW l \in k + 2 .. M PROVE to <= m[l][1]
  <2>1. l \in 1 .. M /\ k + 1 < l
    BY <1>3, <1>16
  <2>2. b < m[l][1] /\ m[l][1] \in Nat
    BY <1>4, <1>6, <2>1
  <2> QED  BY <1>5, <1>9, <2>2
<1>17. IsNext(t, covered, end, m, k, done, to)
  BY <1>5, <1>9, <1>10, <1>11, <1>12, <1>13, <1>14, <1>15, <1>16 DEF IsNext, M, a
<1> QED  BY <1>17 DEF done, to, b

\* A match more, inside the window or behind it.
LEMMA MarkedOn ==
  ASSUME NEW D, {Open, Close} \subseteq D, NEW t \in Seq(D), NEW covered, NEW m,
         IsCover(t, covered, m), NEW end \in 0 .. Len(t), NEW f,
         AreLetters(D, t, covered, end, f), NEW k \in Nat, k < Len(m), NEW s,
         IsMarked(t, covered, end, m, f, k, s)
  PROVE  IsMarked(t, covered, end, m, f, k + 1, Mark(t, end, s, m[k + 1]))
<1> DEFINE a == m[k + 1][1]
           b == m[k + 1][2]
           to == Min({b, end})
           done == s.done
<1>1. /\ done \in 0 .. end /\ s.text = f[done]
      /\ \A i \in done + 1 .. end : i \in covered => \E l \in k + 1 .. Len(m) : InInterval(m, l, i)
      /\ \A l \in k + 1 .. Len(m) : m[l][1] < end => done <= m[l][1]
  BY DEF IsMarked
<1>2. m \in Seq(Nat \X Nat)
  BY DEF IsCover
<1>3. Len(m) \in Nat /\ k + 1 \in 1 .. Len(m) /\ end \in Nat /\ (k + 1) + 1 = k + 2
  BY <1>2
<1>4. a \in Nat
  BY <1>2, <1>3
<1>5. CASE a >= end
  <2>1. Mark(t, end, s, m[k + 1]) = s
    BY <1>5 DEF Mark
  <2>2. ASSUME NEW i \in done + 1 .. end, i \in covered
        PROVE  \E l \in k + 2 .. Len(m) : InInterval(m, l, i)
    <3>1. PICK l \in k + 1 .. Len(m) : InInterval(m, l, i)
      BY <1>1, <2>2
    <3>2. i \in Nat /\ i <= end
      BY <1>1, <1>3
    <3>3. l # k + 1
      BY <1>3, <1>4, <1>5, <3>1, <3>2 DEF InInterval
    <3>4. l \in k + 2 .. Len(m)
      BY <1>3, <3>3
    <3> QED  BY <3>1, <3>4
  <2>3. \A l \in k + 2 .. Len(m) : m[l][1] < end => done <= m[l][1]
    <3>1. \A l \in k + 2 .. Len(m) : l \in k + 1 .. Len(m)
      BY <1>3
    <3> QED  BY <1>1, <3>1
  <2>4. IsMarked(t, covered, end, m, f, k + 1, s)
    BY <1>1, <1>3, <2>2, <2>3 DEF IsMarked
  <2> QED  BY <2>1, <2>4
<1>6. CASE a < end
  <2> DEFINE S == Slice(t, done, a)
             W == Slice(t, a, to)
             new == [text |-> s.text \o S \o <<Open>> \o W \o <<Close>>, done |-> to]
  <2>1. Mark(t, end, s, m[k + 1]) = new
    <3>1. ~(a >= end)
      BY <1>3, <1>4, <1>6
    <3> QED  BY <3>1 DEF Mark
  <2>2. IsNext(t, covered, end, m, k, done, to)
    BY <1>6, NextInterval
  <2> HIDE DEF to, done
  <2>3. /\ a \in Nat /\ to \in Nat /\ done <= a /\ a < to /\ to <= end /\ a \notin covered
        /\ to = end \/ to + 1 \notin covered
        /\ \A i \in done + 1 .. a : i \notin covered
        /\ \A i \in a + 1 .. to : i \in covered
    BY <2>2 DEF IsNext
  <2>4. /\ \A i \in to + 1 .. end : i \in covered => \E l \in k + 2 .. Len(m) : InInterval(m, l, i)
        /\ \A l \in k + 2 .. Len(m) : m[l][1] < end => to <= m[l][1]
    BY <2>2 DEF IsNext
  <2> HIDE DEF a
  <2>5. done \in Nat /\ a <= end /\ to \in 0 .. end
    BY <1>1, <1>3, <2>3
  <2>6. f[a] = f[done] \o S
    <3>1. ArePlain(covered, end, done, a)
      BY <2>3, <2>5 DEF ArePlain
    <3>2. IsCopied(t, f, done, a)
      BY <3>1, Unmarked
    <3> QED  BY <3>2 DEF IsCopied
  <2>7. f[to] = ((f[a] \o <<Open>>) \o W) \o <<Close>>
    <3>1. AreCovered(covered, end, a, to)
      BY <2>3 DEF AreCovered
    <3>2. IsBetweenMarks(t, f, a, to)
      BY <3>1, Marked
    <3> QED  BY <3>2 DEF IsBetweenMarks
  <2> HIDE DEF S, W
  <2>8. new.text = f[to] /\ new.done = to
    BY <1>1, <2>6, <2>7
  <2> HIDE DEF new
  <2>9. IsMarked(t, covered, end, m, f, k + 1, new)
    BY <1>3, <2>4, <2>5, <2>8 DEF IsMarked
  <2> QED  BY <2>1, <2>9
<1> QED  BY <1>3, <1>4, <1>5, <1>6

\* A mark leaves a text, and a place in it.
Written(D) == [text : Seq(D), done : Nat]

LEMMA MarkTypes ==
  ASSUME NEW D, {Open, Close} \subseteq D, NEW t \in Seq(D), NEW end \in 0 .. Len(t),
         NEW s \in Written(D), NEW p \in Nat \X Nat
  PROVE  Mark(t, end, s, p) \in Written(D)
<1> DEFINE a == p[1]
           b == p[2]
           to == Min({b, end})
           S == Slice(t, s.done, a)
           W == Slice(t, a, to)
           new == [text |-> s.text \o S \o <<Open>> \o W \o <<Close>>, done |-> to]
<1>1. CASE a >= end
  BY <1>1 DEF Mark
<1>2. CASE ~(a >= end)
  <2>1. Mark(t, end, s, p) = new
    BY <1>2 DEF Mark
  <2>2. a \in Nat /\ b \in Nat /\ end \in Nat /\ s.done \in Nat /\ s.text \in Seq(D)
    BY DEF Written
  <2> HIDE DEF b
  <2>3. to \in Nat /\ to <= end
    BY <2>2, MinOfTwo
  <2> HIDE DEF to
  <2>4. Len(t) \in Nat /\ a <= Len(t) /\ to <= Len(t)
    BY <1>2, <2>2, <2>3
  <2> HIDE DEF a
  <2>5. IsPiece(D, t, s.done, a, S) /\ IsPiece(D, t, a, to, W)
    BY <2>2, <2>3, <2>4, PieceFacts DEF Slice
  <2>6. S \in Seq(D) /\ W \in Seq(D) /\ <<Open>> \in Seq(D) /\ <<Close>> \in Seq(D)
    BY <2>5 DEF IsPiece
  <2> HIDE DEF S, W
  <2>7. \A v, w \in Seq(D) : v \o w \in Seq(D)
    BY ConcatProperties
  <2>8. s.text \o S \o <<Open>> \o W \o <<Close>> \in Seq(D)
    BY <2>2, <2>6, <2>7
  <2>9. new \in Written(D)
    BY <2>3, <2>8 DEF Written
  <2> QED  BY <2>1, <2>9
<1> QED  BY <1>1, <1>2

\* The whole text, as it is marked interval by interval.
MarkedText(t, end, m) ==
  LET marked[n \in 0 .. Len(m)] ==
        IF n = 0 THEN [text |-> <<>>, done |-> 0] ELSE Mark(t, end, marked[n - 1], m[n])
  IN  marked[Len(m)].text \o Slice(t, marked[Len(m)].done, end)

\* After the last match only letters that are not covered are left.
LEMMA MarkedTextIs ==
  ASSUME NEW D, {Open, Close} \subseteq D, NEW t \in Seq(D), NEW covered, NEW m,
         IsCover(t, covered, m), NEW end \in 0 .. Len(t), NEW f,
         AreLetters(D, t, covered, end, f)
  PROVE  MarkedText(t, end, m) = f[end]
<1> DEFINE M == Len(m)
           V == Written(D)
           none == [text |-> <<>>, done |-> 0]
           Good(g) == g = [n \in 0 .. Len(m) |->
                             IF n = 0 THEN [text |-> <<>>, done |-> 0]
                             ELSE Mark(t, end, g[n - 1], m[n])]
           marked == CHOOSE g : Good(g)
           Turn(n, s) == Mark(t, end, s, m[n])
<1>1. m \in Seq(Nat \X Nat) /\ M \in Nat
  BY DEF IsCover
<1>2. none \in V
  BY DEF Written
<1>3. MarkedText(t, end, m) = marked[M].text \o Slice(t, marked[M].done, end)
  BY DEF MarkedText
<1>4. \A g : Good(g) <=> g = [n \in 0 .. M |-> IF n = 0 THEN none ELSE Turn(n, g[n - 1])]
  OBVIOUS
<1>5. ASSUME NEW n \in 1 .. M, NEW s \in V PROVE Turn(n, s) \in V
  <2>1. m[n] \in Nat \X Nat
    BY <1>1
  <2> QED  BY <2>1, MarkTypes
<1> HIDE DEF Good, M, V, none
<1>6. PICK g : /\ g \in [0 .. M -> V] /\ g[0] = none
               /\ \A n \in 1 .. M : g[n] = Turn(n, g[n - 1])
  <2> HIDE DEF Turn
  <2> DEFINE step == [n \in 1 .. M |-> [s \in V |-> Turn(n, s)]]
  <2>1. /\ step \in [1 .. M -> [V -> V]]
        /\ \A n \in 1 .. M : \A s \in V : step[n][s] = Turn(n, s)
    BY <1>5
  <2> HIDE DEF step
  <2>2. IsRecursion(M, V, none, step)
    BY <1>1, <1>2, <2>1 DEF IsRecursion
  <2>3. PICK g : SolvesRecursion(g, M, V, none, step)
    BY <2>2, RecursionSolved
  <2>4. g \in [0 .. M -> V] /\ g[0] = none /\ \A n \in 1 .. M : g[n] = step[n][g[n - 1]]
    BY <2>3 DEF SolvesRecursion
  <2>5. \A n \in 1 .. M : g[n - 1] \in V
    BY <1>1, <2>4
  <2>6. \A n \in 1 .. M : g[n] = Turn(n, g[n - 1])
    BY <2>1, <2>4, <2>5
  <2> QED  BY <2>4, <2>6
<1>7. Good(g)
  <2> HIDE DEF Turn
  <2>1. \A n \in 0 .. M : g[n] = IF n = 0 THEN none ELSE Turn(n, g[n - 1])
    BY <1>1, <1>6
  <2>2. g = [n \in 0 .. M |-> IF n = 0 THEN none ELSE Turn(n, g[n - 1])]
    BY <1>6, <2>1
  <2> QED  BY <1>4, <2>2
<1>8. Good(marked)
  BY <1>7
<1> HIDE DEF marked
<1>9. \A n \in 0 .. M : marked[n] = IF n = 0 THEN none ELSE Turn(n, marked[n - 1])
  <2> HIDE DEF Turn
  <2>1. marked = [n \in 0 .. M |-> IF n = 0 THEN none ELSE Turn(n, marked[n - 1])]
    BY <1>4, <1>8
  <2> QED  BY <2>1
<1> DEFINE T == {n \in 0 .. M : IsMarked(t, covered, end, m, f, n, marked[n])}
<1>10. 0 \in T
  <2>1. marked[0] = none /\ 0 \in 0 .. M
    BY <1>1, <1>9
  <2>2. none.done = 0 /\ none.text = f[0]
    BY DEF none, AreLetters
  <2>3. \A i \in Nat : i \in covered => \E l \in 1 .. Len(m) : InInterval(m, l, i)
    BY DEF IsCover
  <2>4. \A l \in 1 .. Len(m) : 0 <= m[l][1]
    <3>1. \A l \in 1 .. Len(m) : m[l][1] \in Nat
      BY <1>1
    <3> QED  BY <3>1
  <2>5. 0 + 1 = 1 /\ 0 \in 0 .. end /\ \A i \in 1 .. end : i \in Nat
    OBVIOUS
  <2>6. IsMarked(t, covered, end, m, f, 0, none)
    BY <2>2, <2>3, <2>4, <2>5 DEF IsMarked
  <2> QED  BY <2>1, <2>6
<1>11. ASSUME NEW n \in 0 .. M, n < M, n \in T PROVE n + 1 \in T
  <2>1. n + 1 \in 0 .. M /\ n + 1 # 0 /\ (n + 1) - 1 = n /\ n \in Nat /\ n < Len(m)
    BY <1>1, <1>11 DEF M
  <2>2. marked[n + 1] = Mark(t, end, marked[n], m[n + 1])
    BY <1>9, <2>1
  <2>3. IsMarked(t, covered, end, m, f, n, marked[n])
    BY <1>11
  <2>4. IsMarked(t, covered, end, m, f, n + 1, marked[n + 1])
    BY <2>1, <2>2, <2>3, MarkedOn
  <2> QED  BY <2>1, <2>4
<1>12. IsMarked(t, covered, end, m, f, M, marked[M])
  <2>1. \A n \in 0 .. M : n < M /\ n \in T => n + 1 \in T
    BY <1>11
  <2>2. M \in 0 .. M
    BY <1>1
  <2> HIDE DEF T
  <2>3. \A n \in 0 .. M : n \in T
    BY <1>1, <1>10, <2>1, InductionUpTo
  <2> QED  BY <2>2, <2>3 DEF T
<1> DEFINE s == marked[M]
<1>13. s.done \in 0 .. end /\ s.text = f[s.done] /\ \A i \in s.done + 1 .. end : i \notin covered
  <2>1. M + 1 .. Len(m) = {}
    BY <1>1 DEF M
  <2> QED  BY <1>12, <2>1 DEF IsMarked
<1> DEFINE done == s.done
<1>14. f[end] = f[done] \o Slice(t, done, end)
  <2>1. done \in Nat /\ done <= end /\ end \in Nat /\ end <= end
    BY <1>13
  <2>2. \A i \in done + 1 .. end : i \notin covered
    BY <1>13
  <2> HIDE DEF done
  <2>3. ArePlain(covered, end, done, end)
    BY <2>1, <2>2 DEF ArePlain
  <2>4. IsCopied(t, f, done, end)
    BY <2>3, Unmarked
  <2> QED  BY <2>4 DEF IsCopied
<1> QED  BY <1>3, <1>13, <1>14

-----------------------------------------------------------------------------
\* The window ends inside the text, and behind the first match if it is longer than
\* what leads it.
LEMMA WindowFacts ==
  ASSUME NEW L \in Nat, NEW first \in Nat, first < L, NEW t, Len(t) = L
  PROVE  /\ WindowEnd(t, first) \in 0 .. L
         /\ Lead < FragmentSize => first + 1 <= WindowEnd(t, first)
<1> DEFINE start == WindowStart(first)
           e == start + FragmentSize
<1>1. Lead \in Nat /\ FragmentSize \in Nat
  BY HighlightConstants
<1>2. start \in Nat /\ (Lead < FragmentSize => first + 1 <= e)
  BY <1>1 DEF WindowStart
<1>3. e \in Nat
  BY <1>1, <1>2
<1>4. WindowEnd(t, first) = Min({e, L})
  BY DEF WindowEnd
<1> HIDE DEF e, start
<1>5. Min({e, L}) \in Nat /\ Min({e, L}) <= L /\ (Min({e, L}) = e \/ Min({e, L}) = L)
  BY <1>3, MinOfTwo
<1> QED  BY <1>2, <1>4, <1>5

\* Every text is highlighted letter by letter.
LEMMA HighlightIsExact ==
  ASSUME NEW C, NEW h \in Seq(C), NEW terms, <<>> \notin terms
  PROVE  HighlightExact(h, terms)
<1> DEFINE D == C \cup {Open, Close}
           m == Merged(h, terms)
           covered == Covered(h, terms)
           first == m[1][1]
           end == WindowEnd(h, first)
<1>1. h \in Seq(D) /\ {Open, Close} \subseteq D /\ Len(h) \in Nat
  <2>1. C \subseteq D
    OBVIOUS
  <2> HIDE DEF D
  <2>2. h \in Seq(D)
    BY <2>1, SeqMonotonic
  <2> QED  BY <2>2 DEF D
<1>2. IsCover(h, covered, m)
  BY CoverIs
<1>3. HighlightText(h, terms) = IF m = <<>> THEN <<>> ELSE MarkedText(h, end, m)
  BY DEF HighlightText, MarkedText
<1> HIDE DEF m, covered, D
<1>4. /\ m \in Seq(Nat \X Nat) /\ covered \subseteq 1 .. Len(h)
      /\ \A j \in 1 .. Len(m) : m[j][1] < m[j][2] /\ m[j][2] <= Len(h)
      /\ \A j, l \in 1 .. Len(m) : j < l => m[j][2] < m[l][1]
      /\ \A i \in Nat : i \in covered <=> \E j \in 1 .. Len(m) : m[j][1] < i /\ i <= m[j][2]
  BY <1>2 DEF IsCover, InInterval
<1>5. CASE m = <<>>
  <2>1. 1 .. Len(m) = {}
    BY <1>5
  <2>2. covered = {}
    <3>1. \A i \in covered : i \in Nat
      BY <1>4
    <3> QED  BY <1>4, <2>1, <3>1
  <2> QED  BY <1>3, <1>5, <2>2 DEF HighlightExact, covered
<1>6. CASE m # <<>>
  <2>1. /\ Len(m) \in Nat /\ 1 \in 1 .. Len(m)
        /\ \A j \in 1 .. Len(m) : m[j][1] \in Nat /\ m[j][2] \in Nat
    BY <1>4, <1>6
  <2>2. first \in Nat /\ first < m[1][2] /\ m[1][2] <= Len(h) /\ m[1][2] \in Nat
    BY <1>4, <2>1
  <2>3. first + 1 \in covered
    <3>1. first + 1 \in Nat /\ first < first + 1 /\ first + 1 <= m[1][2]
      BY <2>2
    <3> QED  BY <1>4, <2>1, <3>1
  <2>4. ASSUME NEW x \in covered PROVE first + 1 <= x
    <3>1. x \in Nat
      BY <1>4
    <3>2. PICK j \in 1 .. Len(m) : m[j][1] < x
      BY <1>4, <3>1
    <3>3. first <= m[j][1]
      <4>1. CASE j = 1
        BY <2>2, <4>1
      <4>2. CASE j # 1
        <5>1. 1 < j
          BY <4>2
        <5>2. m[1][2] < m[j][1]
          BY <1>4, <2>1, <5>1
        <5> QED  BY <2>1, <2>2, <5>2
      <4> QED  BY <4>1, <4>2
    <3>4. m[j][1] \in Nat
      BY <2>1
    <3> QED  BY <2>2, <3>1, <3>2, <3>3, <3>4
  <2>5. Min(covered) = first + 1
    <3>1. covered \subseteq Int
      BY <1>4
    <3> HIDE DEF first
    <3> QED  BY <2>3, <2>4, <3>1, MinIs
  <2>6. Min(covered) - 1 = first
    BY <2>2, <2>5
  <2>7. end \in 0 .. Len(h) /\ (Lead < FragmentSize => first + 1 <= end)
    <3>1. first < Len(h)
      BY <1>1, <2>2
    <3> HIDE DEF first
    <3> QED  BY <1>1, <2>2, <3>1, WindowFacts
  <2> HIDE DEF first
  <2>8. PICK f : AreLetters(D, h, covered, end, f) /\ LetterByLetter(h, covered, 0, end) = f[end]
    <3> HIDE DEF end
    <3> QED  BY <1>1, <2>7, LettersAre
  <2>9. MarkedText(h, end, m) = f[end]
    <3> HIDE DEF end
    <3> QED  BY <1>1, <1>2, <2>7, <2>8, MarkedTextIs
  <2>10. HighlightText(h, terms) = LetterByLetter(h, covered, 0, end)
    BY <1>3, <1>6, <2>8, <2>9
  <2>11. covered # {} /\ end = WindowEnd(h, Min(covered) - 1)
    BY <2>3, <2>6
  <2>12. 0 \in 0 .. WindowStart(Min(covered) - 1)
    <3>1. WindowStart(first) \in Nat
      BY <2>2, HighlightConstants DEF WindowStart
    <3> QED  BY <2>6, <3>1
  <2> HIDE DEF end
  <2>13. Lead < FragmentSize => (Min(covered) - 1) + 1 <= end
    BY <2>6, <2>7
  <2> QED  BY <2>10, <2>11, <2>12, <2>13 DEF HighlightExact, covered
<1> QED  BY <1>5, <1>6

-----------------------------------------------------------------------------
(* The specification                                                       *)

\* The inputs are what the steps make them of: sequences of letters, numbers
\* of the posting list's width, and as many hits as a list can have.
InputsTyped ==
  /\ term \in Seq(Letters)
  /\ word \in Seq(Letters \cup {Star, Question})
  /\ text \in Seq(Letters \cup {Space} \cup Signs)
  /\ numbers \in Seq(0 .. Modulus - 1)
  /\ hits \in Seq(HitIds) /\ Len(hits) <= MaxHits

LEMMA TypedInit == AlgorithmsInit => InputsTyped
<1> SUFFICES ASSUME AlgorithmsInit PROVE InputsTyped
  OBVIOUS
<1>1. \A S : <<>> \in Seq(S)
  OBVIOUS
<1>2. Len(<<>>) = 0 /\ MaxHits \in Nat
  BY HitsAssumption
<1> QED  BY <1>1, <1>2 DEF AlgorithmsInit, InputsTyped

LEMMA LongerBy ==
  ASSUME NEW S, NEW s \in Seq(S), NEW x \in S
  PROVE  Append(s, x) \in Seq(S) /\ Len(Append(s, x)) = Len(s) + 1
BY AppendProperties

LEMMA TypedNext == InputsTyped /\ [AlgorithmsNext]_<<part, inputVars>> => InputsTyped'
<1> SUFFICES ASSUME InputsTyped, [AlgorithmsNext]_<<part, inputVars>> PROVE InputsTyped'
  OBVIOUS
<1> USE DEF InputsTyped
<1>1. CASE LongerTerm
  BY <1>1, LongerBy DEF LongerTerm
<1>2. CASE LongerWord
  BY <1>2, LongerBy DEF LongerWord
<1>3. CASE LongerText
  BY <1>3, LongerBy DEF LongerText
<1>4. CASE LongerList
  BY <1>4, LongerBy DEF LongerList
<1>5. CASE MoreHits
  <2>1. PICK i \in HitIds : hits' = Append(hits, i)
    BY <1>5 DEF MoreHits
  <2>2. hits' \in Seq(HitIds) /\ Len(hits') = Len(hits) + 1
    BY <2>1, LongerBy
  <2>3. Len(hits) \in Nat /\ Len(hits) < MaxHits /\ MaxHits \in Nat
    BY <1>5, HitsAssumption DEF MoreHits
  <2>4. Len(hits') <= MaxHits
    BY <2>2, <2>3
  <2> QED  BY <1>5, <2>2, <2>4 DEF MoreHits
<1>6. CASE UNCHANGED <<part, inputVars>>
  BY <1>6 DEF inputVars
<1> QED  BY <1>1, <1>2, <1>3, <1>4, <1>5, <1>6 DEF AlgorithmsNext

\* Every input that is reached is one the code can be given.
THEOREM AlwaysTyped == AlgorithmsSpec => []InputsTyped
BY TypedInit, TypedNext, PTL DEF AlgorithmsSpec

\* search_api answers with the beginning of the page that limit and offset, or
\* limit and cursor, name, whatever the sum overflows to, and its cursors end.
THEOREM PagesAlwaysSound == AlgorithmsSpec => []PagesSound
<1>1. InputsTyped => PagesSound
  BY PagesAreSound DEF InputsTyped, PagesSound
<1> QED  BY <1>1, AlwaysTyped, PTL

\* delta_decode reads back what delta_encode has written: every list of
\* numbers of the width, also one that is not sorted.
THEOREM PostingsAlwaysReadBack == AlgorithmsSpec => []PostingsReadBack
<1>1. InputsTyped => PostingsReadBack
  BY ListReadBack DEF InputsTyped, PostingsReadBack
<1> QED  BY <1>1, AlwaysTyped, PTL

\* levenshtein_distance of the segments and levenshtein of the in-memory index
\* are the cost of the cheapest alignment.
THEOREM DistancesAlwaysExact == AlgorithmsSpec => []DistanceExact
<1>1. InputsTyped => DistanceExact
  BY DistancesAre DEF InputsTyped, DistanceExact
<1> QED  BY <1>1, AlwaysTyped, PTL

\* A word matches the terms that it describes as a glob: looked up, as a prefix
\* and through matches_wildcard.
THEOREM WordsAlwaysExact == AlgorithmsSpec => []WordsExact
<1>1. InputsTyped => WordsExact
  <2> SUFFICES ASSUME InputsTyped PROVE WordsExact
    OBVIOUS
  <2> DEFINE C == Letters \cup {Star, Question}
  <2>1. word \in Seq(C) /\ term \in Seq(Letters) /\ Letters \subseteq C
    BY DEF InputsTyped
  <2> HIDE DEF C
  <2>2. term \in Seq(C)
    BY <2>1, SeqMonotonic
  <2> QED  BY <2>1, <2>2, WordsAreExact DEF WordsExact
<1> QED  BY <1>1, AlwaysTyped, PTL

\* search_phrase finds what stands in a document between word bounds, and finds
\* two words only where they are side by side.
THEOREM PhrasesAlwaysFound == AlgorithmsSpec => []PhrasesFound
<1>1. InputsTyped => PhrasesFound
  <2> SUFFICES ASSUME InputsTyped PROVE PhrasesFound
    OBVIOUS
  <2> DEFINE B == Letters \cup {Space} \cup Signs
             C == B \cup {"a", "b"}
             other == <<"b", Space, "a", "a", Space, "a">>
  <2>1. text \in Seq(B) /\ B \subseteq C /\ Space \in C /\ "a" \in C /\ "b" \in C
    BY DEF InputsTyped
  <2>2. other \in Seq(C)
    <3> HIDE DEF C
    <3> QED  BY <2>1
  <2> HIDE DEF B, C
  <2>3. text \in Seq(C)
    BY <2>1, SeqMonotonic
  <2> HIDE DEF other
  <2>4. <<text, other>> \in Seq(Seq(C))
    BY <2>2, <2>3
  <2>5. PhrasesExact(<<text, other>>)
    BY <2>4, PhrasesAreExact
  <2> QED  BY <2>5 DEF PhrasesFound, other
<1> QED  BY <1>1, AlwaysTyped, PTL

\* highlight writes the text up to the end of its window with a mark at both
\* ends of every run of letters that belong to occurrences, and none elsewhere.
THEOREM HighlightAlwaysMarks == AlgorithmsSpec => []HighlightMarks
<1>1. InputsTyped => HighlightMarks
  <2> SUFFICES ASSUME InputsTyped, NEW terms \in TermSets PROVE HighlightExact(text, terms)
    BY DEF HighlightMarks
  <2>1. <<>> \notin terms
    <3> DEFINE some == UNION {[1 .. n -> Letters] : n \in 1 .. 2}
    <3>1. ASSUME NEW n \in 1 .. 2, NEW v \in [1 .. n -> Letters] PROVE v # <<>>
      <4>1. 1 \in DOMAIN v /\ DOMAIN <<>> = {}
        OBVIOUS
      <4> QED  BY <4>1
    <3>2. \A v \in some : v # <<>>
      BY <3>1
    <3>3. <<"a", "b", "a">> # <<>> /\ <<"b">> # <<>>
      OBVIOUS
    <3> HIDE DEF some
    <3>4. terms \in {{v, w} : v, w \in some} \cup {{<<"a", "b", "a">>, <<"b">>}}
      BY DEF TermSets, some
    <3>5. CASE terms \in {{v, w} : v, w \in some}
      BY <3>2, <3>5
    <3>6. CASE terms = {<<"a", "b", "a">>, <<"b">>}
      BY <3>3, <3>6
    <3> QED  BY <3>4, <3>5, <3>6
  <2>2. text \in Seq(Letters \cup {Space} \cup Signs)
    BY DEF InputsTyped
  <2> QED  BY <2>1, <2>2, HighlightIsExact
<1> QED  BY <1>1, AlwaysTyped, PTL
=============================================================================
