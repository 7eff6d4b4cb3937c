------------------------------ MODULE Matching ------------------------------
(***************************************************************************)
(* Which terms of a segment's dictionary a word of a query matches: the    *)
(* kinds of words (parser.rs), prefixes, wildcards and fuzzy terms         *)
(* (segment.rs), and what globs and edit distances are.                    *)
(*                                                                         *)
(* Text is a sequence of letters of one byte: the wildcard matcher goes    *)
(* byte by byte (README, what is not modelled).                            *)
(***************************************************************************)
EXTENDS Naturals, Sequences, FiniteSets, FiniteSetsExt, SequencesExt

Star == "*"
Question == "?"
Has(word, c) == \E i \in DOMAIN word : word[i] = c

-----------------------------------------------------------------------------
(* Wildcards                                                               *)

\* A letter of the pattern is a part of its own or makes a literal longer.
AddPart(parts, c) ==
  LET special(part) == part \in {<<Star>>, <<Question>>}
  IN  IF parts = <<>> \/ special(<<c>>) \/ special(Last(parts))
        THEN Append(parts, <<c>>)
        ELSE [parts EXCEPT ![Len(parts)] = Append(@, c)]

\* A pattern as stars, questions and runs of literal letters.
CompileWildcardPattern(pattern) ==
  LET parts[n \in 0 .. Len(pattern)] ==
        IF n = 0 THEN <<>> ELSE AddPart(parts[n - 1], pattern[n])
  IN  parts[Len(pattern)]

\* Mutated PartMatches: a star takes at least one letter.
PartMatchesPlus(text, part, later) ==
  IF part = <<Star>> THEN {i \in 0 .. Len(text) : \E k \in i + 1 .. Len(text) : k \in later}
  ELSE {i \in 0 .. Len(text) :
          LET j == i + Len(part)
          IN  /\ j <= Len(text)
              /\ part = <<Question>> \/ SubSeq(text, i + 1, j) = part
              /\ j \in later}

\* The places of the text, by the letters before them, where the part matches
\* what ends at a later place.
PartMatches(text, part, later) ==
  IF part = <<Star>> THEN {i \in 0 .. Len(text) : \E k \in i .. Len(text) : k \in later}
  ELSE {i \in 0 .. Len(text) :
          LET j == i + Len(part)
          IN  /\ j <= Len(text)
              /\ part = <<Question>> \/ SubSeq(text, i + 1, j) = part
              /\ j \in later}

\* The recursion of the code tries each place for each part; here, from where
\* the last n parts match the rest of the text.
MatchesWildcard(text, pattern) ==
  LET parts == CompileWildcardPattern(pattern)
      from[n \in 0 .. Len(parts)] ==
        IF n = 0 THEN {Len(text)}
        ELSE PartMatches(text, parts[Len(parts) - n + 1], from[n - 1])
  IN  0 \in from[Len(parts)]

-----------------------------------------------------------------------------
(* Words                                                                   *)

\* A word without the stars at its end.
TrimStars(word) ==
  LET kept == {n \in 0 .. Len(word) : \A i \in n + 1 .. Len(word) : word[i] = Star}
  IN  SubSeq(word, 1, Min(kept))

\* A word is a term, or a prefix if it ends in a star, or a wildcard.
WordMatches(word, term) ==
  IF ~Has(word, Star) THEN term = word
  ELSE IF Last(word) = Star /\ ~Has(word, Question)
    THEN IsPrefix(TrimStars(word), term)
  ELSE MatchesWildcard(term, word)

-----------------------------------------------------------------------------
(* Fuzzy terms                                                             *)

\* Mutated LevenshteinDistance: the first row and column are left at zero.
LevenshteinDistanceZeroEdge(a, b) ==
  LET matrix[p \in (0 .. Len(a)) \X (0 .. Len(b))] ==
        IF p[1] = 0 \/ p[2] = 0 THEN 0
        ELSE Min({matrix[<<p[1] - 1, p[2]>>] + 1,
                  matrix[<<p[1], p[2] - 1>>] + 1,
                  matrix[<<p[1] - 1, p[2] - 1>>] + IF a[p[1]] = b[p[2]] THEN 0 ELSE 1})
  IN  IF a = <<>> \/ b = <<>> THEN Len(a) + Len(b) ELSE matrix[<<Len(a), Len(b)>>]

\* An entry of the matrix from the three before it.
LevenshteinDistance(a, b) ==
  LET matrix[p \in (0 .. Len(a)) \X (0 .. Len(b))] ==
        IF p[1] = 0 \/ p[2] = 0 THEN p[1] + p[2]
        ELSE Min({matrix[<<p[1] - 1, p[2]>>] + 1,
                  matrix[<<p[1], p[2] - 1>>] + 1,
                  matrix[<<p[1] - 1, p[2] - 1>>] + IF a[p[1]] = b[p[2]] THEN 0 ELSE 1})
  IN  matrix[<<Len(a), Len(b)>>]

-----------------------------------------------------------------------------
(* References                                                              *)

\* A glob: the text can be cut into as many pieces as the pattern has letters,
\* where a star covers any piece, a question one letter, a letter itself.
Glob(text, pattern) ==
  \E cut \in [0 .. Len(pattern) -> 0 .. Len(text)] :
    /\ cut[0] = 0 /\ cut[Len(pattern)] = Len(text)
    /\ \A i \in DOMAIN pattern :
         LET piece == SubSeq(text, cut[i - 1] + 1, cut[i])
         IN  /\ cut[i - 1] <= cut[i]
             /\ \/ pattern[i] = Star
                \/ pattern[i] = Question /\ Len(piece) = 1
                \/ piece = <<pattern[i]>>

\* The cheapest alignment: paired letters in order, a pair of different
\* letters costs one, and so does every letter without a pair.
EditDistance(a, b) ==
  LET Alignments ==
        {A \in SUBSET ((DOMAIN a) \X (DOMAIN b)) :
           \A p, q \in A : /\ p[1] < q[1] <=> p[2] < q[2]
                           /\ p[1] = q[1] <=> p[2] = q[2]}
      Cost(A) == Len(a) + Len(b) - 2 * Cardinality(A)
                 + Cardinality({p \in A : a[p[1]] # b[p[2]]})
  IN  Min({Cost(A) : A \in Alignments})
=============================================================================
