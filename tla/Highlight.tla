----------------------------- MODULE Highlight -----------------------------
(***************************************************************************)
(* The highlighted fragment of a text (highlight.rs): occurrences of the   *)
(* terms, merged where they touch, each between two marks, in a window     *)
(* that begins a little before the first one.  Places are counted from 0,  *)
(* as the code does; an interval is [from, to).                            *)
(***************************************************************************)
EXTENDS Naturals, Sequences, FiniteSets, FiniteSetsExt, SequencesExt

CONSTANTS
  FragmentSize,  \* Highlighter.fragment_size: 150
  Lead           \* the window begins as much before the first match: 30

ASSUME HighlightConstants == {FragmentSize, Lead} \subseteq Nat

Open  == "<em>"
Close == "</em>"
Slice(text, from, to) == SubSeq(text, from + 1, to)

\* Where the terms occur, also overlapping themselves.
Positions(text, terms) ==
  {p \in (0 .. Len(text)) \X (0 .. Len(text)) :
     p[1] <= p[2] /\ Slice(text, p[1], p[2]) \in terms}

\* Where the occurrences end that begin behind the first n letters.
EndsOf(text, terms, n) == {p[2] : p \in {q \in Positions(text, terms) : q[1] = n}}

\* Mutated MergeInto: the later interval's end counts, even where it is inside
\* the one before.
MergeIntoLast(merged, p) ==
  IF merged # <<>> /\ p[1] <= Last(merged)[2]
    THEN [merged EXCEPT ![Len(merged)] = <<@[1], p[2]>>]
    ELSE Append(merged, p)

MergeInto(merged, p) ==
  IF merged # <<>> /\ p[1] <= Last(merged)[2]
    THEN [merged EXCEPT ![Len(merged)] = <<@[1], Max({@[2], p[2]})>>]
    ELSE Append(merged, p)

\* By their beginnings.  Which of two with one beginning comes first is open in
\* the code and without effect: the longest remains.
Merged(text, terms) ==
  LET merged[n \in 0 .. Len(text)] ==
        IF n = 0 THEN <<>>
        ELSE IF EndsOf(text, terms, n - 1) = {} THEN merged[n - 1]
        ELSE MergeInto(merged[n - 1], <<n - 1, Max(EndsOf(text, terms, n - 1))>>)
  IN  merged[Len(text)]

WindowStart(first) == IF first < Lead THEN 0 ELSE first - Lead
WindowEnd(text, first) == Min({WindowStart(first) + FragmentSize, Len(text)})

\* One match between marks, and what is before it and not yet done.
Mark(text, end, t, p) ==
  IF p[1] >= end THEN t
  ELSE LET to == Min({p[2], end})
       IN  [text |-> t.text \o Slice(text, t.done, p[1])
                     \o <<Open>> \o Slice(text, p[1], to) \o <<Close>>,
            done |-> to]

\* The text up to the end of the window - all of it, also what is before the
\* window - with the matches that begin inside marked.
HighlightText(text, terms) ==
  LET merged == Merged(text, terms)
      end == WindowEnd(text, merged[1][1])
      marked[n \in 0 .. Len(merged)] ==
        IF n = 0 THEN [text |-> <<>>, done |-> 0]
        ELSE Mark(text, end, marked[n - 1], merged[n])
  IN  IF merged = <<>> THEN <<>>
      ELSE marked[Len(merged)].text \o Slice(text, marked[Len(merged)].done, end)

-----------------------------------------------------------------------------
Covered(text, terms) == UNION {p[1] + 1 .. p[2] : p \in Positions(text, terms)}

\* One letter more, with a mark before it where covered letters begin, and one
\* behind it where they end.
WithLetter(text, covered, end, s, i) ==
  LET before == IF i \in covered /\ i - 1 \notin covered THEN <<Open>> ELSE <<>>
      after  == IF i \in covered /\ (i = end \/ i + 1 \notin covered) THEN <<Close>> ELSE <<>>
  IN  s \o before \o <<text[i]>> \o after

LetterByLetter(text, covered, from, end) ==
  LET letters[i \in from .. end] ==
        IF i = from THEN <<>> ELSE WithLetter(text, covered, end, letters[i - 1], i)
  IN  letters[end]

\* A fragment is a part of the text that reaches to the end of the window and
\* misses nothing of it; a mark stands where letters of occurrences begin and
\* where they end, however occurrences overlap, touch, contain each other or run
\* out of the window; and a window that reaches the first occurrence has one.
HighlightExact(text, terms) ==
  LET covered == Covered(text, terms)
      first == Min(covered) - 1
      end == WindowEnd(text, first)
  IN  IF covered = {} THEN HighlightText(text, terms) = <<>>
      ELSE /\ \E from \in 0 .. WindowStart(first) :
                HighlightText(text, terms) = LetterByLetter(text, covered, from, end)
           /\ Lead < FragmentSize => first + 1 <= end

\* The letters of a fragment, without the marks.
LettersOf(fragment) == SelectSeq(fragment, LAMBDA c : c \notin {Open, Close})
=============================================================================
