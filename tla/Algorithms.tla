----------------------------- MODULE Algorithms -----------------------------
(***************************************************************************)
(* The algorithms of Matching, Codec, Pages, Highlight and InvertedIndex   *)
(* and what they promise, for all inputs: a state is an input, and a step  *)
(* makes it longer.                                                        *)
(***************************************************************************)
EXTENDS Matching, Codec, Pages, Highlight, InvertedIndex

CONSTANTS
  Parts,      \* the parts to run, of which these are "words", "texts", "lists", "pages"
  Letters,    \* letters of words
  MaxWord,    \* bound: letters of a dictionary's term
  MaxPattern, \* bound: letters of a query's word
  MaxText,    \* bound: letters, spaces and signs of a text
  MaxNumbers, \* bound: numbers of a posting list
  MaxHits,    \* bound: what a search finds
  HitIds      \* ids of hits

ASSUME HitsAssumption == MaxHits \in Nat

VARIABLES
  part,
  term,     \* a term of the dictionary
  word,     \* a word of a query, or a second term
  text,     \* a text with spaces and signs
  numbers,  \* a posting list
  hits      \* all that a search finds, by id, the best first

inputVars == <<term, word, text, numbers, hits>>

\* The terms of a query: one or two, also one in the other and equal ends.
TermSets ==
  LET words == UNION {[1 .. n -> Letters] : n \in 1 .. 2}
  IN  {{v, w} : v, w \in words} \cup {{<<"a", "b", "a">>, <<"b">>}}

-----------------------------------------------------------------------------
AlgorithmsInit ==
  /\ part \in Parts
  /\ term = <<>> /\ word = <<>> /\ text = <<>> /\ numbers = <<>> /\ hits = <<>>

LongerTerm ==
  /\ part = "words"
  /\ Len(term) < MaxWord
  /\ \E c \in Letters : term' = Append(term, c)
  /\ UNCHANGED <<word, text, numbers, hits>>

LongerWord ==
  /\ part = "words"
  /\ Len(word) < MaxPattern
  /\ \E c \in Letters \cup {Star, Question} : word' = Append(word, c)
  /\ UNCHANGED <<term, text, numbers, hits>>

LongerText ==
  /\ part = "texts"
  /\ Len(text) < MaxText
  /\ \E c \in Letters \cup {Space} \cup Signs : text' = Append(text, c)
  /\ UNCHANGED <<term, word, numbers, hits>>

LongerList ==
  /\ part = "lists"
  /\ Len(numbers) < MaxNumbers
  /\ \E n \in 0 .. Modulus - 1 : numbers' = Append(numbers, n)
  /\ UNCHANGED <<term, word, text, hits>>

MoreHits ==
  /\ part = "pages"
  /\ Len(hits) < MaxHits
  /\ \E i \in HitIds : hits' = Append(hits, i)
  /\ UNCHANGED <<term, word, text, numbers>>

AlgorithmsNext ==
  /\ LongerTerm \/ LongerWord \/ LongerText \/ LongerList \/ MoreHits
  /\ UNCHANGED part

AlgorithmsSpec == AlgorithmsInit /\ [][AlgorithmsNext]_<<part, inputVars>>

-----------------------------------------------------------------------------
\* A word finds the terms that it describes as a glob: without wildcards, as
\* a prefix and through the wildcard matcher.  Left out are the words that the
\* parser does not take for globs: a? (a term with a question in it, as only a
\* star makes a pattern) and *a* (a prefix with a star in it).
WordsExact ==
  LET isTerm   == ~Has(word, Star)
      isPrefix == ~isTerm /\ Last(word) = Star /\ ~Has(word, Question)
  IN  \/ isTerm /\ Has(word, Question)
      \/ isPrefix /\ Has(TrimStars(word), Star)
      \/ WordMatches(word, term) <=> Glob(term, word)

\* A fuzzy word's distance from a term is the number of edits between them, by
\* the matrix of the segments and by the two rows of the in-memory index.
DistanceExact ==
  word \in Seq(Letters) =>
    /\ LevenshteinDistance(word, term) = EditDistance(word, term)
    /\ Levenshtein(word, term) = EditDistance(word, term)

\* What is read back of a posting list is what was written, at every width of
\* a difference, up to the largest number.
PostingsReadBack == DeltaDecode(DeltaEncode(numbers)) = numbers

\* A page has no hit that is not on the page asked for, none twice and none out
\* of order, up to the largest indices; and a client that follows cursors ends.
PagesSound ==
  part = "pages" => \A limit, offset \in 0 .. MaxIndex : PageSound(hits, limit, offset)

\* A page has all hits from its offset up to its limit, as the README's example
\* of a search "with Sorting and Pagination" has it (README.md).  The code breaks
\* it: the engine is asked for the hits of one page only.
PagesAsAsked ==
  part = "pages" => \A limit, offset \in 0 .. MaxIndex :
    AnswerAt(hits, limit, offset).hits = AskedPage(hits, limit, offset)

\* A highlighted fragment has what the window shows, with the letters of the
\* matched terms between marks and no others.
HighlightMarks ==
  part = "texts" => \A terms \in TermSets : HighlightExact(text, terms)

\* A fragment is no longer than its size, as "fragment_size" and the comment
\* "Find the best fragment window" say (highlight.rs).  The code breaks it: what is
\* before the window is in the fragment too.
FragmentBounded ==
  part = "texts" => \A terms \in TermSets :
    Len(LettersOf(HighlightText(text, terms))) <= FragmentSize

\* Of two documents, each piece of the first between word bounds is found as a
\* phrase, and no document is found for two words that it has not side by side.
PhrasesFound ==
  part = "texts" => PhrasesExact(<<text, <<"b", Space, "a", "a", Space, "a">>>>)
=============================================================================
