--------------------------- MODULE InvertedIndex ---------------------------
(***************************************************************************)
(* Tokens of a text (tokenizer.rs), the in-memory index of documents with  *)
(* the places of their tokens, its phrase search, and its edit distance    *)
(* (inverted_index.rs).  A text is a sequence of letters.                  *)
(***************************************************************************)
EXTENDS Naturals, Sequences, FiniteSets, FiniteSetsExt, SequencesExt

CONSTANTS
  Space,         \* the letter between words
  Signs,         \* letters that are neither spaces nor alphanumeric
  StopWords      \* words that are not indexed

-----------------------------------------------------------------------------
(* Tokenizer::tokenize                                                     *)

\* A word without its signs is a token, unless nothing is left or it is a stop
\* word.
AddToken(tokens, w) == IF w = <<>> \/ w \in StopWords THEN tokens ELSE Append(tokens, w)

\* The tokens before a letter, and the word that it may go on.
NextLetter(t, c) ==
  IF c = Space THEN [tokens |-> AddToken(t.tokens, t.word), word |-> <<>>]
  ELSE IF c \in Signs THEN t
  ELSE [t EXCEPT !.word = Append(@, c)]

\* Words are the longest pieces without a space, in order.
Tokenize(text) ==
  LET read[k \in 0 .. Len(text)] ==
        IF k = 0 THEN [tokens |-> <<>>, word |-> <<>>] ELSE NextLetter(read[k - 1], text[k])
  IN  AddToken(read[Len(text)].tokens, read[Len(text)].word)

-----------------------------------------------------------------------------
(* The index                                                               *)

\* The places of a token in a document, from 0, as index_document has them.  A
\* posting list has the documents with places, in the order of indexing.
Places(doc, token) == {i - 1 : i \in {j \in DOMAIN doc.tokens : doc.tokens[j] = token}}

\* Mutated FoundAt: the term is looked for one place later.
FoundAtOff(docs, id, first, i, term) ==
  LET entries == {d \in DOMAIN docs : docs[d].id = id /\ Places(docs[d], term) # {}}
  IN  entries # {} /\ \E p \in first : p + i \in Places(docs[Min(entries)], term)

\* The i-th term behind the first one, at one of the places of the first, in
\* the first entry of that id.
FoundAt(docs, id, first, i, term) ==
  LET entries == {d \in DOMAIN docs : docs[d].id = id /\ Places(docs[d], term) # {}}
  IN  entries # {} /\ \E p \in first : p + i - 1 \in Places(docs[Min(entries)], term)

\* search_phrase: every later term is where it should be for some place of the
\* first term, not all of them for the same one.
SearchPhrase(docs, terms) ==
  IF terms = <<>> THEN {}
  ELSE {docs[d].id : d \in
          {d \in DOMAIN docs :
             LET first == Places(docs[d], terms[1])
             IN  /\ first # {}
                 /\ \A i \in 2 .. Len(terms) :
                      FoundAt(docs, docs[d].id, first, i, terms[i])}}

-----------------------------------------------------------------------------
(* levenshtein, row by row                                                 *)

NextRow(a, b, i, prev) ==
  LET row[j \in 0 .. Len(b)] ==
        IF j = 0 THEN i
        ELSE Min({prev[j] + 1, row[j - 1] + 1,
                  prev[j - 1] + IF a[i] = b[j] THEN 0 ELSE 1})
  IN  row

Levenshtein(a, b) ==
  IF a = <<>> \/ b = <<>> THEN Len(a) + Len(b)
  ELSE LET rows[i \in 0 .. Len(a)] ==
             IF i = 0 THEN [j \in 0 .. Len(b) |-> j]
             ELSE NextRow(a, b, i, rows[i - 1])
       IN  rows[Len(a)][Len(b)]

-----------------------------------------------------------------------------
Indexed(texts) == [i \in DOMAIN texts |-> [id |-> i, tokens |-> Tokenize(texts[i])]]

\* The pieces of a text between word bounds.
WordBounds(text) ==
  {i \in 0 .. Len(text) : i \in {0, Len(text)} \/ text[i] = Space \/ text[i + 1] = Space}

PiecesOf(text) == {SubSeq(text, i + 1, j) : i, j \in WordBounds(text)}

SideBySide(doc, pair) ==
  \E i \in 1 .. Len(doc.tokens) - 1 : doc.tokens[i] = pair[1] /\ doc.tokens[i + 1] = pair[2]

\* A piece of a text that begins and ends between words is found as a phrase,
\* whatever signs and stop words are in it or around it; and a phrase of two words
\* is found in no document that does not have them side by side.
PhrasesExact(texts) ==
  LET docs == Indexed(texts)
  IN  /\ \A d \in DOMAIN texts : \A p \in PiecesOf(texts[d]) :
           Tokenize(p) # <<>> => d \in SearchPhrase(docs, Tokenize(p))
      /\ \A pair \in {Tokenize(p) : p \in UNION {PiecesOf(texts[d]) : d \in DOMAIN texts}} :
           Len(pair) = 2 =>
             \A d \in DOMAIN docs : d \in SearchPhrase(docs, pair) <=> SideBySide(docs[d], pair)
=============================================================================
