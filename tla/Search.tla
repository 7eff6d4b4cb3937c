------------------------------- MODULE Search -------------------------------
(***************************************************************************)
(* What a search answers: a query is parsed (parser.rs), evaluated in      *)
(* every segment, and the results are joined by document number and looked *)
(* up (search_executor.rs).  A search reads the segment list once and      *)
(* changes nothing, so it is an operator on the states of Index.           *)
(*                                                                         *)
(* Scores are left out, so hits are sets, and the limit keeps any of them. *)
(* Left out is a fuzzy word at the end of a longer query, whose ~ makes    *)
(* the whole text one fuzzy term.                                          *)
(***************************************************************************)
EXTENDS Index

CONSTANTS
  Queries, \* the queries to consider: sequences of words and operators
  Limit,   \* the limit of the request
  NoDoc    \* the empty document that stands for one that was not found

(***************************************************************************)
(* A token of a query.  Kind "any" is a term, a prefix, a wildcard or a    *)
(* fuzzy term: terms are those of the dictionary it matches.  Kind "field" *)
(* is one of them, but no fuzzy term, behind a field's name and a colon.   *)
(* Kind "all" is a phrase, which is found where all its terms are.         *)
(***************************************************************************)
Words == [kind : {"any", "field", "all"}, terms : SUBSET Terms]
Operators == [kind : {"AND", "OR", "NOT"}, terms : {{}}]
Tokens == Words \cup Operators

ASSUME SearchConstants ==
  Queries \subseteq Seq(Tokens) /\ Limit \in Nat /\ NoDoc \notin Docs

-----------------------------------------------------------------------------
(* Parsing                                                                 *)

\* Places of an operator with something on both sides.
Splits(q, op) == {i \in 2 .. Len(q) - 1 : q[i].kind = op}

Left(q, op) == SubSeq(q, 1, Min(Splits(q, op)) - 1)
Right(q, op) == SubSeq(q, Min(Splits(q, op)) + 1, Len(q))

\* A text in quotes is one phrase, also when they belong to two phrases.
Quoted(q) ==
  /\ \A i \in {1, Len(q)} : q[i].kind = "all"
  /\ Len(q) > 1

\* A lone word, or a word behind the text's first colon: what is before the
\* colon is taken for the field, whatever it is.  Other texts of several words
\* without an operator in place are one term that no dictionary has.
IsWord(q) ==
  \/ Len(q) = 1 /\ q[1] \in Words
  \/ {i \in DOMAIN q : q[i].kind = "field"} = {Len(q)}

\* Mutated Parse: OR is looked for before AND.
ParseOrFirst(q) ==
  IF q = <<>>                       THEN [node |-> "All"]
  ELSE IF Quoted(q)                 THEN [node |-> "Unknown"]
  ELSE IF Splits(q, "OR") # {}      THEN [node |-> "Or",
                                          left |-> Left(q, "OR"),
                                          right |-> Right(q, "OR")]
  ELSE IF Splits(q, "AND") # {}     THEN [node |-> "And",
                                          left |-> Left(q, "AND"),
                                          right |-> Right(q, "AND")]
  ELSE IF Splits(q, "NOT") # {}     THEN [node |-> "AndNot",
                                          left |-> Left(q, "NOT"),
                                          right |-> Right(q, "NOT")]
  ELSE IF IsWord(q)                 THEN [node |-> "Word"]
  ELSE                                   [node |-> "Unknown"]

\* The shapes of a query; the first that applies is taken.
Parse(q) ==
  IF q = <<>>                       THEN [node |-> "All"]
  ELSE IF Quoted(q)                 THEN [node |-> "Unknown"]
  ELSE IF Splits(q, "AND") # {}     THEN [node |-> "And",
                                          left |-> Left(q, "AND"),
                                          right |-> Right(q, "AND")]
  ELSE IF Splits(q, "OR") # {}      THEN [node |-> "Or",
                                          left |-> Left(q, "OR"),
                                          right |-> Right(q, "OR")]
  ELSE IF Splits(q, "NOT") # {}     THEN [node |-> "AndNot",
                                          left |-> Left(q, "NOT"),
                                          right |-> Right(q, "NOT")]
  ELSE IF IsWord(q)                 THEN [node |-> "Word"]
  ELSE                                   [node |-> "Unknown"]

-----------------------------------------------------------------------------
(* Evaluation                                                              *)

EvalWord(seg, word) ==
  LET lists == {seg.postings[t] : t \in word.terms}
  IN  IF word.kind = "all" THEN {n \in UNION lists : \A l \in lists : n \in l}
      ELSE UNION lists

\* Not removes from the results of its own, which are empty: the right side of
\* an AndNot finds nothing, and neither does the whole.  The sides of an operator
\* are shorter than the query, so results for queries up to a length rest on
\* those for shorter ones.
Eval(seg, q) ==
  LET results[n \in 0 .. Len(q)] ==
        [p \in Seq(Tokens) |->
           IF n = 0 THEN {}
           ELSE LET s == Parse(p)
                IN  CASE s.node = "And"  -> results[n - 1][s.left] \cap results[n - 1][s.right]
                      [] s.node = "Or"   -> results[n - 1][s.left] \cup results[n - 1][s.right]
                      [] s.node = "Word" -> EvalWord(seg, Last(p))
                      [] OTHER           -> {}]
  IN  results[Len(q)][q]

\* Results of all segments, joined by document number.
Joined(q) == UNION {Eval(seg, q) : seg \in Range(segments)}

\* The hits a search may answer with: the best ones up to the limit.
Answers(q) ==
  {H \in SUBSET Joined(q) : Cardinality(H) = Min({Limit, Cardinality(Joined(q))})}

\* The first segment that stores a document under the number.
Lookup(n) ==
  LET at == {i \in DOMAIN segments : n \in DOMAIN segments[i].docs}
  IN  IF at = {} THEN NoDoc ELSE segments[Min(at)].docs[n]

Found(hits) == {Lookup(n) : n \in hits}

-----------------------------------------------------------------------------
(* Reference: which documents a query is about                             *)

Satisfies(d, word) ==
  IF word.kind = "all" THEN word.terms # {} /\ word.terms \subseteq TermsOf[d]
  ELSE word.terms \cap TermsOf[d] # {}

WordPlaces(q) == {i \in DOMAIN q : i % 2 = 1}

\* No AND is between the two places.
Together(q, i, j) == \A k \in DOMAIN q : q[k].kind = "AND" => (k < i <=> k < j)

\* A part of a query is taken for one phrase if it begins and ends with one.  A
\* part that reaches to the end begins the query or is behind an AND; any other
\* is the rest of the words up to an AND.
PartsUnquoted(q) ==
  \A i, j \in WordPlaces(q) : i < j /\ q[i].kind = "all" /\ q[j].kind = "all" =>
    /\ j = Len(q) => i # 1 /\ q[i - 1].kind # "AND"
    /\ Together(q, i, j) => j # Len(q) /\ q[j + 1].kind # "AND"

\* A query without NOT and with operators only between words.
WellFormed(q) ==
  /\ Len(q) % 2 = 1
  /\ \A i \in DOMAIN q : IF i % 2 = 1 THEN q[i] \in Words
                                       ELSE q[i].kind \in {"AND", "OR"}
  /\ PartsUnquoted(q)

Plain == {q \in Queries : WellFormed(q)}

\* OR binds stronger than AND: for every word the document satisfies one that no
\* AND divides from it.
Matches(d, q) ==
  \A i \in WordPlaces(q) : \E j \in WordPlaces(q) : Together(q, i, j) /\ Satisfies(d, q[j])

-----------------------------------------------------------------------------
(* Properties                                                              *)

\* A segment that a flush made answers every query without NOT with exactly
\* the documents that satisfy it.  (Flushes number from 0, merges from 1.)
FlushedExact ==
  \A seg \in Range(segments) : 0 \in DOMAIN seg.docs =>
    \A q \in Plain :
      Eval(seg, q) = {n \in DOMAIN seg.docs : Matches(seg.docs[n], q)}

\* No hit stands for nothing: whatever was merged, each number that a search
\* finds in a segment is that of a stored document, so that no answer has the
\* placeholder that the executor makes up for a number it cannot look up.
NoPlaceholders ==
  \A seg \in Range(segments) :
    NoDoc \notin Found(UNION {Eval(seg, q) : q \in Queries})

TermQuery(t) == <<[kind |-> "any", terms |-> {t}]>>

\* The total of a search for one term is never more than the limit or than
\* there are stored copies of documents with the term, and never less than the
\* limit leaves of any one segment's: joining the segments by number may hide
\* hits, but never those of a single segment.
CountsHits ==
  \A t \in Terms : \A hits \in Answers(TermQuery(t)) :
    /\ Cardinality(hits) <= Limit
    /\ Cardinality(hits) <= Cardinality(UNION {{i} \X Holding(segments[i], t)
                                                 : i \in DOMAIN segments})
    /\ \A i \in DOMAIN segments :
         Min({Limit, Cardinality(Holding(segments[i], t))}) <= Cardinality(hits)

\* Each document that a search for a term returns contains the term, as the
\* comments of the executor ("Build lookup map: doc_id -> Document") and of
\* the merge ("Add all terms with remapped doc IDs") say.  The code breaks it:
\* every segment has its own numbers, and a merge mixes them up.
HitsMatch ==
  \A t \in Terms : \A hits \in Answers(TermQuery(t)) :
    \A d \in Found(hits) : d # NoDoc => t \in TermsOf[d]
=============================================================================
