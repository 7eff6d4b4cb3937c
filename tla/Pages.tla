------------------------------- MODULE Pages -------------------------------
(***************************************************************************)
(* The page that search_api answers with, by offset or behind a cursor     *)
(* (main.rs).  The engine has cut what was found to the limit of one page  *)
(* before that (search_executor.rs).  Sums and differences wrap around at  *)
(* the width of an index, as they do in a release build.                   *)
(*                                                                         *)
(* Left out is the sort by a field, which only reorders what was cut.      *)
(***************************************************************************)
EXTENDS Naturals, Sequences, FiniteSets, FiniteSetsExt, SequencesExt

CONSTANT IndexModulus   \* one more than the largest index: 2 ^ 64

ASSUME PagesConstants == IndexModulus \in Nat \ {0}

MaxIndex == IndexModulus - 1

\* Iterator::skip and take.
SkipTake(hits, skipped, taken) ==
  LET rest == SubSeq(hits, skipped + 1, Len(hits))
  IN  SubSeq(rest, 1, Min({taken, Len(rest)}))

PageFrom(hits, start, end) ==
  LET page == SkipTake(hits, start, (IndexModulus + end - start) % IndexModulus)
  IN  [hits   |-> page,
       cursor |-> IF end < Len(hits) /\ page # <<>> THEN {Last(page)} ELSE {}]

PageAt(hits, limit, offset) ==
  PageFrom(hits, offset, Min({(offset + limit) % IndexModulus, Len(hits)}))

\* Mutated PageAfter: the page begins with the cursor's own hit.
PageAfterIncludes(hits, limit, cursor) ==
  LET places == {i \in DOMAIN hits : hits[i] = cursor}
      start  == IF places = {} THEN 0 ELSE Min(places) - 1
  IN  PageFrom(hits, start, Min({(start + limit) % IndexModulus, Len(hits)}))

\* Behind the first hit of that id; a cursor that is no hit's any more leads
\* to the first page.
PageAfter(hits, limit, cursor) ==
  LET places == {i \in DOMAIN hits : hits[i] = cursor}
      start  == IF places = {} THEN 0 ELSE Min(places)
  IN  PageFrom(hits, start, Min({(start + limit) % IndexModulus, Len(hits)}))

\* What the engine returns of all that was found.
Limited(all, limit) == SubSeq(all, 1, Min({limit, Len(all)}))

AnswerAt(all, limit, offset) == PageAt(Limited(all, limit), limit, offset)
AnswerAfter(all, limit, cursor) == PageAfter(Limited(all, limit), limit, cursor)

-----------------------------------------------------------------------------
NoHits == [hits |-> <<>>, cursor |-> {}]

\* The page that offset and limit name.
AskedPage(all, limit, offset) == SubSeq(all, offset + 1, Min({offset + limit, Len(all)}))

\* An answer is the beginning of the page that was asked for, by offset or behind
\* a hit of the first page, and the first page is whole, also where offset and
\* limit overflow.  A cursor, which only such a sum gives, ends: behind it is
\* nothing.
PageSound(all, limit, offset) ==
  LET page == AnswerAt(all, limit, offset)
      behind(cursor) == AnswerAfter(all, limit, cursor)
  IN  /\ IsPrefix(page.hits, AskedPage(all, limit, offset))
      /\ offset = 0 => page.hits = AskedPage(all, limit, 0)
      /\ IsInjective(all) =>
           /\ \A i \in DOMAIN Limited(all, limit) :
                IsPrefix(behind(all[i]).hits, AskedPage(all, limit, i))
           /\ \A c \in page.cursor : behind(c) = NoHits
=============================================================================
