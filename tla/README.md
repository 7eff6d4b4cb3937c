# NitroSearch in TLA+

TLA+ models of NitroSearch, a single-node full-text search server in Rust, with
the TLC runs that check them and TLAPS proofs of what matters most. Every
definition follows the code in `src/`; the file and lines each one models are
in `PROJECT.json` under `map`.

- [The system](#the-system)
- [Modules](#modules)
- [How the models correspond to the
  code](#how-the-models-correspond-to-the-code)
- [Runs](#runs)
- [Disagreements between the code and its
  documentation](#disagreements-between-the-code-and-its-documentation)
- [Proofs](#proofs)
- [What is not modelled](#what-is-not-modelled)
- [Plan](#plan)

## The system

| component | state | operations | hard behaviour |
|---|---|---|---|
| segment manager (`nitro-storage/segment_manager.rs`) | buffer, segment list, next id, one directory per segment | insert into the buffer, flush, add a segment, merge, swap, clean up, load at a start | request threads flush and merge at the same time under separate locks; a kill or an i/o error in the middle of a build or a removal; ids used again after a restart |
| segment files (`segment.rs`, `mmap.rs`) | postings, stored documents, term dictionary, `meta.json` | build, open, look up, delete | files written one after the other into a directory that may hold older files; empty files cannot be mapped |
| server (`nitro-api/main.rs`) and engine (`engine.rs`) | registry of collections, response cache | create, insert, bulk insert, delete, bulk delete, drop, search, get | handlers act on a registry, a buffer and a file in turn, with other handlers in between; checks are stale when used; a drop removes the directory that a creation is about to open |
| document persistence (`persistence.rs`) | `meta.json` and `documents.jsonl` per collection | rewrite on every insert and delete, load at a start | read-modify-write without a lock; truncation before the rewrite |
| snapshots (`persistence.rs`) | a copy of the data directory per name | create, restore | files copied one by one while the server may run; a kill half way |
| write-ahead log (`wal.rs`) | an append-only file | write, read all | a torn entry with others appended behind it; damage; lengths read from damaged data; the server never writes it |
| search executor (`search_executor.rs`) and query parser (`parser.rs`) | none | parse a query, evaluate it per segment, combine, look up, sort | document numbers are per segment; merges renumber; a fixed order among operators |
| response cache (`main.rs`) | answers by query, limit, offset and sort | look up, fill, empty, expire | a search fills the cache after a write has emptied it |
| background workers (`segment_manager.rs`) | two task handles, one shutdown channel | start, stop | both tasks listen to one channel; starts and stops overlap |
| locks (`engine.rs`, `segment_manager.rs`) | five locks of the registry, three of each manager | taken in each operation's own order | circles of waiting threads; readers behind waiting writers |
| word matching (`segment.rs`) and posting list codec (`compression.rs`) | none | wildcards, edit distance, variable-byte and delta coding | matches at the edges of a text, numbers at the edges of their bits |
| pages (`search_api`) | none | cut the hits by offset and limit, or behind a cursor | sums and differences of indices that wrap; the engine has cut the hits to the limit already |
| tokenizer and in-memory index (`tokenizer.rs`, `inverted_index.rs`) | tokens with their places | index, phrase search, edit distance | stop words and signs shift places |
| highlighter (`highlight.rs`) | none | mark the terms in a fragment | occurrences that overlap, touch or leave the window |
| shard router (`shard.rs`) | number of shards, copies, strategy | route an id, list the copies of a shard | quotients cut to 32 bits, sums that wrap |
| metrics (`metrics.rs`) | counters, an average | count, record a latency | the average is loaded, computed and stored in separate steps |
| CLI client (`main.rs`) | where it is in a file, its counts | send each document, up to three times | an answer lost, a try carried out late |
| BM25, bloom filter, schema | mostly none | pure functions | floating point |

Interactions. A handler of `main.rs` calls the engine, which finds the
collection's segment manager and changes its buffer; the insertion that fills
the buffer flushes it, and the flush that leaves too many segments merges some.
The handler then has the persistence manager rewrite `documents.jsonl`, empties
the response cache and replies. Searches read the segment list and the files it
maps. `AppState::new` reads every collection back at a start: its segments
through `SegmentManager::new`, its `documents.jsonl` by inserting every line
again. Nothing else ties the two copies of a document together.

What makes each part correct, in a sentence: the segment manager never loses a
flushed document, serves what is on disk, and keeps each document in one
segment; the files say what the last replies said; an acknowledged request is
not undone by a kill; a dropped collection stays dropped; a search answers with
the documents that satisfy the query, after any merges; the cache answers what
the engine would have answered when the last write was acknowledged; a log never
yields what was not written; every worker that runs can be stopped; no order of
operations ends with everybody waiting; a complete snapshot is restored exactly;
the CLI's report is true of the server.

## Modules

| module | what it is |
|---|---|
| `DocStore` | abstract specification of one collection's storage: document versions are accepted into memory, committed or lost as a whole, durable for good, served once durable |
| `SegmentStore` | the segment manager and its directories, with request threads, kills and i/o errors |
| `SegmentStoreProofs` | types, inductive invariant and safety properties of `SegmentStore`; that it implements `DocStore`; what holds of one request at a time |
| `Node` | the server: handlers, registry, buffers, `meta.json`, `documents.jsonl`, restart |
| `Index` | what the segments of a collection say of their documents: numbers and posting lists, through flushes and merges |
| `Search` | the answers to queries over `Index`: parsing, evaluation per segment, joining, the limit and look-up |
| `SearchCache` | searches and the response cache against the handlers that change what a search finds |
| `SearchCacheProofs` | type correctness and staleness of `SearchCache` |
| `NodeProofs` | what clients may conclude from replies, of collections and of documents in memory |
| `NodeFileProofs` | the types of `Node`; what `documents.jsonl` says with one handler |
| `SearchProofs` | types and frequencies of the segments of `Index`; what a search finds |
| `Matching` | which terms a word of a query matches: prefixes, wildcards, edit distance |
| `Codec` | the bytes of a posting list |
| `Pages` | the page of its hits that a search is answered with |
| `Highlight` | the highlighted fragment of a text |
| `InvertedIndex` | tokens and their places, phrase search, the edit distance by two rows |
| `Algorithms` | the inputs of these five modules, and what each promises of its results |
| `AlgorithmsProofs` | that they keep these promises, for inputs of every length |
| `Wal` | the write-ahead log: entries, writer, reader, torn writes and damage |
| `Workers` | starting and stopping the background tasks |
| `Locks` | the locks that each operation of the engine takes, in order |
| `Snapshots` | snapshots made and restored beside a server, with kills |
| `Metrics`, `Shard`, `Client` | the latency average, the shard router, the `index` command of the CLI |
| `UnitsProofs` | the invariants of `Wal`, `Workers`, `Metrics`, `Shard`, `Client`, `Snapshots` and `Locks` |
| `Recursion` | induction over numbers and recursion along a list, for the proofs |
| `MCSegmentStore`, `MCNode`, `MCUnits` | instances for TLC; `MCUnits` runs `Algorithms` and the machines that touch no other: `Index` with `Search`, `SearchCache`, `Wal`, `Workers`, `Metrics`, `Snapshots`, `Locks`, `Shard`, `Client` |

`Node` and `SegmentStore` meet in the flush: a flush and its merge are one step
in `Node`, many in `SegmentStore`, and `DocStore` is what the second promises
the first. `Index` gives the same flushes and merges their contents, one request
at a time. `SearchCache` abstracts what a search finds to a number that every
change of the segment list raises. `Search` takes the terms that a word matches
as given; `Matching` says which those are, `Pages` what is made of the hits that
the limit leaves, and `Codec` how their numbers are on disk. `Locks` has the
order of locks that the other modules leave out where a step of theirs is one
critical section. `Client` sends to a server of which `Node` says what it does
with an insertion; it takes from there that one may be acknowledged and ignored.
`MCUnits` does not compose: each of its behaviours is one of one part.

## How the models correspond to the code

### SegmentStore

| variable | code |
|---|---|
| `buffer` | `SegmentManager.buffer`, a set of versions of which no two have one id |
| `segments` | `SegmentManager.segments`; a segment is its id, the documents it stores, and whether its terms can be looked up |
| `nextId` | `SegmentManager.next_segment_id` |
| `disk` | the `segment_<id>` directories: each of four files absent, empty, with zero entries, or full |
| `pc`, `batch`, `cand`, `dirId`, `built` | where a request thread is in `flush_buffer`, `maybe_trigger_merge` and `trigger_merge`, with the locals of those functions |
| `up`, `crashes`, `ioErrors` | the process, and the faults so far |

A step of a worker is what the code does between two acquisitions of a lock or
two file-system operations whose order matters: `FlushBegin` (ids, drain),
`FlushDone` (build, open, release the lock), `AddSegment`, `CheckMerge`,
`SelectMerge` (the snapshot), `MergeDone`, `SwapSegments`, `CleanupNext`,
`RemoveDone`, `RemoveRaced`. A build is one step when it completes, and
`Interrupted` gives the states of the directory in which a kill or an i/o error
may leave it, over whatever was in the directory before: some files written, the
next one untouched or cut to nothing. That is all there is as long as each file
fits the 8 kB buffer of its `BufWriter`, which is written out at once; of a longer
file the beginning may be left, which is not modelled. A file operation
that is under way when the process is killed ends in `Halt`, before the
restart. `ReopenManager` is `create_collection` on an open collection, which
puts a new manager in the place of the old one.

The thread that inserts is the one that flushes and merges: the code's
background workers only log.

### Node

| variable | code |
|---|---|
| `open` | `SearchEngine.collections` and the tokenizers and shard routers kept in step with it |
| `managed` | `SearchEngine.segment_managers`, which may lack an open collection |
| `buffer`, `disk[c].segments` | the buffer and the flushed versions of each collection; a flush is one step here |
| `disk[c].meta`, `disk[c].docs` | `meta.json` (absent, empty, full) and `documents.jsonl` (a sequence of lines) |
| `pc`, `req`, `todo`, `item`, `lines`, `pos`, `linked` | each handler: its request, what its loop has left, the lines it read or built, the next one to write, and whether the file it writes is still in the directory |
| `fresh`, `sure`, `fate`, `promise` | the clients: versions not sent, what of a request no overlapping one touches, and what the last reply promised of each document and collection |

`sure`, `fate` and `promise` are the observer's: no action of the server reads
them. After a reply, `fate[c][k]` is the version that it promised, or that the
id is absent, unless an overlapping request touched that id too: then nothing is
promised, since either order may be the one the server took. `promise[c]` does
the same for the collection as such, which only creations and drops touch. So
the properties say what a client may conclude and no more.

A creation is four steps. `CreateCollection` takes the write locks of the
registry and makes the directory, `OpenWal` and `LoadSegments` are the rest of
`SegmentManager::new`, and `SaveCollection` comes after the locks (`RegistryFree`:
no handler gets one of them in between). A drop holds no lock when it removes
the directory, so that it can make the second or third step fail; the code
drops the error, and the collection is open without a manager. Insertions into
it are ignored and answered with success, until it is created again or the
server starts again.

Abstractions, each stated in the module too: a flush is atomic and does not
fail (its failures are `SegmentStore`'s subject); the reading of a file is one
step, its rewriting is one step per line; lines are of equal length; the engine
and the persistence manager share one data directory (the defaults); a request
that finds its collection unknown is not modelled, nor is one whose ids
repeat; with `Recreate = FALSE` clients do not create a collection that exists.

### Index and Search

| variable or operator | code |
|---|---|
| `segments` | the segment list; of each segment the documents by number (`stored.bin`) and the numbers by term (`postings.bin` and `terms.bin`) |
| `Flushed`, `Flush` | the numbering in `flush_buffer`: from 0, in the order in which the hash map is drained, which is any order |
| `Candidates`, `Collected`, `MergedSegment`, `MergeSegments` | the selection in `trigger_merge` (the smallest by `Before`) and the renumbering in `merge_segments`: documents from 1 in the order of the files, postings from 1 by their place in the list `Collected` from the candidates |
| `Parse`, `Eval` | `QueryParser::parse` (the first shape that applies) and `execute_query_on_segment` |
| `Joined`, `Answers`, `Lookup`, `Found` | the parts of `execute_parallel`: joining by number, the cut to the limit, the look-up of each hit, the documents returned |
| `Matches`, `Satisfies` | no code: the reference, what a query without NOT is about |

A query is a sequence of words and operators. A word stands for the terms that
it matches, so that terms, prefixes, wildcards and fuzzy terms are one kind,
those of a field another and phrases the third. Hits are sets: scores are left
out, and so the limit may keep any of the hits (`Answers`). A document may be
flushed more than once, as a start reads `documents.jsonl` into the buffer. A
search is an operator on a state: it reads the segment list once.

What the model shows of queries beyond its properties, as the code has it:
`x NOT y` finds nothing at all, since the results of its right side are empty
before anything is removed from them (`Eval`); several words without an operator
between them are one term, which no dictionary has, unless the last one has the
only colon: then that word is the query, and all before the colon the field
(`IsWord`); a query that begins and ends with quotes is one phrase, whatever is
in between; a field selects nothing. The parts that an operator cuts off are
parsed like queries, so that in `"p q" OR "r s" AND w` what is before the AND is
taken for one phrase. `FlushedExact` is about the queries without these
(`WellFormed`, `PartsUnquoted`). The last exception is one that the proof of
`FlushedExact` brought up: TLC had passed the property without it as long as its
queries with two operators had no phrases.

### SearchCache

| variable | code |
|---|---|
| `version` | the contents of the segment list, raised by a flush, a merge, a creation and a drop |
| `cache` | `AppState.cache`; an answer is the version that was read |
| `pc`, `kind`, `key`, `got`, `todo` | a handler, its request and its locals |
| `made`, `overlapped`, `floor` | the observer's: the last version a write made, whether the cache was emptied since a search read the engine, and the highest version of an acknowledged write |

`overlapped` travels with a cached answer, which is how a property can say which
answers may be old. Every handler is there with the steps that matter to the
cache: the engine call, document by document for a bulk insertion; the merge;
the files, which may fail and end the request with `?` before the cache is
emptied; `invalidate_all`; `Reply`, which leaves nothing of the request. A
creation ends without it. `RegistryFree` is the lock: an insertion holds
`segment_managers` for reading through flush and merge, so that a creation or a
drop waits.

A deletion raises no version, as it reaches the buffer and `documents.jsonl`
only, and an insertion below the threshold raises none, as searches do not look
into the buffer.

### Functions: Matching, Codec, Pages, Highlight, InvertedIndex, Algorithms

Operators on sequences, one per function of the code, compared with references
that are written another way. A loop or a recursion of the code is a function of
the number of its turns, and what one turn does is an operator (`AddPart`,
`PartMatches`, `EncodeNext`, `DecodeNext`, `MergeInto`, `Mark`, `NextLetter`,
`NextRow`), so that a proof can go from turn to turn.

- `Matching`: `PartMatches` has the places from which a part of the pattern and
  those behind it match, which the code tries one by one. `Glob` cuts the text
  into one piece for each letter of the pattern; `EditDistance` is the cheapest
  alignment of the letters. The matrix of `levenshtein_distance` (`segment.rs`)
  and the two rows of `levenshtein` (`inverted_index.rs`) are functions of
  indices.
- `Codec`: what is read back is what was written. The widths, 32 bits in groups
  of 7, are constants. A turn of a loop that has ended changes nothing more, so
  that `MaxBytes` turns write any number and as many turns as bytes read any list.
- `Pages`: `AnswerAt` and `AnswerAfter` are what `search_api` makes of all that
  was found: `Limited`, the cut in the engine, then the page by offset or
  cursor. It is the beginning of the page that was asked for, and for the first
  page all of it, also where sums and differences wrap (`PageSound`). Run
  `pages` shows that other pages are not whole. The modulus of an index is a
  constant.
- `Highlight`: a fragment is a part of the text that ends with its window and
  misses nothing of it, and marks stand where runs of letters of occurrences
  begin and end (`LetterByLetter`). Where it begins the reference leaves open;
  run `highlight` shows that the code begins with the text. Occurrences with one
  beginning are merged at once, to the longest. Letters are of one byte, and
  text and terms in one case.
- `InvertedIndex`: each piece of a text between word bounds is found as a phrase,
  and a phrase of two words only where they are side by side. Letters are
  spaces, signs or others. A posting list is the documents that have `Places` of
  the token, in the order of indexing.

In `Algorithms` a state is an input and a step makes it longer by a letter, a
number or a hit: its behaviours go through all inputs, and the promises are
invariants.

### Wal

`walFile` is a sequence of units: a type, a length or a byte is `<<n>>`, a
checksum is the number it would read as together with its data, so that no two
data have one checksum. `WalWrite` appends; `WalWriteTorn` leaves a proper prefix,
behind which the next write goes on; `WalDamage` changes a unit of an entry that
was readable. `Decode` is `WalEntry::decode`, `ReadNext` one turn of the loop of
`read_all` and `ReadAll` all of them, with an outcome for a slice that ends beyond
the data, which panics. `walWhole` (the entries before the first damage) and
`walIntact` are the observer's.

### Workers, Metrics

A step of a caller is what happens under one lock or in one send: `Start`,
`StopSend`, `TakeMerge`, `StopSendAgain`, `TakeFlush`. Both kinds of task
subscribe to one channel, so a send reaches every task `alive` then. `TaskEnds`
is the task's loop; nothing else of it matters, as it only logs. `DropManager`
is `Drop`. In `Metrics` a step is one atomic load or store; each search records
twice, in the executor and in the handler, the second time with a latency that
is no smaller.

### Snapshots

`live` and `snapshot` map files to what they hold, be it nothing, or a part
(`Torn`). The listing of a directory is a step, and so are the copy and the
removal of each file. A server may run, and write or remove any file, at any
time: the commands are a process of their own and look for no server. `Fail` is
a kill or a call that fails. `still` and `taken` are the observer's: the data
directory when a snapshot was complete, if no server ran meanwhile.

### Locks

An operation is the sequence of the locks it takes and releases
(`CreateCollection`, ..., `FlushBuffer`), read off `engine.rs` and
`segment_manager.rs`; what it holds at its end goes with it. A writer needs a
lock that nobody holds. A reader needs one that no writer holds *or waits for*,
which std allows an implementation and which waits the most. The managers share
one name for each of their three locks, so that the instance has more waiting
than a server with several collections.

### Shard, Client

`Half` stands for 2^32: a shard's number has `Half` values, an id's number or
hash `Half * Half`. The hash is any number. In `Client`, `place` and `attempt`
are the loops of the `index` command; `GiveUp` is its timeout or a broken
connection, after which the server may still carry the try out. `Serve` is
`insert_document_api`: it may answer with an error, also after it indexed the
document, and with success, also when the engine has ignored the document
(dropped behind the handler's check, or a collection without a manager).
`served`, `ignored` and `late` are the observer's.

## Runs

`tlc -workers 2 -config <cfg> <module>` in this directory. `PROJECT.json` lists
each run's properties, and under `mutants`, for every property, a change to a
definition (the operators commented "Mutated ..." above the definitions are
those changes) after which TLC finds that property violated.

| run | instance | what it shows |
|---|---|---|
| `threads` | 2 workers, 3 versions, merge of 2 at 2 segments | no step takes a document out of the served segments; every request ends; what is on disk gets served |
| `crash` | 2 workers, 3 versions, 1 kill | types, the inductive invariant, durability, refinement of `DocStore` |
| `faults` | 1 worker, 4 versions (one without tokens) of 2 documents, batches of 2, merge of 2 at 3 segments, 2 kills, 1 i/o error | directories in use stay intact and durable documents are served, whatever fails; before the first fault, with one request at a time, every document is in one segment, no directory is left over and the number of segments stays below the threshold |
| `overlapping` | 2 workers, no faults | violated: see below |
| `node_serial` | 1 handler, 2 collections, 3 versions, 6 requests, 1 kill | `documents.jsonl` agrees with the replies, and no kill brings a deleted line back |
| `node_races` | 2 handlers, 1 collection, 3 versions, 5 requests, 1 kill | an engine with a manager agrees with the replies; a dropped collection stays dropped; a created one stays, with its manager, unless a drop or another creation overlapped |
| `node_lost` | 1 handler, 4 requests, 1 kill | violated: see below |
| `units` | the parts of `MCUnits`, each on its own: 3 documents with 2 terms in 4 batches of up to 2, merge of 2 at 3 segments, a limit of 2 and some 190 queries; 2 handlers of the cache, 1 key, 3 writes, 5 versions; texts of up to 5 letters, patterns of up to 4, 2 numbers of 6 bits, 4 hits with indices of 4 bits, a log of 21 units with 2 faults, 2 callers and 3 tasks, 2 searches, 2 files with 2 kills, 3 threads with 3 operations, 2-bit shard numbers, a file of 2 documents of one id | a segment that a flush made answers queries without NOT exactly; merges keep document frequencies and give numbers that stand for documents; a total counts no hit twice and hides none of the largest segment but by the limit; what is cached lacks an acknowledged write only after an overlap, and not for ever; the functions agree with their references; no log is read back wrong and none makes the reader panic; no task is out of reach and stopped ones end; the average stays in bounds; a restore is exact; no deadlock; routing stays among the shards; the CLI reports what is so |
| `search_hits` | the segments of `units` | violated: see below |
| `wal_torn` | the log of `units` | violated: see below |
| `pages` | the hits of `units` | violated: see below |
| `highlight` | the texts of `units` | violated: see below |

Why the bounds are enough. Two workers give every pair of overlapping merges and
of racing cleanups; three flushes of one document each make a first merge, a
second one on overlapping candidates and an id to use again after a kill; two
kills allow a half-built directory to be loaded, built upon and left again. Four
versions and batches of two (`faults`) make merges of merged segments.
`MaxSegmentId` is large enough that no run is stopped by it. For the server, a
deletion, an insertion of a second version, a drop and a creation of the same
collection fit in five requests, and two handlers are what a race needs; the
threshold of two makes a flush of a mixed buffer happen. All these bounds are
constants, and the proofs hold for every value of them.

A drop between the steps of a creation takes two of the five requests and
both handlers, and an insertion into what it leaves a third.

For searches, four batches make a merge of two flushed segments and another that
takes a merged one; two terms and three documents tell apart a wrong document, a
missing one and one counted twice, and five tokens are a query with both
operators in either order, between words or phrases; a limit of two is less than
three segments can have together and no more than one can have, so that it cuts
and does not. For the cache, a search, a write that overlaps it and a second
write are the least that leaves an old answer behind and takes it away; the keys
do not depend on each other.

Three letters against four give stars and questions at the start, in the middle,
at the end and twice; six bits in groups of two have three lengths and, as 32
bits in groups of seven, an incomplete or a full last group (`MaxBytes` is
rounded up). Texts of five letters, over two, a space and a sign, have terms
that overlap themselves, touch, contain each other and leave a window of three,
and phrases across stop words. Indices of four bits let every sum of an offset
and a limit overflow within reach, and four hits are cut by small limits and not
by larger ones. 21 units are three entries, one of them torn in the middle of
another two, or two with one damaged. Two callers and three tasks are a start
between a stop's message and its look at the handle, by somebody else. Two files
and two kills are a command killed between files and one killed again after its
repetition began. Three threads are a circle of two, with a third whose wait for
writing keeps readers out. `Half = 4` has every number of shards and of copies
that overflows and that does not. Two documents of one id, each tried three
times, are an order that late tries can undo. All of this is small because the
parts are: what the proofs cover holds for every size.

Deadlock is checked in `SegmentStore`'s runs. It is not in the others: clients
stop after `MaxRequests` or `MaxWrites`, flushes after `MaxFlushes`, inputs have a
largest size, and the parts of `MCUnits` end with their bounds; for the locks,
`NoDeadlock` is an invariant of its own.

Fairness. `FairSpec` of `SegmentStore` assumes weak fairness of each worker's
steps: the threads of the runtime run, a file operation ends, and a lock that
stays free is obtained in the end (std's `RwLock` queues writers). Clients and
restarts are not fair. The liveness properties are that a request that flushes
or merges ends and that a document on disk gets served. `CacheFairness` of
`SearchCache` assumes that handlers which have received a request go on, and
that a cached answer expires (the time to live of 300 seconds; without it
`StaleEnds` is false, which its mutant shows). Nobody has to send a request.
`WorkersFairness` assumes that a stop which has begun goes on and that the
runtime polls a task which can leave its loop; nobody has to stop anything.

## Disagreements between the code and its documentation

- `ReplacesOldSegments` (run `overlapping`). `trigger_merge` takes a snapshot of
  the segment list and no lock until the swap. Two threads that flush at the
  same time merge the same segments; the second swap replaces nothing and adds
  its merged segment beside the first, so that each document is in two served
  segments from then on. Nothing is lost (`SearchNeverLoses`,
  `DurableNeverShrinks` hold in the same instance); counts are wrong.
- `AcknowledgedSurvive` (run `node_lost`). The README of NitroSearch names a
  write-ahead log for crash recovery. The log is opened and never written: a
  bulk insertion is acknowledged when it is in memory, and a kill loses it. A
  kill between the truncation and the rewrite of `documents.jsonl` loses the
  documents inserted on their own as well.
- `HitsMatch` (run `search_hits`). A comment of the executor calls the look-up
  map one from a document's id to the document. The ids are numbers within a
  segment. With two segments, a hit of the second is answered with a document of
  the first that need not have the term; a merge mixes numbers up for good,
  although "remapped doc IDs" and "maintain order" stand above its loop. What
  does hold is in run `units`: one flushed segment is exact, frequencies
  survive, nothing is invented or counted twice.
- `ReadsValidEntries` (run `wal_torn`). The comment of `read_all` says that it
  reads all valid entries and stops at the first corrupted one. It does so if an
  entry has a wrong checksum. A log that ends inside an entry, as a kill in the
  middle of a write leaves it, makes it return an error with none of the
  entries. What does hold is in run `units`: what it returns was written, and it
  returns all of an intact log.
- `PagesAsAsked` (run `pages`). The README of NitroSearch has an example of
  pagination by `limit` and `offset`, and `search_api` gives cursors. But it hands
  `limit` to the engine, which cuts the hits to it before `offset` of them are
  skipped: a page from an offset of `limit` on is empty, one from a smaller offset
  lacks as many hits as it skips, and there is no cursor but where
  `offset + limit` overflows, which leads to nothing. What does hold is in run
  `units` (`PagesSound`).
- `FragmentBounded` (run `highlight`). `highlight_text` computes a window of
  `fragment_size` around the first match ("Find the best fragment window") and
  then copies from the text's beginning, so that a late match brings all before
  it along. What does hold is in run `units` (`HighlightMarks`).

Not runs, but found while modelling, as the code has it:

- Searches. The README's search follows a bulk insertion of three documents,
  which no search finds before the buffer holds 10,000. Its example
  `sort=price:asc` is read as a field of that name, since the code expects
  `-price` for descending. `title:a?` is a term with a question mark, as only a
  star makes a pattern; `*a*` is a prefix that contains a star.
- Collections without a manager. A creation that a drop overlaps may leave one
  (see `Node`); every insertion into it is acknowledged, written to
  `documents.jsonl` if its directory is back, and found by no search before the
  next start. `MemoryMatchesReplies` excepts such collections; `CreatedStays`
  says that they need an overlap.
- Pages. A cursor that is no hit's leads to the first page. `total` is what the
  limit left, not what was found. A listing of flushed documents has
  placeholders named by number.
- Highlighting. Fuzzy matches are not marked.
- Phrases. `search_phrase` lets each later term match another occurrence of the
  first one, so that phrases of three words can be found that are not there.
- Workers. `stop_merge_worker` ends the flush task as well, whose handle stays:
  `start_flush_worker` then says that it runs. No program path starts either.
- Metrics. A latency is recorded twice per search, a search answered by the
  cache is not counted in the total, and `inc_requests`, `inc_index` and
  `inc_errors` have no caller.
- Snapshots. A killed creation leaves a part of a snapshot, which a restore
  takes for one after it has emptied the data directory. One that is made while
  the server runs may mix files of different times. The commands use `./data`
  whatever the server uses.
- Shards. No shards at all divide by zero; more copies than shards repeat
  shards; "consistent hashing" is the remainder of the hash.
- The CLI. A try that was given up can overwrite a later document of the same
  id. Its `create`, repeated after a lost answer, empties the buffer of the
  collection (`Recreate` in `Node`).

## Proofs

`tlapm <module>.tla` for each of `SegmentStoreProofs`, `NodeProofs`,
`NodeFileProofs`, `SearchProofs`, `SearchCacheProofs`, `UnitsProofs`,
`AlgorithmsProofs` and `Recursion`. The theorems hold for any sets of documents,
ids, terms, queries, workers, handlers, callers, files and threads, inputs of
any length, any widths and thresholds and any number of faults. They assume only
what the modules assume of their constants:

- `KeyOf` maps versions to ids, and bounds are natural numbers;
- a merge takes at least two segments and begins at two or more
  (`MergePolicyAssumption`, `IndexConstants`; the defaults of `MergePolicy` are 5
  and 10);
- names and marks that mean something else are not ids, versions, files or
  tasks (`NamesAssumption`, `FileAssumption`, `NoTaskAssumption`,
  `ContentAssumption`, `SearchConstants`);
- a document in `Index` has a term (one without tokens is `SegmentStore`'s
  subject), `Half` is at least 2, and the sizes and types of a log's entries are
  numbers (`WalConstants`);
- widths of numbers are positive (`CodecConstants`, `PagesConstants`), fragment
  sizes natural numbers (`HighlightConstants`).

Some theorems say of themselves which instances they are about: `~Recreate`
(clients do not create a collection again), `OneAtATime` (one request thread in
`SegmentStore`) and `OneHandler` (one in `Node`). Without them the properties are
false, as the code is: overlapping merges put a document in two segments (run
`overlapping`), and two handlers overwrite each other's `documents.jsonl`.

| theorem | states |
|---|---|
| `TypeCorrect` | `Spec => []TypeOK` |
| `InvariantHolds` | `Spec => []IInv` |
| `HeldDirectoriesIntact` | `Spec => []HeldIntact` |
| `DurabilityHolds` | `Spec => DurableNeverShrinks` |
| `SearchHolds` | `Spec => SearchNeverLoses` |
| `DurableIsServedHolds` | `Spec => []DurableIsServed` |
| `RefinementInvariant` | `Spec => []RInv` |
| `Refines` | `Spec => ImplementsDocStore` |
| `SerialInvariant` | `OneAtATime /\ Spec => []SerialInv` |
| `OneSegmentPerDocumentHolds` | `OneAtATime /\ Spec => []OneSegmentPerDocument` |
| `NoLeftoversHolds` | `OneAtATime /\ Spec => []NoLeftovers` |
| `SegmentCountBoundedHolds` | `OneAtATime /\ Spec => []SegmentCountBounded` |
| `CacheTypesHold` | `CacheSpec => []CacheTypeOK` (`SearchCache`) |
| `StaleOnlyByOverlapHolds` | `CacheSpec => []StaleOnlyByOverlap` (`SearchCache`) |
| `PromisesInvariant` | `Spec => []PromiseInv` (`Node`) |
| `DroppedStaysDroppedHolds` | `Spec => []DroppedStaysDropped` (`Node`) |
| `CreatedStaysHolds` | `Spec => []CreatedStays` (`Node`) |
| `MemoryMatchesRepliesHolds` | `~Recreate /\ Spec => []MemoryMatchesReplies` (`Node`) |
| `NodeTypes` | `Spec => []NodeTypeOK` (`Node`) |
| `NoResurrectionHolds` | `OneHandler /\ Spec => []NoResurrection` (`Node`) |
| `FileMatchesRepliesHolds` | `OneHandler /\ Spec => []FileMatchesReplies` (`Node`) |
| `IndexInvariant` | `IndexSpec => []IndexInv` (`Index`) |
| `IndexTypes` | `IndexSpec => []IndexTypeOK` (`Index`) |
| `FrequencyKeptHolds` | `IndexSpec => []FrequencyKept` (`Index`) |
| `NoPlaceholdersHolds` | `IndexSpec => []NoPlaceholders` (`Search`) |
| `CountsHitsHolds` | `IndexSpec => []CountsHits` (`Search`) |
| `FlushedExactHolds` | `IndexSpec => []FlushedExact` (`Search`) |
| `WalReadsBackHolds` | `WalSpec => []WalReadsBack` |
| `AlwaysTyped` | `AlgorithmsSpec => []InputsTyped` |
| `PagesAlwaysSound` | `AlgorithmsSpec => []PagesSound` |
| `PostingsAlwaysReadBack` | `AlgorithmsSpec => []PostingsReadBack` |
| `DistancesAlwaysExact` | `AlgorithmsSpec => []DistanceExact` |
| `WordsAlwaysExact` | `AlgorithmsSpec => []WordsExact` |
| `PhrasesAlwaysFound` | `AlgorithmsSpec => []PhrasesFound` |
| `HighlightAlwaysMarks` | `AlgorithmsSpec => []HighlightMarks` |
| `NoDeadlockHolds` | `LocksSpec => []NoDeadlock` (`LocksTypesHold`: its types) |
| `RestoreIsExact` | `SnapshotsSpec => RestoreExact` (`SnapshotsInvariant`: its invariant) |
| `NoOrphansHolds` | `WorkersSpec => []NoOrphans` |
| `AverageBoundedHolds` | `MetricsSpec => []AverageBounded` |
| `ShardsExactHolds` | `ShardSpec => []ShardsExact` |
| `ReportsTrueHolds` | `ClientSpec => []ReportsTrue` |

The argument. That a cleanup never removes the last copy of a document is not
inductive. `IInv` says why it holds: a directory under construction has one
owner and cannot be opened (`OwnersApart`, `BuildsUnopenable`), a built segment
has the documents of its candidates (`BuiltMatches`), ids not given out are not
in use (`IdsBelowNext`), the candidates of every merge under way - also of one
whose candidates another merge has replaced - are covered by what is served
(`CandidatesCovered`), what a cleanup removes is served no longer
(`CleanupApart`), and after a kill in the middle of a removal the documents
being removed are in some other directory (`KilledRemovalCovered`). The last
conjunct is needed because the kill empties the segment list that covered them
until then. TLC checks the invariant in run `crash`.

The refinement maps the abstract memory to the buffer and the batches drained
from it, the durable documents to what `load_segments` would find, and the
served ones to the segment list. `RInv` adds that only the holder of the buffer
lock has a batch (`BatchesApart`), that nothing anywhere is a version not yet
submitted (`SubmittedOnce`), and that no directory, complete or not, holds what
is still in memory (`MemoryApart`). A build that an i/o error or a kill stops
maps to `Lose` or `Resurface`: old files of the directory may become readable
again, but none of what is in memory. An overlapping swap, a cleanup and a
removal are stutters or `Publish`.

`DurableIsServed` holds from one step to the next by what `IInv` says of the
directories: only the steps that publish a segment, build one or remove one
change its two sides.

Of one request at a time without a fault, `SerialInv` says more: a directory that
can be opened and is not in the list belongs to the request under way
(`HeldComplete`, `LeftoversKnown`), no two segments have a document in common
(`SegmentsApart`), the candidates of a merge are in the list until it replaces
them (`CandidatesServed`), and a flush adds one segment to a list that is below
the threshold (`CountKept`), from which a merge takes at least two. The three
properties follow.

The theorems of `SearchCacheProofs` hold for any handlers, keys and bounds. The
staleness of what is cached depends on the searches about to cache something:
`FillsCurrent` says that such a search has every acknowledged write unless the
cache was emptied since it read the engine. The step that matters is
`Invalidate`, which acknowledges and empties in one: afterwards nothing is cached
and every search under way is marked. `TodoLeft` (an insertion under way has a
document left) is what the types need.

`NodeProofs`. What replies promise of a collection is not inductive, as the
handler that will reply is in the middle of its work. `PromiseInv` says of every
handler where it may be with its request (`Places`), that what it is `sure` of
no handler beside it touches (`Overlap`), and what of the registry and the
directory its reply will rest on (`Promises`): a drop that is sure of its
collection has closed it, a creation that is sure has its directory, so that
neither opening the log nor loading can fail for it, and then its manager. A
handler that loses certainty to another one stays without. The steps of a
handler are of two kinds, those that go on with the request and those that end
it (`Stays`, `Ends`), and each kind keeps the first parts in one lemma; what
remains is what each action does to the disk and the registry.

For documents, `MemoryInv` adds that one handler at most creates a collection
and none that is open (`OneCreation`), that nothing is promised of an id under
way (`Fates`), and what a handler has done to the engine so far (`Progress`):
what an insertion has taken off its list is stored if the collection has a
manager, what a deletion has is not in the buffer. It needs `~Recreate`, since a
creation of an open collection empties its buffer, and ends with the first kill,
as the property does: what a kill loses is in run `node_lost`.

`NodeFileProofs`. The types of `Node` need the positions of the handlers
(`Places`), since what a variable of a handler holds depends on where it is.
What the file says is `FileInv`: no line contradicts a reply, no two lines have
one id, and no line is a hole (`Truthful`); until the first kill, every
acknowledged document that was not inserted in bulk has its line, unless the
collection's file is being rewritten (`Complete`). While it is, the handler has
such a list in hand, the file is a beginning of it, and the list already shows
what the handler is going to promise (`RewriteOK`). A kill in the middle leaves a
beginning of a truthful list, which is truthful: that is `NoResurrection`.
`OnlyRun` and the lemmas behind it say what the filtering of a list keeps.

`SearchProofs`. A segment is `Sound` if each of its lists has numbers of its own
documents, as many as documents have the term, and before any merge the numbers
of exactly these. `IndexInv` adds that there are no more copies of documents
than flushes have made, which bounds the numbers. A flush numbers from 0 and
lists what it has numbered. A merge keeps the counts, as the pieces that
`Collected` joins and those that `MergedSegment` numbers have the same lengths,
although it does not keep which number is whose (run `search_hits`).
`NoPlaceholders` and `CountsHits` follow from the lists being within the
documents, by induction on the length of the query for the first; for the
second, a cut to the limit of a set that contains a segment's has at least what
the limit leaves of that. `FlushedExact` goes by the same induction: the first
AND of a query divides `Matches` in two conjuncts, the first OR of one without
AND in two disjuncts, and the parts are well-formed queries again because of
`PartsUnquoted`.

The log (`UnitsProofs`). Decoding inverts encoding (`EncodedDecodes`), and an
entry that is at some place of the file is read from there (`WholeEntry`,
`ReadsOne`). `WalInv` says that the entries of `walWhole` stand at the front of
the file one behind the other, that the file ends there if it is intact, and
that otherwise what follows is `Unreadable`: each checksum behind the place of
the damage is of fewer units than lie between, or of as many others. So nothing
can be decoded from there, wherever the lengths in the damaged data send the
reader, and `ReadAll` ends with just those entries or with an error. A torn
write leaves its beginning, which has no checksum, and later entries have
checksums of their own data only.

`Recursion`. Theorems of the library about recursive definitions have an operator
as parameter, which the provers cannot instantiate. The lemmas here say the same
of sets and functions: a set that has 0 and the successors of its members has
every natural number, and a function that is determined step by step exists.
With them the proofs reach what is recursive in the models (`Only` and `Loaded` of
`Node`, `Collected` and `Retained` of `Index`, `Eval`, `UnitsOf` and `ReadAll` of
`Wal`, every loop of the functions), which are functions on natural numbers for
this reason. A property of the n-th value is proved by induction on n over the
set of the numbers that have it.

`AlgorithmsProofs`. The invariants of `Algorithms` hold of every input of the
right type (`InputsTyped`), so each theorem follows from a lemma about the
functions, and each of these from an invariant of a loop.

- Pages. Sums and differences wrap by lemmas of their own (`Wraps`, `WrapsBack`):
  an overflowed end lies before the start, the difference overflows back to the
  limit, and the page is what it would be without (`PageIs`). Of at most `limit`
  hits it is all of them behind the start (`AnswerIs`), which is the beginning of
  the page asked for (`LimitedPage`). A cursor is the last of the hits, so nothing
  is behind it.
- Posting lists. After k turns of the encoder, what is written and what is left
  make up the number, and what is left, times `Base` for each byte written, is no
  more than it (`EncodesOne`): `MaxBytes` turns are enough, also if the last
  group is incomplete. The decoder sums the same digits back (`VarintReads`) and
  stops at the first byte without a mark, whatever follows (`ReadsBackOne`);
  differences that wrapped wrap back (`DeltaFacts`, `DecodesOne`).
- Edit distances. A cheapest alignment of two beginnings pairs their last
  letters, or leaves one of them alone (`LastLetters`): by taking the pair away
  or adding it (`PairRemoved`, `PairAdded`) its cost is the least of the three
  entries before it. The matrix follows by induction on the sum of the indices
  (`MatrixCosts`), and the rows are the matrix's (`RowsMatrix`).
- Words. `Leads` says that steps, each of a relation of its own, lead from one
  place of the text to another. Cutting a text for a glob is a way from its
  beginning to its end, letter by letter of the pattern (`GlobLeads`); the
  compiled parts lead to the same places, as a letter that makes a literal
  longer is one more step of it (`PatternCompiled`, `PartsMatched`). Words
  without a star and prefixes are globs with one step per letter
  (`TermsAreGlobs`, `PrefixesAreGlobs`).
- Phrases. The tokens of a text are those before a word bound and those behind
  it (`ReadBehind`, `TokensOfRest`), so that a piece between two bounds has a
  run of the text's tokens, in whose places `SearchPhrase` finds it
  (`PieceFound`). For two words, the one place of the second makes the two sides
  by side (`PairFound`), which for longer phrases would be false.
- Highlighting. The merged intervals cover the letters of occurrences, are in
  order and do not touch (`MergedIs`, `CoverIs`). What is marked after some of
  them is what `LetterByLetter` has up to there (`MarkedOn`), and so to the end
  of the window.

`UnitsProofs`. `NoOrphans` is inductive with the types. `AverageBounded` needs
`LoadsBounded`: what searches have loaded is bounded too. `ShardsExact` rests on
lemmas about quotients (the range of a shard is larger than `Half`, so that no
quotient by it loses bits, and a larger number has no smaller quotient) and
remainders (two different copies do not fall together). `ReportsTrue` needs that
until a try is late, the server has no other than the one the client waits for
(`InOrder`). For `RestoreExact`, the invariant says, while a command runs, which
files are already as they will be: those no longer on its list; `SnapshotKept` (a
complete snapshot stays) is the part that the restore rests on. `NoDeadlock`
rests on a ranking of the locks: every operation takes a lock only while all that
it holds comes before it (`IsProgram`). A thread that cannot go on waits for a
lock that somebody holds, maybe behind a writer who waits for it as well
(`Blocked`). So if nobody could go on, every thread would wait for a lock whose
holder waits for a later one, and there is a last one.

Model-checked only: the liveness properties `RequestsEnd`, `DurableGetsServed`,
`StaleEnds` and `StopsEnd`, since TLAPS does not prove liveness under fairness.
Every invariant and every action property that a passing run checks has a
theorem.

## What is not modelled

- Loss of the page cache at a power failure: segment files are never synced, and
  nothing could be promised. Kills of the process only.
- BM25 and with it scores and the order of hits: floating point. Facets and the
  sorting of a page by a field: they order what was found.
- The bytes of `stored.bin` and `terms.bin`: a file is what it stores, or empty.
  A file of more than the 8 kB of a `BufWriter` may be left with its beginning,
  which opens where an empty file does not.
- Letters of more than one byte, their case and classes. The wildcard matcher
  steps by bytes: a question takes one byte of a longer letter, and a slice that
  begins inside one panics; the highlighter looks for matches in a lower-case
  copy, whose places differ where a letter's lower case has another length. The
  stemmer.
- A fuzzy word within a longer query, whose `~` is found before the operators;
  the fuzzy search over all terms of the in-memory index.
- `create` and `search` of the CLI, each one request that is repeated as in
  `Client`; the delays between its tries.
- The handlers that only read (`get`, `list`, `health`, `metrics`), but for
  their locks.
- 64-bit variants of the codec, filters of a query, the bloom filter, rate
  limiter and key check, which no program path uses; `storage_engine.rs`, which
  no module declares.
- Segment-level deletes: nothing in the program marks a stored document deleted.
- HTTP, logging, configuration, build and install scripts.

## Plan

In this order, most important first; done ones are struck.

1. ~~`DocStore`, `SegmentStore`: storage, with proofs.~~
2. ~~`Node`: handlers and document files.~~
3. ~~`SearchCache`: searches and the response cache, with proofs.~~
4. ~~`Index`, `Search`, `Matching`, `Codec`: what searches find.~~
5. ~~`Wal`: the reader against torn and damaged entries.~~
6. ~~`Workers`: start and stop over one shutdown channel, with a proof.~~
7. ~~`Shard`, `Metrics`, `Locks`, with proofs.~~
8. ~~`Snapshots` beside a server, `Client` with its retries, with proofs;
   `Pages`, `Highlight`, `InvertedIndex`.~~
9. ~~Proofs about `Node`: `DroppedStaysDropped`, `CreatedStays`,
   `MemoryMatchesReplies`.~~
10. ~~Proofs of `OneSegmentPerDocument`, `NoLeftovers` and `SegmentCountBounded`
    for one worker and no fault; `DurableIsServed`.~~
11. ~~Proofs about `documents.jsonl` (`NoResurrection`, `FileMatchesReplies`),
    about `Index` and `Search`, and about `Wal`.~~
12. ~~Proofs about the functions of `Codec`, `Pages`, `Matching`, `Highlight` and
    `InvertedIndex`.~~

Left for later: the order of scores and the facets, which need a model of
floating point or of its rounding; the deletion of documents from segments, once
the program has it.
