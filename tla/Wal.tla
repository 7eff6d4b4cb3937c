-------------------------------- MODULE Wal --------------------------------
(***************************************************************************)
(* The write-ahead log of a collection: the writer, which appends, and the *)
(* reader (wal.rs).                                                        *)
(*                                                                         *)
(* A file is a sequence of units: a type, a length or a byte is <<n>> (a   *)
(* length is one unit of four bytes), a checksum is <<n, data>>, the       *)
(* number that it reads as and what it is the sum of.  No two data have    *)
(* one checksum here.                                                      *)
(***************************************************************************)
EXTENDS Naturals, Sequences

CONSTANTS
  WalEntries,    \* what may be logged: [type, collection, id, payload]
  SumReadsAs,    \* what a checksum is if it is read as a length or a type
  MaxWalUnits,   \* bound: units of the file
  MaxWalFaults   \* bound: writes that end early, and damaged units

TypeInsert == 1
TypeUpdate == 2
TypeDelete == 3
EntryTypes == {TypeInsert, TypeUpdate, TypeDelete}

ASSUME WalConstants ==
  /\ WalEntries \subseteq [type : EntryTypes, collection : Seq(Nat), id : Seq(Nat),
                            payload : Seq(Nat)]
  /\ SumReadsAs \in Nat

VARIABLES
  walFile,   \* the units on disk
  walWhole,  \* observer: the entries before the first torn or damaged one
  walIntact, \* observer: nothing was torn or damaged so far
  walFaults

walVars == <<walFile, walWhole, walIntact, walFaults>>

-----------------------------------------------------------------------------
(* Entries                                                                 *)

Checksum(units) == <<SumReadsAs, units>>

\* A field begins with its length.
Field(bytes) == <<<<Len(bytes)>>>> \o [i \in DOMAIN bytes |-> <<bytes[i]>>]

\* The type, three fields, and the checksum of all that.
Encode(e) ==
  LET data == <<<<e.type>>>> \o Field(e.collection) \o Field(e.id) \o Field(e.payload)
  IN  Append(data, Checksum(data))

\* The field whose length is at pos, and the place behind it.
FieldAt(units, pos) ==
  LET n == units[pos][1]
  IN  [bytes |-> [i \in 1 .. n |-> units[pos + i][1]], next |-> pos + n + 1]

\* A slice that ends beyond the data panics.
FieldFits(units, pos) ==
  pos <= Len(units) /\ pos + units[pos][1] <= Len(units)

\* Mutated Decode: the checksum is not compared.
DecodeUnchecked(units) ==
  LET collection == FieldAt(units, 2)
      id         == FieldAt(units, collection.next)
      payload    == FieldAt(units, id.next)
      sum        == payload.next
  IN  IF Len(units) < 5 THEN [result |-> "error"]
      ELSE IF units[1][1] \notin EntryTypes THEN [result |-> "error"]
      ELSE IF ~ /\ FieldFits(units, 2)
                /\ FieldFits(units, collection.next)
                /\ FieldFits(units, id.next)
                /\ sum <= Len(units)
        THEN [result |-> "panic"]
      ELSE [result |-> "entry",
            entry  |-> [type       |-> units[1][1],
                        collection |-> collection.bytes,
                        id         |-> id.bytes,
                        payload    |-> payload.bytes]]

Decode(units) ==
  LET collection == FieldAt(units, 2)
      id         == FieldAt(units, collection.next)
      payload    == FieldAt(units, id.next)
      sum        == payload.next
  IN  IF Len(units) < 5 THEN [result |-> "error"]
      ELSE IF units[1][1] \notin EntryTypes THEN [result |-> "error"]
      ELSE IF ~ /\ FieldFits(units, 2)
                /\ FieldFits(units, collection.next)
                /\ FieldFits(units, id.next)
                /\ sum <= Len(units)
        THEN [result |-> "panic"]
      ELSE IF units[sum] # Checksum(SubSeq(units, 1, sum - 1))
        THEN [result |-> "corrupted"]
      ELSE [result |-> "entry",
            entry  |-> [type       |-> units[1][1],
                        collection |-> collection.bytes,
                        id         |-> id.bytes,
                        payload    |-> payload.bytes]]

-----------------------------------------------------------------------------
(* The reader                                                              *)

\* How many units the entry takes that begins at pos: after the type, three
\* times a length and as much as it says, and the checksum.  0: the file ends
\* before the entry does.
SizeAt(file, pos) ==
  LET collection == FieldAt(file, pos + 1)
      id         == FieldAt(file, collection.next)
      payload    == FieldAt(file, id.next)
  IN  IF /\ FieldFits(file, pos + 1)
         /\ FieldFits(file, collection.next)
         /\ FieldFits(file, id.next)
         /\ payload.next <= Len(file)
        THEN payload.next - pos + 1 ELSE 0

\* One turn of the loop of read_all.  The only end that is no error is one
\* between two entries; a checksum that does not fit stops the reader, every
\* other error discards what was read.
ReadNext(file, r) ==
  LET size == SizeAt(file, r.pos)
      d    == Decode(SubSeq(file, r.pos, r.pos + size - 1))
  IN  IF r.result # "reading" THEN r
      ELSE IF r.pos > Len(file) THEN [r EXCEPT !.result = "ok"]
      ELSE IF file[r.pos][1] \notin EntryTypes \/ size = 0
        THEN [r EXCEPT !.result = "error", !.entries = <<>>]
      ELSE CASE d.result = "entry" ->
                  [r EXCEPT !.pos = r.pos + size, !.entries = Append(r.entries, d.entry)]
             [] d.result = "corrupted" -> [r EXCEPT !.result = "ok"]
             [] OTHER -> [r EXCEPT !.result = d.result, !.entries = <<>>]

\* Every turn but the last reads at least one unit.
ReadAll(file) ==
  LET after[k \in 0 .. Len(file) + 1] ==
        IF k = 0 THEN [pos |-> 1, entries |-> <<>>, result |-> "reading"]
        ELSE ReadNext(file, after[k - 1])
  IN  after[Len(file) + 1]

-----------------------------------------------------------------------------
(* The writer                                                              *)

WalInit ==
  /\ walFile = <<>>
  /\ walWhole = <<>>
  /\ walIntact = TRUE
  /\ walFaults = 0

\* WalWriter::write: append and sync.
WalWrite(e) ==
  /\ Len(walFile) + Len(Encode(e)) <= MaxWalUnits
  /\ walFile' = walFile \o Encode(e)
  /\ walWhole' = IF walIntact THEN Append(walWhole, e) ELSE walWhole
  /\ UNCHANGED <<walIntact, walFaults>>

\* write_all fails half way, or the process is killed and opens the log again:
\* a part of the entry is there, and the next one is appended to it.
WalWriteTorn(e) ==
  /\ walFaults < MaxWalFaults
  /\ walFaults' = walFaults + 1
  /\ Len(walFile) + Len(Encode(e)) <= MaxWalUnits
  /\ \E n \in 1 .. Len(Encode(e)) - 1 :
       walFile' = walFile \o SubSeq(Encode(e), 1, n)
  /\ walIntact' = FALSE
  /\ UNCHANGED walWhole

\* How many units the first n entries take.
UnitsOf(entries, n) ==
  LET units[k \in 0 .. Len(entries)] ==
        IF k = 0 THEN 0 ELSE units[k - 1] + Len(Encode(entries[k]))
  IN  units[n]

\* A unit on disk changes, in one of the entries that could be read so far.
WalDamage ==
  /\ walFaults < MaxWalFaults
  /\ walFaults' = walFaults + 1
  /\ \E n \in DOMAIN walWhole, i \in DOMAIN walFile, unit \in 0 .. SumReadsAs :
       /\ UnitsOf(walWhole, n - 1) < i /\ i <= UnitsOf(walWhole, n)
       /\ walFile[i] # <<unit>>
       /\ walFile' = [walFile EXCEPT ![i] = <<unit>>]
       /\ walWhole' = SubSeq(walWhole, 1, n - 1)
  /\ walIntact' = FALSE

WalNext ==
  \/ \E e \in WalEntries : WalWrite(e) \/ WalWriteTorn(e)
  \/ WalDamage

WalSpec == WalInit /\ [][WalNext]_walVars

-----------------------------------------------------------------------------
\* Every intact log is read back entry by entry, and of no log, whatever was
\* torn, appended behind the tear or damaged, does the reader return anything
\* but the entries before the damage: none that was not written, none from
\* behind it.  What it hands to decode never ends in a panic.
WalReadsBack ==
  LET r == ReadAll(walFile)
  IN  /\ r.result \in {"ok", "error"}
      /\ walIntact => r.result = "ok"
      /\ r.result = "ok" => r.entries = walWhole

\* read_all, "Read all valid entries from the WAL / Stops at the first
\* corrupted entry": the entries before the damage are returned.
ReadsValidEntries ==
  LET r == ReadAll(walFile)
  IN  r.result = "ok" /\ r.entries = walWhole
=============================================================================
