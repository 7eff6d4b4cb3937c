----------------------------- MODULE Snapshots -----------------------------
(***************************************************************************)
(* The snapshot commands (persistence.rs): they copy the files of the data *)
(* directory to snapshots/<name> and back, in a process of their own,      *)
(* while the server runs or not.  One name, and a step per file; the       *)
(* listing of the files to remove or to copy is one step.                  *)
(***************************************************************************)
EXTENDS Naturals, FiniteSets

CONSTANTS
  Paths,       \* files of collections, relative to the data directory
  Data,        \* what a file may hold
  Absent,      \* no file there
  Torn,        \* a file that a killed copy has left
  MaxKills     \* bound: commands that are killed or fail

ASSUME ContentAssumption == Absent # Torn /\ {Absent, Torn} \cap Data = {}
ASSUME KillAssumption == MaxKills \in Nat

VARIABLES
  live,       \* the data directory without snapshots/
  snapshot,   \* snapshots/<name>
  exists,     \* that directory exists
  serving,    \* the server runs
  command,    \* what the command is doing
  listed,     \* the files it has yet to remove or to copy
  still,      \* observer: no server has run since the command began
  taken,      \* observer: live when the snapshot was begun, if it is complete
              \* and no server ran meanwhile
  kills

snapshotVars ==
  <<live, snapshot, exists, serving, command, listed, still, taken, kills>>

Content == Data \cup {Absent, Torn}
Trees   == [Paths -> Content]
Nothing == [p \in Paths |-> Absent]
Present(tree) == {p \in Paths : tree[p] # Absent}

\* No promise about the snapshot.
NotTaken == {}

Commands == {"none", "remove", "copy", "clear", "restore"}

SnapshotsInit ==
  /\ live \in [Paths -> Data \cup {Absent}]
  /\ snapshot = Nothing
  /\ exists = FALSE
  /\ serving = FALSE
  /\ command = "none"
  /\ listed = {}
  /\ still = TRUE
  /\ taken = NotTaken
  /\ kills = 0

-----------------------------------------------------------------------------
(* The server                                                              *)

ServerStarts ==
  /\ ~serving
  /\ serving' = TRUE
  /\ still' = FALSE
  /\ UNCHANGED <<live, snapshot, exists, command, listed, taken, kills>>

ServerStops ==
  /\ serving
  /\ serving' = FALSE
  /\ UNCHANGED <<live, snapshot, exists, command, listed, still, taken, kills>>

\* Any file is written, made or removed.
ServerWrites(p, d) ==
  /\ serving
  /\ live' = [live EXCEPT ![p] = d]
  /\ UNCHANGED <<snapshot, exists, serving, command, listed, still, taken, kills>>

-----------------------------------------------------------------------------
(* create_snapshot                                                         *)

\* An older snapshot of that name is removed first.
CreateBegin ==
  /\ command = "none"
  /\ command' = "remove"
  /\ listed' = Present(snapshot)
  /\ still' = ~serving
  /\ taken' = NotTaken
  /\ UNCHANGED <<live, snapshot, exists, serving, kills>>

RemoveNext(p) ==
  /\ command = "remove"
  /\ p \in listed
  /\ snapshot' = [snapshot EXCEPT ![p] = Absent]
  /\ listed' = listed \ {p}
  /\ UNCHANGED <<live, exists, serving, command, still, taken, kills>>

CopyBegin ==
  /\ command = "remove"
  /\ listed = {}
  /\ command' = "copy"
  /\ exists' = TRUE
  /\ listed' = Present(live)
  /\ UNCHANGED <<live, snapshot, serving, still, taken, kills>>

\* A file that the server has removed meanwhile cannot be copied (Fail).
CopyNext(p) ==
  /\ command = "copy"
  /\ p \in listed
  /\ live[p] # Absent
  /\ snapshot' = [snapshot EXCEPT ![p] = live[p]]
  /\ listed' = listed \ {p}
  /\ UNCHANGED <<live, exists, serving, command, still, taken, kills>>

CopyDone ==
  /\ command = "copy"
  /\ listed = {}
  /\ command' = "none"
  /\ taken' = IF still THEN {live} ELSE NotTaken
  /\ UNCHANGED <<live, snapshot, exists, serving, listed, still, kills>>

-----------------------------------------------------------------------------
(* restore_snapshot                                                        *)

\* Without a snapshot nothing is touched.
RestoreBegin ==
  /\ command = "none"
  /\ exists
  /\ command' = "clear"
  /\ listed' = Present(live)
  /\ still' = ~serving
  /\ UNCHANGED <<live, snapshot, exists, serving, taken, kills>>

ClearNext(p) ==
  /\ command = "clear"
  /\ p \in listed
  /\ live' = [live EXCEPT ![p] = Absent]
  /\ listed' = listed \ {p}
  /\ UNCHANGED <<snapshot, exists, serving, command, still, taken, kills>>

\* Mutated ClearDone: the files are copied over what is there.
ClearDoneAnyway ==
  /\ command = "clear"
  /\ command' = "restore"
  /\ listed' = Present(snapshot)
  /\ UNCHANGED <<live, snapshot, exists, serving, still, taken, kills>>

ClearDone ==
  /\ command = "clear"
  /\ listed = {}
  /\ command' = "restore"
  /\ listed' = Present(snapshot)
  /\ UNCHANGED <<live, snapshot, exists, serving, still, taken, kills>>

RestoreNext(p) ==
  /\ command = "restore"
  /\ p \in listed
  /\ live' = [live EXCEPT ![p] = snapshot[p]]
  /\ listed' = listed \ {p}
  /\ UNCHANGED <<snapshot, exists, serving, command, still, taken, kills>>

RestoreDone ==
  /\ command = "restore"
  /\ listed = {}
  /\ command' = "none"
  /\ UNCHANGED <<live, snapshot, exists, serving, listed, still, taken, kills>>

-----------------------------------------------------------------------------
\* The command is killed, or a call of it fails: the file it is copying is
\* there in part.
Fail ==
  /\ command # "none"
  /\ kills < MaxKills
  /\ kills' = kills + 1
  /\ command' = "none"
  /\ listed' = {}
  /\ \/ UNCHANGED <<live, snapshot>>
     \/ /\ command = "copy"
        /\ \E p \in listed : snapshot' = [snapshot EXCEPT ![p] = Torn]
        /\ UNCHANGED live
     \/ /\ command = "restore"
        /\ \E p \in listed : live' = [live EXCEPT ![p] = Torn]
        /\ UNCHANGED snapshot
  \* the directory of the old snapshot is gone, or that of the new one is made
  /\ exists' \in IF command = "remove" /\ listed = {} THEN {exists, FALSE} ELSE {exists}
  /\ UNCHANGED <<serving, still, taken>>

CommandStep ==
  \/ CopyBegin \/ CopyDone \/ ClearDone \/ RestoreDone
  \/ \E p \in Paths : RemoveNext(p) \/ CopyNext(p) \/ ClearNext(p) \/ RestoreNext(p)

SnapshotsNext ==
  \/ ServerStarts \/ ServerStops
  \/ \E p \in Paths, d \in Data \cup {Absent} : ServerWrites(p, d)
  \/ CreateBegin \/ RestoreBegin
  \/ CommandStep
  \/ Fail

SnapshotsSpec == SnapshotsInit /\ [][SnapshotsNext]_snapshotVars

-----------------------------------------------------------------------------
SnapshotsTypeOK ==
  /\ live \in Trees
  /\ snapshot \in Trees
  /\ {exists, serving, still} \subseteq BOOLEAN
  /\ command \in Commands
  /\ listed \subseteq Paths
  /\ taken \subseteq Trees
  /\ kills \in 0 .. MaxKills

\* A complete snapshot of a stopped server stays what the data directory was,
\* whatever is done to that afterwards, restored from or killed half way ...
SnapshotKept == taken # NotTaken => snapshot \in taken

\* ... and a restore that ends, also one that repeats a killed one, with no
\* server running meanwhile, brings back exactly that: no file is missing, torn
\* or left over.
RestoreExact ==
  [][RestoreDone /\ still /\ taken # NotTaken => live \in taken]_snapshotVars

=============================================================================
