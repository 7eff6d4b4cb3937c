------------------------------ MODULE MCUnits ------------------------------
(***************************************************************************)
(* The parts that run on their own, each on a small instance: the machines *)
(* Index with its searches, SearchCache, Wal, Workers, Metrics, Snapshots, *)
(* Locks, Shard and Client, and the inputs of Algorithms.                  *)
(*                                                                         *)
(* A behaviour is one of one part: the others stay in an initial state.    *)
(***************************************************************************)
EXTENDS Algorithms, Search, SearchCache, Wal, Workers, Metrics, Snapshots, Locks,
        Shard, Client, TLC

CONSTANTS d1, d2, d3, \* documents
          a, b        \* terms

vars == <<part, inputVars, indexVars, cacheVars, walVars, workersVars,
          metricsVars, snapshotVars, locksVars, shardVars, clientVars>>

-----------------------------------------------------------------------------
(* Values of constants                                                     *)

\* An insertion without and one with a payload, whose byte is a type as well,
\* and a deletion.
SmallEntries ==
  {[type |-> TypeInsert, collection |-> <<5>>, id |-> <<2>>, payload |-> <<>>],
   [type |-> TypeInsert, collection |-> <<5>>, id |-> <<2>>, payload |-> <<1>>],
   [type |-> TypeDelete, collection |-> <<5>>, id |-> <<3>>, payload |-> <<>>]}

StopWord == {<<"b">>}

\* Documents of one id.
SmallFile == <<"k", "k">>

\* One document with each term and one with both.
MCTermsOf == (d1 :> {a}) @@ (d2 :> {b}) @@ (d3 :> {a, b})

Term(t) == [kind |-> "any", terms |-> {t}]
FieldWord(t) == [kind |-> "field", terms |-> {t}]
Phrase == [kind |-> "all", terms |-> {a, b}]
Op(o) == [kind |-> o, terms |-> {}]
MCWords == {Term(a), Term(b),
            [kind |-> "any", terms |-> {a, b}],  \* a prefix of both
            Phrase}

\* All queries of up to two words or operators, also with words of a field; those
\* of three whose middle is an operator or a phrase; and longer ones with both
\* operators in both orders.
MCQueries ==
  UNION {[1 .. n -> MCWords \cup Operators] : n \in 0 .. 2}
  \cup UNION {[1 .. n -> {Term(a), FieldWord(b), Phrase} \cup Operators] : n \in 1 .. 2}
  \cup {<<x, m, y>> : x, y \in MCWords \cup {Op("AND")}, m \in {Phrase} \cup Operators}
  \cup {<<x, o, FieldWord(b)>> : x \in {Term(a), FieldWord(a)}, o \in Operators}
  \cup {<<x, o, y, p, z>> : x \in {Term(a), Phrase}, y, z \in {Term(b), Phrase},
                            o, p \in {Op("AND"), Op("OR")}}
  \cup {<<Term(a), Op("NOT"), Term(b), Op("OR"), Term(b)>>}

-----------------------------------------------------------------------------
Init ==
  /\ AlgorithmsInit
  /\ IndexInit
  /\ CacheInit
  /\ WalInit
  /\ WorkersInit
  /\ MetricsInit
  /\ LocksInit
  /\ SnapshotsInit /\ (part # "snapshots" => live = Nothing)
  /\ ShardInit /\ (part # "shards" => numShards = 1 /\ factor = 0 /\ ~ranges)
  /\ ClientInit

Next ==
  /\ UNCHANGED part
  /\ \/ /\ AlgorithmsNext
        /\ UNCHANGED <<indexVars, cacheVars, walVars, workersVars,
                       metricsVars, snapshotVars, locksVars, shardVars,
                       clientVars>>
     \/ /\ part = "segments" /\ IndexNext
        /\ UNCHANGED <<inputVars, cacheVars, walVars, workersVars,
                       metricsVars, snapshotVars, locksVars, shardVars,
                       clientVars>>
     \/ /\ part = "cache" /\ CacheNext
        /\ UNCHANGED <<inputVars, indexVars, walVars, workersVars,
                       metricsVars, snapshotVars, locksVars, shardVars,
                       clientVars>>
     \/ /\ part = "wal" /\ WalNext
        /\ UNCHANGED <<inputVars, indexVars, cacheVars, workersVars,
                       metricsVars, snapshotVars, locksVars, shardVars,
                       clientVars>>
     \/ /\ part = "workers" /\ WorkersNext
        /\ UNCHANGED <<inputVars, indexVars, cacheVars, walVars, metricsVars,
                       snapshotVars, locksVars, shardVars, clientVars>>
     \/ /\ part = "metrics" /\ MetricsNext
        /\ UNCHANGED <<inputVars, indexVars, cacheVars, walVars, workersVars,
                       snapshotVars, locksVars, shardVars, clientVars>>
     \/ /\ part = "snapshots" /\ SnapshotsNext
        /\ UNCHANGED <<inputVars, indexVars, cacheVars, walVars, workersVars,
                       metricsVars, locksVars, shardVars, clientVars>>
     \/ /\ part = "locks" /\ LocksNext
        /\ UNCHANGED <<inputVars, indexVars, cacheVars, walVars, workersVars,
                       metricsVars, snapshotVars, shardVars, clientVars>>
     \/ /\ part = "shards" /\ ShardNext
        /\ UNCHANGED <<inputVars, indexVars, cacheVars, walVars, workersVars,
                       metricsVars, snapshotVars, locksVars, clientVars>>
     \/ /\ part = "client" /\ ClientNext
        /\ UNCHANGED <<inputVars, indexVars, cacheVars, walVars, workersVars,
                       metricsVars, snapshotVars, locksVars, shardVars>>

Spec == Init /\ [][Next]_vars

\* What the parts' schedulers justify, of each part.
FairSpec == Spec /\ WorkersFairness /\ CacheFairness
=============================================================================
