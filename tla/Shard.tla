------------------------------- MODULE Shard -------------------------------
(***************************************************************************)
(* The shard router (shard.rs): which shard a document id belongs to, by   *)
(* its hash or, if it is a number, by its place among all numbers, and     *)
(* which shards hold copies of a shard.  A shard's number has the width of *)
(* Half values, an id's number or hash that of their square.               *)
(***************************************************************************)
EXTENDS Integers, FiniteSets

CONSTANT Half  \* the values of a shard's number: 2^32

ASSUME HalfAssumption == Half \in Nat /\ Half >= 2

MaxU64 == Half * Half - 1

VARIABLES
  numShards,   \* ShardConfig.num_shards
  factor,      \* ShardConfig.replication_factor
  ranges,      \* the strategy is Range
  number,      \* the id to route, as a number
  shard        \* where it went

shardVars == <<numShards, factor, ranges, number, shard>>

Shards == 0 .. numShards - 1

HashRoute(hash) == hash % numShards

\* Mutated RangeRoute: without the last shard as the limit.
RangeRouteUnlimited(n) == (n \div (MaxU64 \div numShards)) % Half

\* The remainder of the division goes to the last shard.
RangeRoute(n) ==
  LET quotient == (n \div (MaxU64 \div numShards)) % Half
  IN  IF quotient < numShards - 1 THEN quotient ELSE numShards - 1

\* The i-th copy of a primary's, the primary itself being number 0.
Replica(primary, i) == ((primary + i) % Half) % numShards

Copies == IF factor <= 1 THEN 0 .. 0 ELSE 0 .. factor - 1

-----------------------------------------------------------------------------
ShardInit ==
  /\ numShards \in 1 .. Half - 1
  /\ factor \in 0 .. Half - 1
  /\ ranges \in BOOLEAN
  /\ number = 0
  /\ shard = 0

\* route_by_id.  An id that is no number goes by its hash in either strategy.
RouteById(n) ==
  /\ number' = n
  /\ shard' \in IF ranges THEN {RangeRoute(n), HashRoute(n)} ELSE {HashRoute(n)}
  /\ UNCHANGED <<numShards, factor, ranges>>

ShardNext == \E n \in 0 .. MaxU64 : RouteById(n)

ShardSpec == ShardInit /\ [][ShardNext]_shardVars

-----------------------------------------------------------------------------
RoutesToAShard == shard \in Shards

LargerNotEarlier == \A n \in 0 .. number : RangeRoute(n) <= RangeRoute(number)

CopiesApart ==
  factor <= numShards /\ 2 * numShards <= Half =>
    \A i, j \in Copies :
      /\ Replica(shard, i) \in Shards
      /\ i # j => Replica(shard, i) # Replica(shard, j)
      /\ Replica(shard, 0) = shard

\* Every id has a shard that exists; larger numbers never come into earlier
\* shards, at no end of any range; and copies are on different shards, as long
\* as there are enough of them and their numbers do not overflow.
ShardsExact == RoutesToAShard /\ LargerNotEarlier /\ CopiesApart
=============================================================================
