------------------------------ MODULE Metrics ------------------------------
(***************************************************************************)
(* The search metrics (metrics.rs): a counter that handlers raise          *)
(* atomically, and an average that they load, compute and store.  A search *)
(* records its latency twice: in the executor, and after it has been       *)
(* counted in the handler, whose clock began earlier.                      *)
(***************************************************************************)
EXTENDS Naturals

CONSTANTS
  Searches,   \* search requests, each handled once
  Latencies   \* what a search may take, in milliseconds

ASSUME LatencyAssumption == Latencies \subseteq Nat

VARIABLES
  average,    \* avg_search_latency_ms
  counted,    \* search_requests_total
  step,       \* what each search does next
  ms,         \* the latency it records
  loaded,     \* the average it has read
  slowest     \* observer: the largest latency anyone has begun to record

metricsVars == <<average, counted, step, ms, loaded, slowest>>

Steps == {"load_first", "store_first", "count", "load", "store", "done"}

MetricsInit ==
  /\ average = 0
  /\ counted = 0
  /\ step = [s \in Searches |-> "load_first"]
  /\ ms = [s \in Searches |-> 0]
  /\ loaded = [s \in Searches |-> 0]
  /\ slowest = 0

\* record_search_latency, the load ...
Load(s, here, next) ==
  /\ step[s] = here
  /\ \E n \in Latencies :
       /\ n >= ms[s]
       /\ ms' = [ms EXCEPT ![s] = n]
       /\ slowest' = IF n > slowest THEN n ELSE slowest
  /\ loaded' = [loaded EXCEPT ![s] = average]
  /\ step' = [step EXCEPT ![s] = next]
  /\ UNCHANGED <<average, counted>>

\* Mutated Store: the sum is not halved.
StoreSum(s, here, next) ==
  /\ step[s] = here
  /\ average' = loaded[s] + ms[s]
  /\ step' = [step EXCEPT ![s] = next]
  /\ UNCHANGED <<counted, ms, loaded, slowest>>

\* ... and the store, over whatever others have stored since.
Store(s, here, next) ==
  /\ step[s] = here
  /\ average' = (loaded[s] + ms[s]) \div 2
  /\ step' = [step EXCEPT ![s] = next]
  /\ UNCHANGED <<counted, ms, loaded, slowest>>

\* inc_search_requests.
Count(s) ==
  /\ step[s] = "count"
  /\ counted' = counted + 1
  /\ step' = [step EXCEPT ![s] = "load"]
  /\ UNCHANGED <<average, ms, loaded, slowest>>

MetricsNext ==
  \E s \in Searches :
    \/ Load(s, "load_first", "store_first")
    \/ Store(s, "store_first", "count")
    \/ Count(s)
    \/ Load(s, "load", "store")
    \/ Store(s, "store", "done")

MetricsSpec == MetricsInit /\ [][MetricsNext]_metricsVars

-----------------------------------------------------------------------------
MetricsTypeOK ==
  /\ average \in Nat
  /\ counted \in Nat
  /\ step \in [Searches -> Steps]
  /\ ms \in [Searches -> Nat]
  /\ loaded \in [Searches -> Nat]
  /\ slowest \in Nat

\* Lost updates or not, the average never exceeds the slowest
\* search that was recorded.
AverageBounded == average <= slowest

\* What keeps it there: so do the values that searches have loaded.
LoadsBounded == \A s \in Searches : loaded[s] <= slowest /\ ms[s] <= slowest

MetricsInv == MetricsTypeOK /\ AverageBounded /\ LoadsBounded
=============================================================================
