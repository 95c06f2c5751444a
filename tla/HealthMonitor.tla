--------------------------- MODULE HealthMonitor ---------------------------
(***************************************************************************)
(* envd-proxy's health monitor (internal/dataplane/health.go).  A pass     *)
(* lists the routes, then probes each target of the list in turn; the      *)
(* table may change between the listing, a probe and what the monitor does *)
(* about its result.                                                       *)
(***************************************************************************)
EXTENDS RouteRegistry, Naturals

CONSTANT FailThreshold   \* consecutive failures that evict a route

ASSUME ThresholdIsPositive == FailThreshold \in Nat \ {0}
ASSUME NoVerdictIsNone == NoTarget \notin Sandboxes

VARIABLES
  round,      \* the listed targets still to be probed in this pass
  verdict,    \* the probe whose result has not been acted upon
  failures    \* sandbox -> consecutive failures

monitorVars == <<round, verdict, failures>>

NoVerdict == [id |-> NoTarget, ok |-> TRUE]
Verdicts == [id : Sandboxes, ok : BOOLEAN] \cup {NoVerdict}

MonitorTypeOK ==
  /\ round \in RouteTables
  /\ verdict \in Verdicts
  /\ failures \in [Sandboxes -> 0 .. FailThreshold - 1]

MonitorInit ==
  /\ round = NoRoutes
  /\ verdict = NoVerdict
  /\ failures = [id \in Sandboxes |-> 0]

(* A tick of the interval: CheckOnce takes the list. *)
List ==
  /\ round = NoRoutes /\ verdict = NoVerdict
  /\ round' = routes
  /\ UNCHANGED <<verdict, failures>>

(* The range over the listed map is in no particular order. *)
Probe(id, ok) ==
  /\ verdict = NoVerdict
  /\ round[id] # NoTarget
  /\ round' = [round EXCEPT ![id] = NoTarget]
  /\ verdict' = [id |-> id, ok |-> ok]
  /\ UNCHANGED failures

Exhausted(id) == failures[id] + 1 >= FailThreshold

(* Mutated: a success does not end the run of failures. *)
HealthyKeepsCount ==
  /\ verdict # NoVerdict /\ verdict.ok
  /\ verdict' = NoVerdict
  /\ UNCHANGED <<failures, routes, round>>

Healthy ==
  /\ verdict # NoVerdict /\ verdict.ok
  /\ failures' = [failures EXCEPT ![verdict.id] = 0]
  /\ verdict' = NoVerdict
  /\ UNCHANGED <<routes, round>>

RecordFailure ==
  /\ verdict # NoVerdict /\ ~verdict.ok /\ ~Exhausted(verdict.id)
  /\ failures' = [failures EXCEPT ![verdict.id] = @ + 1]
  /\ verdict' = NoVerdict
  /\ UNCHANGED <<routes, round>>

(* Mutated: only the counter is reset. *)
EvictForgets ==
  /\ verdict # NoVerdict /\ ~verdict.ok /\ Exhausted(verdict.id)
  /\ failures' = [failures EXCEPT ![verdict.id] = 0]
  /\ verdict' = NoVerdict
  /\ UNCHANGED <<routes, round>>

(* Whatever route the sandbox has by now is the one that goes. *)
Evict ==
  /\ verdict # NoVerdict /\ ~verdict.ok /\ Exhausted(verdict.id)
  /\ Unregister(verdict.id)
  /\ failures' = [failures EXCEPT ![verdict.id] = 0]
  /\ verdict' = NoVerdict
  /\ UNCHANGED round

Monitor(alive) ==
  \/ List /\ UNCHANGED routes
  \/ \E id \in Sandboxes : Probe(id, round[id] \in alive) /\ UNCHANGED routes
  \/ Healthy
  \/ RecordFailure
  \/ Evict
=============================================================================
