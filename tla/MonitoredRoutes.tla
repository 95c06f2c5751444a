-------------------------- MODULE MonitoredRoutes --------------------------
(***************************************************************************)
(* The route table of envd-proxy between its health monitor and the admin  *)
(* API, through which any sandbox may be registered with any target at any *)
(* time: a sandbox whose Pod was replaced is registered at a new address.  *)
(***************************************************************************)
EXTENDS HealthMonitor

VARIABLES
  up,        \* the targets that answer 2xx on /healthz
  \* What happened to a sandbox since a probe for it last succeeded (history):
  missed,    \* the probes for it that failed, as far as the threshold
  blamed,    \* the targets of those probes
  homes      \* the targets it was registered with

history == <<missed, blamed, homes>>
vars == <<routes, monitorVars, up, history>>

TypeOK ==
  /\ routes \in RouteTables
  /\ MonitorTypeOK
  /\ up \subseteq Targets
  /\ missed \in [Sandboxes -> 0 .. FailThreshold]
  /\ blamed \in [Sandboxes -> SUBSET Targets]
  /\ homes \in [Sandboxes -> SUBSET Targets]

Init ==
  /\ routes = NoRoutes
  /\ MonitorInit
  /\ up = Targets
  /\ missed = [id \in Sandboxes |-> 0]
  /\ blamed = [id \in Sandboxes |-> {}]
  /\ homes = [id \in Sandboxes |-> {}]

(* The probe of id in this step, if there is one, fails or succeeds. *)
Probed(id) == round[id] # NoTarget /\ round'[id] = NoTarget
Fails(id) == Probed(id) /\ round[id] \notin up
Succeeds(id) == Probed(id) /\ round[id] \in up

RememberProbe ==
  /\ missed' = [id \in Sandboxes |->
                  IF Succeeds(id) THEN 0
                  ELSE IF Fails(id) /\ missed[id] < FailThreshold THEN missed[id] + 1
                  ELSE missed[id]]
  /\ blamed' = [id \in Sandboxes |->
                  IF Succeeds(id) THEN {}
                  ELSE IF Fails(id) THEN blamed[id] \cup {round[id]} ELSE blamed[id]]
  /\ homes' = [id \in Sandboxes |->
                  IF Succeeds(id) THEN {routes[id]} \ {NoTarget} ELSE homes[id]]

Check == Monitor(up) /\ RememberProbe /\ UNCHANGED up

AdminRegister(id, t) ==
  /\ Set(id, t)
  /\ homes' = [homes EXCEPT ![id] = @ \cup {t}]
  /\ UNCHANGED <<monitorVars, up, missed, blamed>>

AdminUnregister(id) == Unregister(id) /\ UNCHANGED <<monitorVars, up, history>>

BackendChanges(t) ==
  /\ up' = IF t \in up THEN up \ {t} ELSE up \cup {t}
  /\ UNCHANGED <<routes, monitorVars, history>>

Next ==
  \/ Check
  \/ \E id \in Sandboxes :
       AdminUnregister(id) \/ \E t \in Targets : AdminRegister(id, t)
  \/ \E t \in Targets : BackendChanges(t)

Spec == Init /\ [][Next]_vars

(* The monitor's goroutine loops until the proxy stops. *)
FairSpec == Spec /\ WF_vars(Check)
----------------------------------------------------------------------------
(* health.go:13-15: the monitor "unregisters routes whose backend stays    *)
(* unhealthy across a configurable number of consecutive failures".  An    *)
(* eviction comes after that many failed probes for its sandbox, none in   *)
(* between successful; and all of them were probes of the target the       *)
(* evicted route leads to, unless the sandbox was registered with another  *)
(* one since.  The exception is the code's: it counts by sandbox, and goes *)
(* on counting when the sandbox gets a new address.                        *)
EvictsAfterFailures ==
  [][Evict => LET id == verdict.id IN
                /\ missed[id] = FailThreshold
                /\ homes[id] = {routes[id]} => blamed[id] = {routes[id]}]_vars

(* The same without the exception: no eviction takes a route to a target   *)
(* that did not fail every one of those probes.  The code does not promise *)
(* it, and the README shows the counterexample.                            *)
EvictsOnlyDead ==
  [][Evict => LET id == verdict.id IN
                routes[id] # NoTarget => /\ missed[id] = FailThreshold
                                         /\ blamed[id] = {routes[id]}]_vars

(* A target that stays down does not keep its route: the route is gone     *)
(* again and again, however often it is registered.                        *)
DeadRouteLeaves ==
  \A id \in Sandboxes, t \in Targets :
    (<>[](t \notin up)) => []<>(routes[id] # t)
=============================================================================
