----------------------- MODULE MonitoredRoutesProofs -----------------------
(***************************************************************************)
(* When the monitor evicts, for any sandboxes, targets and threshold, with *)
(* any registrations: after the threshold of failed probes in a row for    *)
(* the sandbox, all of them of the target whose route goes unless the      *)
(* sandbox was registered with another one since its last good probe.      *)
(***************************************************************************)
EXTENDS MonitoredRoutes, TLAPS

(* Whatever is routed, was listed or has failed is a target the sandbox    *)
(* was registered with since its last good probe.                          *)
AtHome ==
  \A id \in Sandboxes :
    /\ routes[id] # NoTarget => routes[id] \in homes[id]
    /\ round[id] # NoTarget => round[id] \in homes[id]
    /\ blamed[id] \subseteq homes[id]

(* The failures of a sandbox, with the one not yet acted upon, are probes  *)
(* that failed, unless a success is about to clear them.                   *)
Counted ==
  \A id \in Sandboxes :
    IF verdict.id = id THEN verdict.ok \/ failures[id] + 1 <= missed[id]
    ELSE failures[id] <= missed[id]

(* A failed probe is the probe of some target. *)
SomethingFailed == \A id \in Sandboxes : missed[id] > 0 => blamed[id] # {}

MonitorInv == TypeOK /\ AtHome /\ Counted /\ SomethingFailed

(* A verdict is about a sandbox, or there is none. *)
LEMMA VerdictIsOfSandbox ==
  ASSUME TypeOK, verdict # NoVerdict
  PROVE  verdict.id \in Sandboxes /\ verdict.ok \in BOOLEAN
BY DEF TypeOK, MonitorTypeOK, Verdicts

(* A step of the monitor that probes nothing leaves the history alone.     *)
LEMMA NothingProbed ==
  ASSUME TypeOK, RememberProbe, \A id \in Sandboxes : ~Probed(id)
  PROVE  UNCHANGED history
BY DEF RememberProbe, Fails, Succeeds, TypeOK, history

(* CheckOnce takes the list: what is listed is routed. *)
LEMMA ListKeeps ==
  ASSUME MonitorInv, List, RememberProbe, UNCHANGED <<routes, up>>
  PROVE  MonitorInv'
<1>1. UNCHANGED history
  BY NothingProbed DEF List, NoRoutes, MonitorInv, Probed
<1> QED
  BY <1>1 DEF List, MonitorInv, TypeOK, MonitorTypeOK, AtHome, Counted, SomethingFailed,
              history

(* A probe: a failure is one more of a target at home, and a success       *)
(* starts the history again with the route there is.                       *)
LEMMA ProbeKeeps ==
  ASSUME MonitorInv, NEW id \in Sandboxes, Probe(id, round[id] \in up),
         RememberProbe, UNCHANGED <<routes, up>>
  PROVE  MonitorInv'
<1> USE DEF MonitorInv
<1>1. /\ round[id] \in Targets /\ round[id] \in homes[id]
      /\ round' = [round EXCEPT ![id] = NoTarget]
      /\ verdict' = [id |-> id, ok |-> round[id] \in up]
      /\ failures' = failures /\ verdict = NoVerdict
  BY DEF Probe, TypeOK, MonitorTypeOK, RouteTables, AtHome
<1>2. \A j \in Sandboxes : Probed(j) <=> j = id
  BY <1>1, NoTargetIsNone DEF Probed, TypeOK, MonitorTypeOK, RouteTables
<1>3. \A j \in Sandboxes : j # id => /\ missed'[j] = missed[j] /\ blamed'[j] = blamed[j]
                                     /\ homes'[j] = homes[j] /\ round'[j] = round[j]
  BY <1>1, <1>2 DEF RememberProbe, Fails, Succeeds, TypeOK, MonitorTypeOK, RouteTables
<1>4. CASE round[id] \in up
  <2>1. Succeeds(id)
    BY <1>2, <1>4 DEF Succeeds
  <2>2. missed'[id] = 0 /\ blamed'[id] = {} /\ homes'[id] = {routes[id]} \ {NoTarget}
    BY <2>1 DEF RememberProbe
  <2>3. TypeOK'
    BY <1>1, <1>3, <2>2, ThresholdIsPositive
       DEF TypeOK, MonitorTypeOK, Verdicts, RouteTables, RememberProbe
  <2>4. AtHome'
    BY <1>1, <1>3, <2>2 DEF AtHome, TypeOK, MonitorTypeOK, RouteTables
  <2>5. verdict'.id = id /\ verdict'.ok
    BY <1>1, <1>4
  <2>6. \A j \in Sandboxes : failures[j] <= missed[j]
    BY <1>1, NoVerdictIsNone DEF Counted, NoVerdict
  <2>7. Counted' /\ SomethingFailed'
    BY <1>1, <1>3, <2>2, <2>5, <2>6 DEF Counted, SomethingFailed
  <2> QED
    BY <2>3, <2>4, <2>7
<1>5. CASE round[id] \notin up
  <2>1. Fails(id) /\ ~Succeeds(id)
    BY <1>2, <1>5 DEF Fails, Succeeds
  <2>2. /\ missed'[id] = IF missed[id] < FailThreshold THEN missed[id] + 1 ELSE missed[id]
        /\ blamed'[id] = blamed[id] \cup {round[id]} /\ homes'[id] = homes[id]
    BY <2>1 DEF RememberProbe
  <2>3. /\ missed[id] \in 0 .. FailThreshold /\ failures[id] \in 0 .. FailThreshold - 1
        /\ FailThreshold \in Nat /\ failures[id] <= missed[id]
    BY <1>1, ThresholdIsPositive, NoVerdictIsNone
       DEF TypeOK, MonitorTypeOK, Counted, NoVerdict
  <2>4. failures[id] + 1 <= missed'[id] /\ missed'[id] \in 0 .. FailThreshold
    BY <2>2, <2>3
  <2>5. TypeOK'
    BY <1>1, <1>3, <2>2, <2>4
       DEF TypeOK, MonitorTypeOK, Verdicts, RouteTables, RememberProbe
  <2>6. AtHome'
    BY <1>1, <1>3, <2>2 DEF AtHome, TypeOK, MonitorTypeOK, RouteTables
  <2>7. Counted' /\ SomethingFailed'
    BY <1>1, <1>3, <2>2, <2>4, NoVerdictIsNone DEF Counted, SomethingFailed, NoVerdict
  <2> QED
    BY <2>5, <2>6, <2>7
<1> QED
  BY <1>4, <1>5

(* Acting on a verdict: a success clears the count, a failure adds what is *)
(* remembered already, an eviction starts the count again.                 *)
LEMMA ActKeeps ==
  ASSUME MonitorInv, Healthy \/ RecordFailure \/ Evict, RememberProbe, UNCHANGED up
  PROVE  MonitorInv'
<1> USE DEF MonitorInv
<1>1. round' = round /\ UNCHANGED history
  <2>1. round' = round
    BY DEF Healthy, RecordFailure, Evict
  <2> QED
    BY <2>1, NothingProbed DEF Probed
<1>2. PICK id \in Sandboxes : verdict.id = id
  BY VerdictIsOfSandbox DEF Healthy, RecordFailure, Evict
<1>3. /\ verdict' = NoVerdict
      /\ \/ failures' = [failures EXCEPT ![id] = 0]
         \/ /\ failures' = [failures EXCEPT ![id] = failures[id] + 1]
            /\ ~verdict.ok /\ ~Exhausted(id)
      /\ routes' = routes \/ routes' = [routes EXCEPT ![id] = NoTarget]
  BY <1>2 DEF Healthy, RecordFailure, Evict, Unregister
<1>4. TypeOK'
  <2>1. failures' \in [Sandboxes -> 0 .. FailThreshold - 1]
    BY <1>3, ThresholdIsPositive DEF TypeOK, MonitorTypeOK, Exhausted
  <2> QED
    BY <1>1, <1>3, <2>1 DEF TypeOK, MonitorTypeOK, Verdicts, RouteTables, history
<1>5. AtHome' /\ SomethingFailed'
  BY <1>1, <1>3 DEF AtHome, SomethingFailed, TypeOK, RouteTables, history
<1>6. Counted'
  <2> SUFFICES ASSUME NEW j \in Sandboxes
               PROVE  failures'[j] <= missed[j]
    BY <1>1, <1>3, NoVerdictIsNone DEF Counted, NoVerdict, history
  <2>1. /\ failures[j] \in Nat /\ missed[j] \in Nat
        /\ IF id = j THEN verdict.ok \/ failures[j] + 1 <= missed[j]
           ELSE failures[j] <= missed[j]
    BY <1>2, ThresholdIsPositive DEF Counted, TypeOK, MonitorTypeOK
  <2> QED
    BY <1>3, <2>1 DEF TypeOK, MonitorTypeOK
<1> QED
  BY <1>4, <1>5, <1>6

(* The admin API removes a route, or makes its target a home. *)
LEMMA AdminKeeps ==
  ASSUME MonitorInv, NEW id \in Sandboxes,
         AdminUnregister(id) \/ \E t \in Targets : AdminRegister(id, t)
  PROVE  MonitorInv'
<1>1. CASE AdminUnregister(id)
  BY <1>1 DEF MonitorInv, TypeOK, MonitorTypeOK, RouteTables, AtHome, Counted,
              SomethingFailed, AdminUnregister, Unregister, monitorVars, history
<1>2. ASSUME NEW t \in Targets, AdminRegister(id, t) PROVE MonitorInv'
  BY <1>2 DEF MonitorInv, TypeOK, MonitorTypeOK, RouteTables, AtHome, Counted,
              SomethingFailed, AdminRegister, Set, monitorVars
<1> QED
  BY <1>1, <1>2

(* Every step of the monitor, the admin API or a backend keeps the counts. *)
LEMMA MonitorInductive ==
  ASSUME MonitorInv, [Next]_vars
  PROVE  MonitorInv'
<1>1. CASE Check
  BY <1>1, ListKeeps, ProbeKeeps, ActKeeps DEF Check, Monitor
<1>2. CASE \E id \in Sandboxes :
             AdminUnregister(id) \/ \E t \in Targets : AdminRegister(id, t)
  BY <1>2, AdminKeeps
<1>3. CASE \E t \in Targets : BackendChanges(t)
  BY <1>3 DEF BackendChanges, MonitorInv, TypeOK, MonitorTypeOK, AtHome, Counted,
              SomethingFailed, monitorVars, history
<1>4. CASE UNCHANGED vars
  BY <1>4 DEF vars, MonitorInv, TypeOK, MonitorTypeOK, AtHome, Counted, SomethingFailed,
              monitorVars, history
<1> QED
  BY <1>1, <1>2, <1>3, <1>4 DEF Next

(* Nothing is routed, listed or counted at first. *)
LEMMA MonitorInitially == Init => MonitorInv
BY NoVerdictIsNone, ThresholdIsPositive
   DEF Init, MonitorInit, NoRoutes, RouteTables, Verdicts, NoVerdict, MonitorInv, TypeOK,
       MonitorTypeOK, AtHome, Counted, SomethingFailed

(* health.go:13-15, for any registrations: an eviction comes after as many *)
(* failed probes in a row for its sandbox as the threshold says, and they  *)
(* were all probes of the target it takes the route to, unless the sandbox *)
(* was registered with another target since its last good probe, however   *)
(* the admin API and the backends interleave with the monitor's pass.      *)
THEOREM EvictionIsEarned == Spec => EvictsAfterFailures
<1> DEFINE Earned == Evict => LET id == verdict.id IN
                                /\ missed[id] = FailThreshold
                                /\ homes[id] = {routes[id]} => blamed[id] = {routes[id]}
<1>1. MonitorInv /\ [Next]_vars => MonitorInv'
  BY MonitorInductive
<1>2. MonitorInv => Earned
  <2> SUFFICES ASSUME MonitorInv, Evict
               PROVE  /\ missed[verdict.id] = FailThreshold
                      /\ homes[verdict.id] = {routes[verdict.id]} =>
                           blamed[verdict.id] = {routes[verdict.id]}
    OBVIOUS
  <2>1. verdict.id \in Sandboxes /\ ~verdict.ok /\ failures[verdict.id] + 1 >= FailThreshold
    BY VerdictIsOfSandbox DEF MonitorInv, Evict, Exhausted
  <2>2. /\ failures[verdict.id] + 1 <= missed[verdict.id]
        /\ failures[verdict.id] \in Nat /\ missed[verdict.id] \in 0 .. FailThreshold
    BY <2>1, ThresholdIsPositive DEF MonitorInv, Counted, TypeOK, MonitorTypeOK
  <2>3. missed[verdict.id] = FailThreshold
    BY <2>1, <2>2, ThresholdIsPositive
  <2>4. blamed[verdict.id] \subseteq homes[verdict.id] /\ blamed[verdict.id] # {}
    BY <2>1, <2>3, ThresholdIsPositive DEF MonitorInv, AtHome, SomethingFailed
  <2> QED
    BY <2>3, <2>4
<1> QED
  BY <1>1, <1>2, MonitorInitially, PTL DEF Spec, EvictsAfterFailures
============================================================================
