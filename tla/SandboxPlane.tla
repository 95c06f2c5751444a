--------------------------- MODULE SandboxPlane ---------------------------
(***************************************************************************)
(* The operator and envd-proxy together: the routes the controller         *)
(* registers are probed, and evicted, by the proxy's health monitor, and a *)
(* proxy that restarts comes back without routes.  Pods outside the model, *)
(* of sandboxes or services it leaves out, come and go, and may get an     *)
(* address that a Pod of a claim had before.                               *)
(***************************************************************************)
EXTENDS ClaimController

CONSTANTS
  FailThreshold, ProxyRestarts,
  Shared         \* the addresses that other Pods may get, too

ASSUME SharedAreTargets == Shared \subseteq Targets

VARIABLES
  round, verdict, failures,
  others         \* the addresses other Pods have

planeVars == <<vars, round, verdict, failures, others>>

Ready(p) == pods[p].state = "ready"
Dying(p) == pods[p].state = "terminating"

AddressesOf(S) == {pods[p].ip : p \in S} \ {NoTarget}

(* The cluster gives no address to two Pods at a time. *)
Apart == AddressesOf(PodNames) \cap others = {}

Health == INSTANCE HealthMonitor

PlaneInit == Init /\ Health!MonitorInit /\ others = {}

(* An envd in a ready Pod answers /healthz, one in a dying Pod may.  It    *)
(* answers everybody, so the envd of another sandbox does just as well.    *)
MonitorStep ==
  /\ \E dying \in SUBSET {p \in PodNames : Dying(p)} :
       Health!Monitor(AddressesOf({p \in PodNames : Ready(p)} \cup dying) \cup others)
  /\ UNCHANGED <<now, apiVars, late, cacheVars, queue, work, others>>

(* cmd/envd-proxy: routes and counters live in the process. *)
ProxyRestart ==
  /\ ProxyRestarts
  /\ routes' = NoRoutes
  /\ round' = NoRoutes
  /\ verdict' = Health!NoVerdict
  /\ failures' = [c \in Claims |-> 0]
  /\ UNCHANGED <<now, apiVars, late, cacheVars, queue, work, others>>

(* Another Pod starts, or ends. *)
OthersMove ==
  /\ \E t \in Shared :
       others' = IF t \in others THEN others \ {t} ELSE others \cup {t}
  /\ UNCHANGED <<vars, round, verdict, failures>>
  /\ Apart'

PlaneNext ==
  \/ Next /\ UNCHANGED <<round, verdict, failures, others>> /\ Apart'
  \/ MonitorStep
  \/ ProxyRestart
  \/ OthersMove

PlaneSpec ==
  /\ PlaneInit /\ [][PlaneNext]_planeVars
  /\ Fairness /\ WF_planeVars(MonitorStep)
----------------------------------------------------------------------------
Serving(c) ==
  /\ claims[c].exists /\ claims[c].phase = "Ready" /\ ~Doomed(claims[c])
  /\ Ready(PodNameOf[c])

Routed(c) == routes[c] = pods[PodNameOf[c]].ip

(* controller.go:125-128: whatever happens to the Pod, the route table or  *)
(* the proxy, a sandbox that goes on serving gets a route to its Pod.      *)
RouteConverges == \A c \in Claims : []<>(Serving(c) => Routed(c))

(* health.go:13-16: the route of a claim that is gone does not stay, not   *)
(* even one the controller left behind -- as long as no other Pod has its  *)
(* address.  One that does answers the probes in the place of the sandbox, *)
(* and the route stays.                                                    *)
LeakIsTemporary ==
  \A c \in Claims :
    (<>[](~claims[c].exists /\ routes[c] \notin others)) => <>[](routes[c] = NoTarget)
============================================================================
