-------------------------- MODULE ClaimController --------------------------
(***************************************************************************)
(* The operator (internal/operator): SandboxClaim objects reconciled into  *)
(* one Pod each and into a route of envd-proxy.                            *)
(*                                                                         *)
(* A controller reads claims and Pods from its informer cache, which lags  *)
(* behind the API server, and writes to the API server, which refuses a    *)
(* write based on an old version of the object.  Reconcile is cut into     *)
(* steps at every call that leaves the process: creating or deleting the   *)
(* Pod, changing the route, and each of its three writes of the claim.     *)
(***************************************************************************)
EXTENDS RouteRegistry, Naturals, FiniteSets

CONSTANTS
  Controllers,   \* running controller processes
  Claims,        \* claim names; a claim's name is its sandbox id
  PodNames,
  PodNameOf,     \* claim -> the Pod name derived from its tenant and key
  TTL, MaxTime,  \* lifetime of a sandbox; bound on the clock
  Faults,        \* which disturbances happen, a subset of FaultKinds
  NoClaim

FaultKinds == {"api", "lostAck", "unreachable", "late", "restart", "edit",
               "flap", "evict"}

ASSUME TimesAreNaturals == TTL \in Nat \ {0} /\ MaxTime \in Nat
ASSUME FaultsAreKnown == Faults \subseteq FaultKinds
ASSUME NoClaimIsNone == NoClaim \notin Claims
ASSUME ClaimsAreSandboxes == Sandboxes = Claims /\ PodNameOf \in [Claims -> PodNames]

VARIABLES
  now,        \* the clock
  claims,     \* the SandboxClaim objects of the API server
  pods,       \* the Pods of the API server
  orphans,    \* Pods whose owning claim object is gone
  late,       \* route requests the client gave up on, still on their way
  cache,      \* controller -> its copy of the claims
  podCache,   \* controller -> its copy of the Pods
  version,    \* controller -> how its copy of a claim relates to the object
  queue,      \* controller -> claims waiting to be reconciled
  work        \* controller -> the Reconcile call it is in

apiVars == <<claims, pods, orphans>>
cacheVars == <<cache, podCache, version>>
vars == <<now, claims, pods, orphans, routes, late, cache, podCache, version,
          queue, work>>
----------------------------------------------------------------------------
Phases == {"", "Provisioning", "Ready", "Deleted"}

(* A copy is the latest version of its object, an older one, or a copy of  *)
(* an object that is gone (another may exist by the same name).            *)
Versions == {"latest", "old", "gone"}

Times == 0 .. MaxTime + TTL     \* 0 stands for no expiry

ClaimObjects ==
  [exists : BOOLEAN, desired : {"Running", "Deleted"}, deleting : BOOLEAN,
   finalizer : BOOLEAN, phase : Phases, ref : BOOLEAN, expires : Times]

NoObject ==
  [exists |-> FALSE, desired |-> "Running", deleting |-> FALSE,
   finalizer |-> FALSE, phase |-> "", ref |-> FALSE, expires |-> 0]

(* A Pod is ready when podFromKube finds it both Ready and Healthy. *)
PodObjects ==
  [state : {"absent", "starting", "ready", "terminating"},
   ip : Targets \cup {NoTarget}, owner : Claims \cup {NoClaim}]

NoPod == [state |-> "absent", ip |-> NoTarget, owner |-> NoClaim]

(* The local variables of a Reconcile call: the object it read and how old *)
(* that is, the status it is going to write, the Pod's address, whether    *)
(* the route failed and the time it started at.                            *)
Works ==
  [pc : {"idle", "create", "reread", "delete", "route", "finalizer", "status",
         "unfinalize"},
   claim : Claims \cup {NoClaim}, obj : ClaimObjects, version : Versions,
   phase : Phases, ref : BOOLEAN, expires : Times,
   ip : Targets \cup {NoTarget}, routeErr : BOOLEAN, at : 0 .. MaxTime]

Idle ==
  [pc |-> "idle", claim |-> NoClaim, obj |-> NoObject, version |-> "latest",
   phase |-> "", ref |-> FALSE, expires |-> 0, ip |-> NoTarget,
   routeErr |-> FALSE, at |-> 0]

TypeOK ==
  /\ now \in 0 .. MaxTime
  /\ claims \in [Claims -> ClaimObjects]
  /\ pods \in [PodNames -> PodObjects]
  /\ orphans \subseteq PodNames
  /\ routes \in RouteTables
  /\ late \subseteq Claims \X (Targets \cup {NoTarget})
  /\ cache \in [Controllers -> [Claims -> ClaimObjects]]
  /\ podCache \in [Controllers -> [PodNames -> PodObjects]]
  /\ version \in [Controllers -> [Claims -> Versions]]
  /\ queue \in [Controllers -> SUBSET Claims]
  /\ work \in [Controllers -> Works]

Init ==
  /\ now = 0
  /\ claims = [c \in Claims |-> NoObject]
  /\ pods = [p \in PodNames |-> NoPod]
  /\ orphans = {}
  /\ routes = NoRoutes
  /\ late = {}
  /\ cache = [w \in Controllers |-> claims]
  /\ podCache = [w \in Controllers |-> pods]
  /\ version = [w \in Controllers |-> [c \in Claims |-> "latest"]]
  /\ queue = [w \in Controllers |-> {}]
  /\ work = [w \in Controllers |-> Idle]
----------------------------------------------------------------------------
(* The API server (external).  A write that changes nothing makes no new   *)
(* version; one that does outdates every copy of the object.               *)
Outdated(c, object, v) ==
  IF object = claims[c] \/ v = "gone" THEN v
  ELSE IF claims[c].exists /\ ~object.exists THEN "gone"
  ELSE "old"

OutdatedCopies(c, object) ==
  [w \in Controllers |-> [version[w] EXCEPT ![c] = Outdated(c, object, @)]]

OutdatedWork(c, object) ==
  [w \in Controllers |->
     IF work[w].claim = c
     THEN [work[w] EXCEPT !.version = Outdated(c, object, @)] ELSE work[w]]

(* The last finalizer of a claim being deleted takes the object with it. *)
Stored(object) ==
  IF object.deleting /\ ~object.finalizer THEN NoObject ELSE object

OrphanedBy(c, object) ==
  IF claims[c].exists /\ ~object.exists
  THEN orphans \cup {p \in PodNames : pods[p].owner = c}
  ELSE orphans

Save(c, object) ==
  /\ claims' = [claims EXCEPT ![c] = object]
  /\ version' = OutdatedCopies(c, object)
  /\ orphans' = OrphanedBy(c, object)

UserWrites(c, object) ==
  /\ Save(c, object)
  /\ work' = OutdatedWork(c, object)
  /\ UNCHANGED <<now, pods, routes, late, cache, podCache, queue>>

CreateClaim(c) ==
  /\ ~claims[c].exists
  /\ UserWrites(c, [NoObject EXCEPT !.exists = TRUE])

SetDesired(c, state) ==
  /\ claims[c].exists /\ claims[c].desired # state
  /\ "edit" \in Faults
  /\ UserWrites(c, [claims[c] EXCEPT !.desired = state])

DeleteClaim(c) ==
  /\ claims[c].exists /\ ~claims[c].deleting
  /\ UserWrites(c, Stored([claims[c] EXCEPT !.deleting = TRUE]))

Tick ==
  /\ now < MaxTime
  /\ now' = now + 1
  /\ UNCHANGED <<apiVars, routes, late, cacheVars, queue, work>>
----------------------------------------------------------------------------
(* Pods, as the kubelet, the node and the garbage collector change them    *)
(* (external).                                                             *)
PodWrites(p, pod) ==
  /\ pods' = [pods EXCEPT ![p] = pod]
  /\ orphans' = IF pod = NoPod THEN orphans \ {p} ELSE orphans
  /\ UNCHANGED <<now, claims, routes, late, cacheVars, queue, work>>

FreeAddresses == Targets \ {pods[p].ip : p \in PodNames}

PodBecomesReady(p) ==
  /\ pods[p].state = "starting"
  /\ \E ip \in (IF pods[p].ip = NoTarget THEN FreeAddresses ELSE {pods[p].ip}) :
       PodWrites(p, [pods[p] EXCEPT !.state = "ready", !.ip = ip])

PodFails(p) ==
  /\ "flap" \in Faults
  /\ pods[p].state = "ready"
  /\ PodWrites(p, [pods[p] EXCEPT !.state = "starting"])

PodEvicted(p) ==
  /\ "evict" \in Faults
  /\ pods[p].state \in {"starting", "ready"}
  /\ PodWrites(p, [pods[p] EXCEPT !.state = "terminating"])

PodGone(p) ==
  /\ pods[p].state = "terminating"
  /\ PodWrites(p, NoPod)

CollectOrphan(p) ==
  /\ p \in orphans
  /\ pods[p].state \in {"starting", "ready"}
  /\ PodWrites(p, [pods[p] EXCEPT !.state = "terminating"])
----------------------------------------------------------------------------
(* The watches of a controller: a newer version reaches the cache and puts *)
(* the claim, or the owner of the Pod, into the work queue (external).     *)
ObserveClaim(w, c) ==
  /\ version[w][c] # "latest"
  /\ cache' = [cache EXCEPT ![w][c] = claims[c]]
  /\ version' = [version EXCEPT ![w][c] = "latest"]
  /\ queue' = [queue EXCEPT ![w] = @ \cup {c}]
  /\ UNCHANGED <<now, apiVars, routes, late, podCache, work>>

ObservePod(w, p) ==
  /\ podCache[w][p] # pods[p]
  /\ podCache' = [podCache EXCEPT ![w][p] = pods[p]]
  /\ queue' = [queue EXCEPT ![w] =
                 @ \cup ({podCache[w][p].owner, pods[p].owner} \ {NoClaim})]
  /\ UNCHANGED <<now, apiVars, routes, late, cache, version, work>>
----------------------------------------------------------------------------
(* SandboxClaimReconciler.Reconcile.  Put is how a step leaves the call    *)
(* and the queue; a call that ends with an error, or asks to be called     *)
(* again after a while, leaves its claim in the queue.                     *)
Put(w, t, waiting) ==
  /\ work' = [work EXCEPT ![w] = t]
  /\ queue' = [queue EXCEPT ![w] = waiting]

Retry(w, c) == Put(w, Idle, queue[w] \cup {c})

(* Mutated: the finalizer is added only while the Pod starts. *)
AfterRouteProvisioning(t) ==
  [t EXCEPT !.pc = IF t.phase = "Provisioning" /\ ~t.obj.deleting /\ ~t.obj.finalizer
                   THEN "finalizer" ELSE "status",
            !.ip = NoTarget]

(* The finalizer goes onto every claim that is not on its way out. *)
AfterRoute(t) ==
  [t EXCEPT !.pc = IF t.phase # "Deleted" /\ ~t.obj.deleting /\ ~t.obj.finalizer
                   THEN "finalizer" ELSE "status",
            !.ip = NoTarget]

(* syncRoute has nothing to do while the Pod starts, nor for a deleted     *)
(* claim without a sandboxRef.                                             *)
AfterPods(t) ==
  LET u == [t EXCEPT !.at = 0] IN
  IF u.phase = "Ready" \/ (u.phase = "Deleted" /\ u.ref)
  THEN [u EXCEPT !.pc = "route"] ELSE AfterRoute(u)

(* Mutated: the expiry is extended at every call. *)
ReadyWorkSliding(t, pod) ==
  [t EXCEPT !.phase = "Ready", !.ref = TRUE, !.ip = pod.ip,
            !.expires = t.at + TTL]

ReadyWork(t, pod) ==
  [t EXCEPT !.phase = "Ready", !.ref = TRUE, !.ip = pod.ip,
            !.expires = IF @ = 0 THEN t.at + TTL ELSE @]

(* What Reconcile makes of the Pod.  Neither an error nor a Pod being      *)
(* deleted is reported in the claim's status: the call ends here.          *)
Examine(w, t, pod, waiting) ==
  \/ /\ pod.state \in {"absent", "terminating"}
     /\ Put(w, Idle, waiting \cup {t.claim})
  \/ /\ pod.state = "starting"
     /\ Put(w, AfterPods([t EXCEPT !.phase = "Provisioning"]), waiting)
  \/ /\ pod.state = "ready"
     /\ Put(w, AfterPods(ReadyWork(t, pod)), waiting)

Doomed(object) ==
  \/ object.desired = "Deleted"
  \/ object.deleting
  \/ object.expires # 0 /\ now >= object.expires

Begin(w, c) ==
  LET object == cache[w][c]
      pod == podCache[w][PodNameOf[c]]
      waiting == queue[w] \ {c}
      t == [Idle EXCEPT !.claim = c, !.obj = object, !.version = version[w][c],
                        !.phase = object.phase, !.ref = object.ref,
                        !.expires = object.expires, !.at = now]
  IN
  /\ work[w].pc = "idle" /\ c \in queue[w]
  /\ \/ ~object.exists /\ Put(w, Idle, waiting)
     \/ /\ object.exists /\ Doomed(object)
        /\ Put(w, [t EXCEPT !.pc = "delete", !.at = 0], waiting)
     \/ /\ object.exists /\ ~Doomed(object) /\ object.phase = "Deleted"
        /\ Put(w, AfterPods(t), waiting)
     \/ /\ object.exists /\ ~Doomed(object) /\ object.phase # "Deleted"
        /\ \/ pod.state = "absent" /\ Put(w, [t EXCEPT !.pc = "create"], waiting)
           \/ pod.state # "absent" /\ Examine(w, t, pod, waiting)
  /\ UNCHANGED <<now, apiVars, routes, late, cacheVars>>

(* KubePodClient.Create: AlreadyExists is as good as success.  The Pod is  *)
(* owned by the object that was read, which may be gone.                   *)
CreatePod(w) ==
  LET t == work[w]
      p == PodNameOf[t.claim]
      reread == Put(w, [t EXCEPT !.pc = "reread"], queue[w])
  IN
  /\ t.pc = "create"
  /\ \/ /\ pods[p].state = "absent"
        /\ pods' = [pods EXCEPT ![p] = [NoPod EXCEPT !.state = "starting",
                                                     !.owner = t.claim]]
        /\ orphans' = IF t.version = "gone" THEN orphans \cup {p} ELSE orphans
        /\ reread \/ ("lostAck" \in Faults /\ Retry(w, t.claim))
     \/ /\ pods[p].state # "absent" /\ reread
        /\ UNCHANGED <<pods, orphans>>
     \/ /\ "api" \in Faults /\ Retry(w, t.claim)
        /\ UNCHANGED <<pods, orphans>>
  /\ UNCHANGED <<now, claims, routes, late, cacheVars>>

RereadPod(w) ==
  LET t == work[w] IN
  /\ t.pc = "reread"
  /\ Examine(w, t, podCache[w][PodNameOf[t.claim]], queue[w])
  /\ UNCHANGED <<now, apiVars, routes, late, cacheVars>>

(* Mutated: an error of the API server is taken for success. *)
DeletePodIgnoresError(w) ==
  LET t == work[w]
      p == PodNameOf[t.claim]
      done == [t EXCEPT !.phase = "Deleted", !.expires = 0]
  IN
  /\ t.pc = "delete"
  /\ \/ pods' = [pods EXCEPT ![p].state = IF @ = "absent" THEN @ ELSE "terminating"]
     \/ "api" \in Faults /\ UNCHANGED pods
  /\ Put(w, AfterPods(done), queue[w])
  /\ UNCHANGED <<now, claims, orphans, routes, late, cacheVars>>

(* reconcileDelete: the Pod need not be there, nor be gone afterwards. *)
DeletePod(w) ==
  LET t == work[w]
      p == PodNameOf[t.claim]
      done == [t EXCEPT !.phase = "Deleted", !.expires = 0]
  IN
  /\ t.pc = "delete"
  /\ \/ /\ pods' = [pods EXCEPT ![p].state =
                      IF @ = "absent" THEN @ ELSE "terminating"]
        /\ \/ Put(w, AfterPods(done), queue[w])
           \/ "lostAck" \in Faults /\ Retry(w, t.claim)
     \/ "api" \in Faults /\ Retry(w, t.claim) /\ UNCHANGED pods
  /\ UNCHANGED <<now, claims, orphans, routes, late, cacheVars>>

(* syncRoute through RouteClient.  A failed request may have been applied, *)
(* may be lost, or may still be on its way when the client times out.      *)
SyncRoute(w) ==
  LET t == work[w]
      target == IF t.phase = "Ready" THEN t.ip ELSE NoTarget
      apply == IF target = NoTarget THEN Unregister(t.claim)
               ELSE Set(t.claim, target)
      failed == Put(w, AfterRoute([t EXCEPT !.routeErr = TRUE]), queue[w])
  IN
  /\ t.pc = "route"
  /\ \/ apply /\ Put(w, AfterRoute(t), queue[w]) /\ UNCHANGED late
     \/ "lostAck" \in Faults /\ apply /\ failed /\ UNCHANGED late
     \/ "unreachable" \in Faults /\ failed /\ UNCHANGED <<routes, late>>
     \/ /\ "late" \in Faults /\ failed
        /\ late' = late \cup {<<t.claim, target>>}
        /\ UNCHANGED routes
  /\ UNCHANGED <<now, apiVars, cacheVars>>

LateArrives(c, target) ==
  /\ <<c, target>> \in late
  /\ late' = late \ {<<c, target>>}
  /\ Set(c, target)
  /\ UNCHANGED <<now, apiVars, cacheVars, queue, work>>

(* Mutated: the object is written without its resource version. *)
UpToDateUnchecked(t) == t.version # "gone"

(* An Update sends the resource version that was read, so it is refused    *)
(* unless it is based on the latest version of the object.                 *)
UpToDate(t) == t.version = "latest"

(* After a successful Update the call goes on as t with what it wrote. *)
WriteClaim(w, object, t, waiting) ==
  LET c == work[w].claim
      own == [t EXCEPT !.obj = IF t.pc = "idle" THEN NoObject ELSE object]
  IN
  \/ /\ UpToDate(work[w])
     /\ Save(c, object)
     /\ \/ /\ work' = [OutdatedWork(c, object) EXCEPT ![w] = own]
           /\ queue' = [queue EXCEPT ![w] = waiting]
        \/ /\ "lostAck" \in Faults
           /\ work' = [OutdatedWork(c, object) EXCEPT ![w] = Idle]
           /\ queue' = [queue EXCEPT ![w] = @ \cup {c}]
  \/ /\ ~UpToDate(work[w]) \/ "api" \in Faults
     /\ Retry(w, c)
     /\ UNCHANGED <<claims, orphans, version>>

AddFinalizer(w) ==
  LET t == work[w] IN
  /\ t.pc = "finalizer"
  /\ WriteClaim(w, [t.obj EXCEPT !.finalizer = TRUE], [t EXCEPT !.pc = "status"],
                queue[w])
  /\ UNCHANGED <<now, pods, routes, late, cache, podCache>>

(* Mutated: a failed route does not matter. *)
CleanedUpRegardless(t) == t.phase = "Deleted" /\ t.obj.finalizer

CleanedUp(t) == ~t.routeErr /\ t.phase = "Deleted" /\ t.obj.finalizer

(* Mutated: a failed route is not tried again. *)
CallAgainUnlessFailed(t) == ~t.routeErr /\ t.phase \in {"Provisioning", "Ready"}
(* Mutated: a ready claim is left alone. *)
CallAgainUnlessReady(t) == t.routeErr \/ t.phase = "Provisioning"

(* RequeueAfter: at once for the model, whatever the delay. *)
CallAgain(t) == t.routeErr \/ t.phase \in {"Provisioning", "Ready"}

(* The status is written even if the route failed. *)
UpdateStatus(w) ==
  LET t == work[w]
      object == [t.obj EXCEPT !.phase = t.phase, !.ref = t.ref,
                              !.expires = t.expires]
  IN
  /\ t.pc = "status"
  /\ IF CleanedUp(t)
     THEN WriteClaim(w, object, [t EXCEPT !.pc = "unfinalize"], queue[w])
     ELSE WriteClaim(w, object, Idle,
                     IF CallAgain(t) THEN queue[w] \cup {t.claim} ELSE queue[w])
  /\ UNCHANGED <<now, pods, routes, late, cache, podCache>>

RemoveFinalizer(w) ==
  LET t == work[w] IN
  /\ t.pc = "unfinalize"
  /\ WriteClaim(w, Stored([t.obj EXCEPT !.finalizer = FALSE]), Idle, queue[w])
  /\ UNCHANGED <<now, pods, routes, late, cache, podCache>>

(* A new process lists everything and reconciles every claim there is. *)
Restart(w) ==
  /\ "restart" \in Faults
  /\ work' = [work EXCEPT ![w] = Idle]
  /\ cache' = [cache EXCEPT ![w] = claims]
  /\ podCache' = [podCache EXCEPT ![w] = pods]
  /\ version' = [version EXCEPT ![w] = [c \in Claims |-> "latest"]]
  /\ queue' = [queue EXCEPT ![w] = {c \in Claims : claims[c].exists}]
  /\ UNCHANGED <<now, apiVars, routes, late>>
----------------------------------------------------------------------------
Reconcile(w) ==
  \/ \E c \in Claims : Begin(w, c)
  \/ CreatePod(w) \/ RereadPod(w) \/ DeletePod(w) \/ SyncRoute(w)
  \/ AddFinalizer(w) \/ UpdateStatus(w) \/ RemoveFinalizer(w)

Watch(w) ==
  \/ \E c \in Claims : ObserveClaim(w, c)
  \/ \E p \in PodNames : ObservePod(w, p)

Users ==
  \E c \in Claims :
    CreateClaim(c) \/ DeleteClaim(c)
    \/ \E state \in {"Running", "Deleted"} : SetDesired(c, state)

Next ==
  \/ \E w \in Controllers : Reconcile(w) \/ Watch(w) \/ Restart(w)
  \/ Users
  \/ Tick
  \/ \E p \in PodNames :
       \/ PodBecomesReady(p) \/ PodFails(p) \/ PodEvicted(p)
       \/ PodGone(p) \/ CollectOrphan(p)
  \/ \E c \in Claims, target \in Targets \cup {NoTarget} : LateArrives(c, target)

Spec == Init /\ [][Next]_vars

Serves(w) == SyncRoute(w) /\ ~work'[w].routeErr

(* The manager's workers and informers run as long as the process does, a  *)
(* route request that is retried for ever goes through, the cluster starts *)
(* and stops Pods, and time passes.                                        *)
Fairness ==
  /\ \A w \in Controllers :
       /\ WF_vars(Reconcile(w)) /\ SF_vars(Serves(w))
       /\ \A c \in Claims : WF_vars(ObserveClaim(w, c))
       /\ \A p \in PodNames : WF_vars(ObservePod(w, p))
  /\ \A p \in PodNames :
       WF_vars(PodBecomesReady(p)) /\ WF_vars(PodGone(p)) /\ WF_vars(CollectOrphan(p))
  /\ WF_vars(Tick)

FairSpec == Spec /\ Fairness
----------------------------------------------------------------------------
(* reconciler.go:86-88, 142: Deleted is the end of a claim.  However old   *)
(* the copy a controller works from, no later write of the status takes    *)
(* the object back to another phase.                                       *)
DeletedIsFinal ==
  [][\A c \in Claims :
       claims[c].phase = "Deleted" =>
         claims'[c].phase = "Deleted" \/ ~claims'[c].exists]_vars

(* reconciler.go:83-88: with one controller, once a claim is reported      *)
(* Deleted its Pod is gone or going, and no reconciliation from a stale    *)
(* cache starts another.  Two controllers that overlap do start one: no    *)
(* write of a Pod is conditional on the claim (reconciler.go:106).         *)
DeletedHasNoPod ==
  \A c \in Claims :
    claims[c].exists /\ claims[c].phase = "Deleted" =>
      pods[PodNameOf[c]].state \in {"absent", "terminating"}

(* controller.go:76-81: a claim that is reported Ready, and may have a     *)
(* route, cannot be removed behind the controller's back.                  *)
ReadyHasFinalizer ==
  \A c \in Claims : claims[c].phase = "Ready" => claims[c].finalizer

(* reconciler.go:128-130: the expiry of a claim, once reported, does not   *)
(* move until the claim is Deleted.                                        *)
ExpiryIsStable ==
  [][\A c \in Claims :
       claims[c].expires # 0 /\ claims'[c].phase # "Deleted" /\ claims'[c].exists =>
         claims'[c].expires = claims[c].expires]_vars

(* controller.go:94-102: the finalizer of a claim whose sandboxRef was     *)
(* reported is removed only when its route is gone.                        *)
FinalizerAwaitsRoute ==
  [][\A c \in Claims :
       claims[c].finalizer /\ ~claims'[c].finalizer /\ claims[c].ref =>
         routes[c] = NoTarget]_vars

(* controller.go:125-126: "a deleted sandbox has it removed" -- when the   *)
(* last of a claim's finalizers goes, its route is gone.                   *)
DeletedIsUnrouted ==
  [][\A c \in Claims :
       claims[c].finalizer /\ ~claims'[c].finalizer => routes[c] = NoTarget]_vars

(* controller.go:94-102: the finalizer does not hold a deleted claim back  *)
(* for ever, whatever its state when it was deleted.                       *)
DeletionCompletes ==
  \A c \in Claims : claims[c].deleting ~> ~claims[c].exists

(* reconciler.go:80-82, controller.go:106-114: a claim that reports an     *)
(* expiry is Deleted once that time has come, without any outside event.   *)
ExpiryCompletes ==
  \A c \in Claims :
    claims[c].expires \in 1 .. MaxTime ~>
      claims[c].phase = "Deleted" \/ ~claims[c].exists
============================================================================
