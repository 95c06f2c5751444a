----------------------- MODULE ClaimControllerProofs -----------------------
(***************************************************************************)
(* The claims of the API server are safe from stale copies, for any number *)
(* of controllers, claims and Pods, any lifetime and any set of faults.    *)
(*                                                                         *)
(* A copy that counts as the latest equals the object (CopiesAgree), so a  *)
(* write that the API server accepts starts from what is stored.  What a   *)
(* Reconcile call is about to write follows from the object it read        *)
(* (WorkOK), so an accepted write follows from what is stored.             *)
(*                                                                         *)
(* The last part puts the controller beside a health monitor and a proxy   *)
(* that restarts (SandboxPlane).                                           *)
(***************************************************************************)
EXTENDS SandboxPlane, TLAPS

(* What a Reconcile call in progress may intend, given what it read. *)
InProgress(t) ==
  /\ t.claim \in Claims /\ t.obj.exists
  /\ t.obj.phase = "Deleted" => t.phase = "Deleted"
  /\ t.phase # "Deleted" /\ t.obj.expires # 0 => t.expires = t.obj.expires
  /\ t.pc \in {"create", "reread", "finalizer"} => t.phase # "Deleted"
  /\ t.pc # "delete" /\ t.phase # "Deleted" => ~t.obj.deleting
  /\ t.pc = "status" /\ t.phase # "Deleted" => t.obj.finalizer
  /\ t.pc = "unfinalize" =>
       t.phase = "Deleted" /\ ~t.routeErr /\ t.obj.phase = "Deleted" /\ t.obj.ref = t.ref

WorkOK(t) == t \in Works /\ (t = Idle \/ (t.pc # "idle" /\ InProgress(t)))

(* A later step of the same call, from the same object. *)
SameCall(u, t) == u.claim = t.claim /\ u.obj = t.obj /\ u.version = t.version

(* ... that has not changed its mind about the status. *)
SameStatus(u, t) ==
  u.phase = t.phase /\ u.ref = t.ref /\ u.expires = t.expires /\ u.routeErr = t.routeErr

(* A name without an object has no leftovers of one. *)
AbsentIsEmpty == \A c \in Claims : ~claims[c].exists => claims[c] = NoObject

CopiesAgree ==
  \A w \in Controllers, c \in Claims :
    version[w][c] = "latest" => cache[w][c] = claims[c]

WorksAgree ==
  \A w \in Controllers :
    work[w].claim \in Claims /\ work[w].version = "latest" =>
      work[w].obj = claims[work[w].claim]

ClaimInv ==
  /\ TypeOK /\ AbsentIsEmpty /\ CopiesAgree /\ WorksAgree /\ ReadyHasFinalizer
  /\ \A w \in Controllers : WorkOK(work[w])
----------------------------------------------------------------------------
(* No call, no object and no Pod are of their types. *)
LEMMA NullTypes ==
  /\ NoObject \in ClaimObjects /\ NoPod \in PodObjects /\ Idle \in Works /\ WorkOK(Idle)
  /\ Idle.pc = "idle" /\ Idle.claim = NoClaim /\ [Idle EXCEPT !.obj = NoObject] = Idle
<1>1. NoObject \in ClaimObjects
  BY TimesAreNaturals DEF NoObject, ClaimObjects, Phases, Times
<1>2. NoPod \in PodObjects
  BY DEF NoPod, PodObjects
<1>3. Idle \in Works
  BY <1>1, TimesAreNaturals DEF Idle, Works, Versions, Phases, Times
<1>4. Idle.pc = "idle" /\ Idle.claim = NoClaim /\ Idle.obj = NoObject
  BY DEF Idle
<1>5. \A t \in Works : [t EXCEPT !.obj = t.obj] = t
  BY DEF Works
<1> QED
  BY <1>1, <1>2, <1>3, <1>4, <1>5 DEF WorkOK

(* After the route the call writes the finalizer or the status. *)
LEMMA AfterRouteOK ==
  ASSUME NEW t \in Works, InProgress(t), t.pc # "unfinalize",
         t.pc = "delete" => t.phase = "Deleted"
  PROVE  LET u == AfterRoute(t) IN
         /\ WorkOK(u) /\ SameCall(u, t) /\ SameStatus(u, t)
         /\ u.pc \in {"finalizer", "status"}
<1> DEFINE u == AfterRoute(t)
<1>1. u \in Works
  BY Zenon DEF AfterRoute, Works
<1>2. /\ u.pc = IF t.phase # "Deleted" /\ ~t.obj.deleting /\ ~t.obj.finalizer
                THEN "finalizer" ELSE "status"
      /\ SameCall(u, t) /\ SameStatus(u, t)
  BY DEF AfterRoute, Works, SameCall, SameStatus
<1> HIDE DEF u
<1>3. InProgress(u)
  BY <1>2 DEF InProgress, SameCall, SameStatus
<1> QED
  BY <1>1, <1>2, <1>3 DEF WorkOK, u

(* After the Pod the call turns to the route, or past it. *)
LEMMA AfterPodsOK ==
  ASSUME NEW t \in Works, InProgress(t), t.pc # "unfinalize",
         t.pc = "delete" => t.phase = "Deleted"
  PROVE  LET u == AfterPods(t) IN
         /\ WorkOK(u) /\ SameCall(u, t) /\ SameStatus(u, t)
         /\ u.pc \in {"route", "finalizer", "status"}
         /\ u.pc # "route" => ~(t.phase = "Deleted" /\ t.ref)
<1> DEFINE u == [t EXCEPT !.at = 0]
           v == [u EXCEPT !.pc = "route"]
<1>1. u \in Works /\ u.pc = t.pc /\ SameCall(u, t) /\ SameStatus(u, t)
  BY TimesAreNaturals DEF Works, SameCall, SameStatus
<1>2. InProgress(u)
  <2> HIDE DEF u
  <2> QED BY <1>1 DEF InProgress, SameCall, SameStatus
<1>3. /\ WorkOK(AfterRoute(u)) /\ SameCall(AfterRoute(u), u)
      /\ SameStatus(AfterRoute(u), u) /\ AfterRoute(u).pc \in {"finalizer", "status"}
  <2> HIDE DEF u
  <2>1. u.pc # "unfinalize" /\ (u.pc = "delete" => u.phase = "Deleted")
    BY <1>1 DEF SameStatus
  <2> QED BY <1>1, <1>2, <2>1, AfterRouteOK
<1>4. v \in Works /\ v.pc = "route" /\ SameCall(v, u) /\ SameStatus(v, u)
  <2> HIDE DEF u
  <2> QED BY <1>1 DEF Works, SameCall, SameStatus
<1>5. WorkOK(v)
  <2> HIDE DEF u, v
  <2>1. u.pc = "delete" => u.phase = "Deleted"
    BY <1>1 DEF SameStatus
  <2> QED BY <1>1, <1>2, <1>4, <2>1 DEF InProgress, WorkOK, SameCall, SameStatus
<1>6. AfterPods(t) = IF u.phase = "Ready" \/ (u.phase = "Deleted" /\ u.ref)
                     THEN v ELSE AfterRoute(u)
  BY DEF AfterPods
<1> HIDE DEF u, v
<1> QED
  BY <1>1, <1>3, <1>4, <1>5, <1>6 DEF SameCall, SameStatus

(* What Reconcile makes of a Pod: nothing, or a call that goes on towards  *)
(* reporting Provisioning or Ready.                                        *)
LEMMA ExamineOK ==
  ASSUME NEW w \in Controllers, NEW t \in Works, InProgress(t),
         t.pc \in {"idle", "reread"}, t.phase # "Deleted",
         NEW pod \in PodObjects, NEW waiting \in SUBSET Claims,
         Examine(w, t, pod, waiting)
  PROVE  \E u, q : /\ Put(w, u, q) /\ q \in SUBSET Claims
                   /\ WorkOK(u)
                   /\ u = Idle \/ (SameCall(u, t) /\ u.phase # "Deleted" /\ u.pc \notin {"create", "delete"})
<1>1. t.claim \in Claims
  BY DEF InProgress
<1>2. CASE pod.state \in {"absent", "terminating"}
  <2>1. Put(w, Idle, waiting \cup {t.claim})
    BY <1>2 DEF Examine
  <2> QED BY <1>1, <2>1, NullTypes
<1>3. CASE pod.state = "starting"
  <2> DEFINE s == [t EXCEPT !.phase = "Provisioning"]
  <2>1. /\ s \in Works /\ s.pc = t.pc /\ SameCall(s, t) /\ s.phase = "Provisioning"
        /\ s.expires = t.expires
    BY DEF Works, Phases, SameCall
  <2>2. Put(w, AfterPods(s), waiting)
    BY <1>3 DEF Examine
  <2> HIDE DEF s
  <2>3. InProgress(s)
    BY <2>1 DEF InProgress, SameCall
  <2>4. /\ WorkOK(AfterPods(s)) /\ SameCall(AfterPods(s), s)
        /\ AfterPods(s).phase = s.phase /\ AfterPods(s).pc \notin {"create", "delete"}
    BY <2>1, <2>3, AfterPodsOK DEF SameStatus
  <2> QED BY <2>1, <2>2, <2>4 DEF SameCall
<1>4. CASE pod.state = "ready"
  <2> DEFINE s == ReadyWork(t, pod)
  <2>1. /\ t.at + TTL \in Times /\ t.expires \in Times /\ pod.ip \in Targets \cup {NoTarget}
    BY TimesAreNaturals DEF Works, Times, PodObjects
  <2>2. /\ s \in Works /\ s.pc = t.pc /\ SameCall(s, t) /\ s.phase = "Ready"
        /\ s.expires = IF t.expires = 0 THEN t.at + TTL ELSE t.expires
    BY <2>1 DEF Works, Phases, SameCall, ReadyWork
  <2>3. Put(w, AfterPods(s), waiting)
    BY <1>4 DEF Examine
  <2> HIDE DEF s
  <2>4. InProgress(s)
    BY <2>2 DEF InProgress, SameCall
  <2>5. /\ WorkOK(AfterPods(s)) /\ SameCall(AfterPods(s), s)
        /\ AfterPods(s).phase = s.phase /\ AfterPods(s).pc \notin {"create", "delete"}
    BY <2>2, <2>4, AfterPodsOK DEF SameStatus
  <2> QED BY <2>2, <2>3, <2>5 DEF SameCall
<1> QED
  BY <1>2, <1>3, <1>4 DEF PodObjects

(* How a Reconcile call that does not end at once begins: it deletes a     *)
(* doomed claim, goes over a Deleted one again, or looks after its Pod.    *)
Begun(u, w, c) ==
  /\ WorkOK(u) /\ u.claim = c /\ u.obj = cache[w][c] /\ u.version = version[w][c]
  /\ \/ u.pc = "delete" /\ Doomed(u.obj)
     \/ /\ u.obj.phase = "Deleted" /\ u.phase = "Deleted"
        /\ u.pc = "route" \/ (u.pc = "status" /\ ~u.ref)
     \/ /\ u.obj.phase # "Deleted" /\ u.phase # "Deleted" /\ ~Doomed(u.obj)
        /\ u.pc # "delete"

(* Begin is the whole of Reconcile up to its first call to the outside.    *)
LEMMA BeginOK ==
  ASSUME TypeOK, NEW w \in Controllers, NEW c \in Claims, Begin(w, c)
  PROVE  \E u, q : Put(w, u, q) /\ q \in SUBSET Claims /\ (u = Idle \/ Begun(u, w, c))
<1> DEFINE object == cache[w][c]
           pod == podCache[w][PodNameOf[c]]
           waiting == queue[w] \ {c}
           t == [Idle EXCEPT !.claim = c, !.obj = object, !.version = version[w][c],
                             !.phase = object.phase, !.ref = object.ref,
                             !.expires = object.expires, !.at = now]
<1>1. /\ object \in ClaimObjects /\ pod \in PodObjects /\ waiting \in SUBSET Claims
      /\ version[w][c] \in Versions /\ now \in 0 .. MaxTime
  BY ClaimsAreSandboxes DEF TypeOK
<1>2. /\ object.phase \in Phases /\ object.ref \in BOOLEAN /\ object.expires \in Times
      /\ object.deleting \in BOOLEAN
  <2> HIDE DEF object
  <2> QED BY <1>1 DEF ClaimObjects
<1>3. /\ t \in Works /\ t.pc = "idle" /\ t.claim = c /\ t.obj = object
      /\ t.version = version[w][c] /\ t.phase = object.phase /\ t.expires = object.expires
  <2> HIDE DEF object
  <2> QED BY <1>1, <1>2 DEF Works, Idle
<1>4. \/ ~object.exists /\ Put(w, Idle, waiting)
      \/ /\ object.exists /\ Doomed(object)
         /\ Put(w, [t EXCEPT !.pc = "delete", !.at = 0], waiting)
      \/ /\ object.exists /\ ~Doomed(object) /\ object.phase = "Deleted"
         /\ Put(w, AfterPods(t), waiting)
      \/ /\ object.exists /\ ~Doomed(object) /\ object.phase # "Deleted"
         /\ \/ Put(w, [t EXCEPT !.pc = "create"], waiting)
            \/ Examine(w, t, pod, waiting)
  BY DEF Begin
<1> HIDE DEF t, object, pod, waiting
<1>5. object.exists /\ ~Doomed(object) => InProgress(t)
  BY <1>3 DEF InProgress, Doomed
<1>6. CASE ~object.exists /\ Put(w, Idle, waiting)
  BY <1>1, <1>6
<1>7. CASE /\ object.exists /\ Doomed(object)
           /\ Put(w, [t EXCEPT !.pc = "delete", !.at = 0], waiting)
  <2> DEFINE u == [t EXCEPT !.pc = "delete", !.at = 0]
  <2>1. /\ u \in Works /\ u.pc = "delete" /\ u.claim = c /\ u.obj = object
        /\ u.version = version[w][c] /\ u.phase = object.phase /\ u.expires = object.expires
    <3>1. 0 \in 0 .. MaxTime
      BY TimesAreNaturals
    <3>2. t \in Works => u \in Works
      BY Zenon, <3>1 DEF Works
    <3>3. t \in Works => /\ u.pc = "delete" /\ u.claim = t.claim /\ u.obj = t.obj
                         /\ u.version = t.version /\ u.phase = t.phase
                         /\ u.expires = t.expires
      BY DEF Works
    <3> QED
      BY <1>3, <3>2, <3>3
  <2>2. Put(w, u, waiting)
    BY <1>7
  <2> HIDE DEF u
  <2>3. Begun(u, w, c)
    BY <1>7, <2>1 DEF Begun, WorkOK, InProgress, object
  <2> QED
    BY <1>1, <2>2, <2>3
<1>8. CASE /\ object.exists /\ ~Doomed(object) /\ object.phase = "Deleted"
           /\ Put(w, AfterPods(t), waiting)
  <2> DEFINE u == AfterPods(t)
  <2>1. /\ WorkOK(u) /\ SameCall(u, t) /\ SameStatus(u, t)
        /\ u.pc \in {"route", "finalizer", "status"}
        /\ u.pc # "route" => ~(t.phase = "Deleted" /\ t.ref)
    BY <1>3, <1>5, <1>8, AfterPodsOK
  <2>2. Put(w, u, waiting)
    BY <1>8
  <2> HIDE DEF u
  <2>3. u # Idle
    BY <2>1, NullTypes
  <2>4. Begun(u, w, c)
    BY <1>3, <1>8, <2>1, <2>3 DEF Begun, WorkOK, InProgress, SameCall, SameStatus, object
  <2> QED
    BY <1>1, <2>2, <2>4
<1>9. CASE /\ object.exists /\ ~Doomed(object) /\ object.phase # "Deleted"
           /\ Put(w, [t EXCEPT !.pc = "create"], waiting)
  <2> DEFINE u == [t EXCEPT !.pc = "create"]
  <2>1. /\ u \in Works /\ u.pc = "create" /\ u.claim = c /\ u.obj = object
        /\ u.version = version[w][c] /\ u.phase = object.phase /\ u.expires = object.expires
    BY <1>3 DEF Works
  <2>2. Put(w, u, waiting)
    BY <1>9
  <2> HIDE DEF u
  <2>3. InProgress(u)
    BY <1>9, <2>1 DEF InProgress, Doomed
  <2>4. Begun(u, w, c)
    BY <1>9, <2>1, <2>3 DEF Begun, WorkOK, object
  <2> QED
    BY <1>1, <2>2, <2>4
<1>10. CASE /\ object.exists /\ ~Doomed(object) /\ object.phase # "Deleted"
            /\ Examine(w, t, pod, waiting)
  <2>1. PICK u, q : /\ Put(w, u, q) /\ q \in SUBSET Claims
                    /\ WorkOK(u)
                    /\ u = Idle \/ (SameCall(u, t) /\ u.phase # "Deleted" /\ u.pc \notin {"create", "delete"})
    BY <1>1, <1>3, <1>5, <1>10, ExamineOK
  <2>2. u = Idle \/ Begun(u, w, c)
    BY <1>3, <1>10, <2>1 DEF Begun, SameCall, object
  <2> QED
    BY <2>1, <2>2
<1> QED
  BY <1>4, <1>6, <1>7, <1>8, <1>9, <1>10
----------------------------------------------------------------------------
(* The part of the state that only has to keep its type. *)
Surroundings ==
  /\ now \in 0 .. MaxTime
  /\ pods \in [PodNames -> PodObjects]
  /\ orphans \subseteq PodNames
  /\ routes \in RouteTables
  /\ late \subseteq Claims \X (Targets \cup {NoTarget})
  /\ podCache \in [Controllers -> [PodNames -> PodObjects]]

(* A step of one controller that writes no claim: the call it is in        *)
(* afterwards is sound and, if it counts as up to date, agrees.            *)
LEMMA PutKeeps ==
  ASSUME ClaimInv, NEW w \in Controllers, NEW u, NEW q \in SUBSET Claims,
         Put(w, u, q), WorkOK(u),
         u.claim \in Claims /\ u.version = "latest" => u.obj = claims[u.claim],
         UNCHANGED <<claims, cache, version>>, Surroundings'
  PROVE  ClaimInv'
<1>1. /\ work' = [work EXCEPT ![w] = u] /\ queue' = [queue EXCEPT ![w] = q]
      /\ u \in Works /\ work \in [Controllers -> Works]
      /\ queue \in [Controllers -> SUBSET Claims]
  BY DEF Put, WorkOK, ClaimInv, TypeOK
<1>2. TypeOK'
  BY <1>1 DEF Surroundings, ClaimInv, TypeOK
<1>3. AbsentIsEmpty' /\ CopiesAgree' /\ ReadyHasFinalizer'
  BY DEF ClaimInv, AbsentIsEmpty, CopiesAgree, ReadyHasFinalizer
<1>4. WorksAgree' /\ \A v \in Controllers : WorkOK(work[v])'
  <2> SUFFICES ASSUME NEW v \in Controllers
               PROVE  /\ WorkOK(work'[v])
                      /\ work'[v].claim \in Claims /\ work'[v].version = "latest" =>
                           work'[v].obj = claims[work'[v].claim]
    BY DEF WorksAgree, WorkOK, InProgress
  <2>1. CASE v = w
    BY <1>1, <2>1
  <2>2. CASE v # w
    BY <1>1, <2>2 DEF ClaimInv, WorksAgree
  <2> QED BY <2>1, <2>2
<1> QED
  BY <1>2, <1>3, <1>4 DEF ClaimInv

(* A controller that leaves its call keeps the invariant. *)
LEMMA IdleKeeps ==
  ASSUME ClaimInv, NEW w \in Controllers, NEW q \in SUBSET Claims, Put(w, Idle, q),
         UNCHANGED <<claims, cache, version>>, Surroundings'
  PROVE  ClaimInv'
BY PutKeeps, NullTypes, NoClaimIsNone

(* A controller that goes on with its call keeps the invariant. *)
LEMMA GoOnKeeps ==
  ASSUME ClaimInv, NEW w \in Controllers, NEW u, NEW q \in SUBSET Claims,
         Put(w, u, q), WorkOK(u), SameCall(u, work[w]),
         UNCHANGED <<claims, cache, version>>, Surroundings'
  PROVE  ClaimInv'
<1>1. u.claim \in Claims /\ u.version = "latest" => u.obj = claims[u.claim]
  BY Zenon DEF ClaimInv, WorksAgree, SameCall
<1> QED
  BY <1>1, PutKeeps

(* A Reconcile call under way is in progress. *)
LEMMA UnderWay ==
  ASSUME ClaimInv, NEW w \in Controllers, work[w].pc # "idle"
  PROVE  /\ work[w] \in Works /\ InProgress(work[w]) /\ work[w].claim \in Claims
         /\ PodNameOf[work[w].claim] \in PodNames
         /\ queue[w] \in SUBSET Claims /\ queue[w] \cup {work[w].claim} \in SUBSET Claims
<1>1. work[w] \in Works /\ InProgress(work[w])
  BY NullTypes DEF ClaimInv, WorkOK
<1>2. work[w].claim \in Claims
  BY <1>1 DEF InProgress
<1> QED
  BY <1>1, <1>2, ClaimsAreSandboxes DEF ClaimInv, TypeOK

(* Reconcile begins from the cache, which CopiesAgree vouches for.         *)
LEMMA BeginKeeps ==
  ASSUME ClaimInv, NEW w \in Controllers, NEW c \in Claims, Begin(w, c)
  PROVE  ClaimInv'
<1>1. PICK u, q : Put(w, u, q) /\ q \in SUBSET Claims /\ (u = Idle \/ Begun(u, w, c))
  BY BeginOK DEF ClaimInv
<1>2. UNCHANGED <<claims, cache, version>> /\ Surroundings'
  BY DEF Begin, apiVars, cacheVars, ClaimInv, TypeOK, Surroundings
<1>3. CASE u = Idle
  BY <1>1, <1>2, <1>3, IdleKeeps
<1>4. CASE Begun(u, w, c)
  <2>1. WorkOK(u) /\ (u.claim \in Claims /\ u.version = "latest" => u.obj = claims[u.claim])
    BY <1>4 DEF Begun, ClaimInv, CopiesAgree
  <2> QED BY <1>1, <1>2, <2>1, PutKeeps
<1> QED
  BY <1>1, <1>3, <1>4

(* Whether the Pod is created or found, the call goes on or is retried.    *)
LEMMA CreatePodOK ==
  ASSUME ClaimInv, NEW w \in Controllers, CreatePod(w)
  PROVE  \E u, q : /\ Put(w, u, q) /\ q \in SUBSET Claims
                   /\ u = Idle \/ (/\ WorkOK(u) /\ SameCall(u, work[w])
                                   /\ u.phase # "Deleted" /\ u.pc = "reread")
<1> DEFINE t == work[w]
           u == [t EXCEPT !.pc = "reread"]
<1>1. /\ t \in Works /\ InProgress(t) /\ t.pc = "create"
      /\ queue[w] \in SUBSET Claims /\ queue[w] \cup {t.claim} \in SUBSET Claims
  BY UnderWay DEF CreatePod
<1>2. Put(w, u, queue[w]) \/ Put(w, Idle, queue[w] \cup {t.claim})
  BY DEF CreatePod, Retry
<1>3. /\ u \in Works /\ u.pc = "reread" /\ SameCall(u, t)
      /\ u.phase = t.phase /\ u.expires = t.expires
  <2> HIDE DEF t
  <2> QED BY <1>1 DEF Works, SameCall
<1> HIDE DEF u, t
<1>4. WorkOK(u) /\ u.phase # "Deleted"
  BY <1>1, <1>3 DEF InProgress, WorkOK, SameCall
<1> QED
  BY <1>1, <1>2, <1>3, <1>4 DEF t

(* CreatePod keeps the invariant; the Pod it adds is of its type.          *)
LEMMA CreatePodKeeps ==
  ASSUME ClaimInv, NEW w \in Controllers, CreatePod(w)
  PROVE  ClaimInv'
<1>1. PICK u, q : /\ Put(w, u, q) /\ q \in SUBSET Claims
                  /\ u = Idle \/ (/\ WorkOK(u) /\ SameCall(u, work[w])
                                  /\ u.phase # "Deleted" /\ u.pc = "reread")
  BY CreatePodOK
<1>2. Surroundings'
  <2> DEFINE p == PodNameOf[work[w].claim]
             pod == [NoPod EXCEPT !.state = "starting", !.owner = work[w].claim]
  <2>1. p \in PodNames /\ work[w].claim \in Claims
    BY UnderWay DEF CreatePod
  <2>2. pod \in PodObjects
    BY Zenon, <2>1 DEF NoPod, PodObjects
  <2>3. /\ pods' = pods \/ pods' = [pods EXCEPT ![p] = pod]
        /\ orphans' = orphans \/ orphans' = orphans \cup {p}
        /\ UNCHANGED <<now, routes, late, podCache>>
    BY DEF CreatePod, cacheVars
  <2> HIDE DEF p, pod
  <2> QED BY Zenon, <2>1, <2>2, <2>3 DEF ClaimInv, TypeOK, Surroundings
<1>3. UNCHANGED <<claims, cache, version>>
  BY DEF CreatePod, cacheVars
<1> QED
  BY <1>1, <1>2, <1>3, IdleKeeps, GoOnKeeps

(* Reading the Pod again after the Create. *)
LEMMA RereadPodOK ==
  ASSUME ClaimInv, NEW w \in Controllers, RereadPod(w)
  PROVE  \E u, q : /\ Put(w, u, q) /\ q \in SUBSET Claims
                   /\ u = Idle \/ (/\ WorkOK(u) /\ SameCall(u, work[w])
                                   /\ u.phase # "Deleted" /\ u.pc \notin {"create", "delete"})
<1> DEFINE t == work[w]
           pod == podCache[w][PodNameOf[t.claim]]
<1>1. /\ t \in Works /\ InProgress(t) /\ t.pc = "reread" /\ queue[w] \in SUBSET Claims
      /\ pod \in PodObjects
  BY UnderWay DEF RereadPod, ClaimInv, TypeOK
<1>2. Examine(w, t, pod, queue[w])
  BY DEF RereadPod
<1> HIDE DEF t, pod
<1>3. t.phase # "Deleted"
  BY <1>1 DEF InProgress
<1>4. \E u, q : /\ Put(w, u, q) /\ q \in SUBSET Claims /\ WorkOK(u)
                /\ u = Idle \/ (SameCall(u, t) /\ u.phase # "Deleted" /\ u.pc \notin {"create", "delete"})
  BY <1>1, <1>2, <1>3, ExamineOK
<1> QED
  BY <1>4 DEF t

(* RereadPod keeps the invariant. *)
LEMMA RereadPodKeeps ==
  ASSUME ClaimInv, NEW w \in Controllers, RereadPod(w)
  PROVE  ClaimInv'
<1>1. UNCHANGED <<claims, cache, version>> /\ Surroundings'
  BY DEF RereadPod, apiVars, cacheVars, ClaimInv, TypeOK, Surroundings
<1> QED
  BY <1>1, RereadPodOK, IdleKeeps, GoOnKeeps

(* The Pod is told to go. *)
TakenDown(p) ==
  pods' = [pods EXCEPT ![p].state = IF @ = "absent" THEN @ ELSE "terminating"]

(* reconcileDelete goes on only when the API server has taken the request  *)
(* to delete the Pod; a claim without a sandboxRef has no route to remove. *)
LEMMA DeletePodOK ==
  ASSUME ClaimInv, NEW w \in Controllers, DeletePod(w)
  PROVE  \E u, q : /\ Put(w, u, q) /\ q \in SUBSET Claims
                   /\ \/ u = Idle
                      \/ /\ WorkOK(u) /\ SameCall(u, work[w]) /\ u.phase = "Deleted"
                         /\ u.pc = "route" \/ (u.pc = "status" /\ ~u.ref)
                         /\ TakenDown(PodNameOf[work[w].claim])
<1> DEFINE t == work[w]
           s == [t EXCEPT !.phase = "Deleted", !.expires = 0]
           u == AfterPods(s)
           gone == TakenDown(PodNameOf[t.claim])
<1>1. /\ t \in Works /\ InProgress(t) /\ t.pc = "delete"
      /\ queue[w] \in SUBSET Claims /\ queue[w] \cup {t.claim} \in SUBSET Claims
  BY UnderWay DEF DeletePod
<1>2. (gone /\ Put(w, u, queue[w])) \/ Put(w, Idle, queue[w] \cup {t.claim})
  BY DEF DeletePod, Retry, TakenDown
<1>3. s \in Works /\ s.pc = "delete" /\ SameCall(s, t) /\ s.phase = "Deleted"
  <2>1. 0 \in Times
    BY TimesAreNaturals DEF Times
  <2> HIDE DEF t
  <2> QED BY <1>1, <2>1 DEF Works, SameCall, Phases
<1> HIDE DEF s, t, gone
<1>4. InProgress(s)
  BY <1>1, <1>3 DEF InProgress, SameCall
<1>5. /\ WorkOK(u) /\ SameCall(u, s) /\ SameStatus(u, s)
      /\ u.pc \in {"route", "finalizer", "status"}
      /\ u.pc # "route" => ~(s.phase = "Deleted" /\ s.ref)
  BY <1>3, <1>4, AfterPodsOK
<1> HIDE DEF u
<1>6. /\ WorkOK(u) /\ SameCall(u, t) /\ u.phase = "Deleted"
      /\ u.pc = "route" \/ (u.pc = "status" /\ ~u.ref)
  <2>1. u # Idle
    BY <1>5, NullTypes
  <2> QED BY <1>3, <1>5, <2>1 DEF WorkOK, InProgress, SameCall, SameStatus
<1>7. CASE gone /\ Put(w, u, queue[w])
  BY <1>1, <1>6, <1>7 DEF t, gone
<1>8. CASE Put(w, Idle, queue[w] \cup {t.claim})
  BY <1>1, <1>8
<1> QED
  BY <1>2, <1>7, <1>8, Zenon

(* DeletePod keeps the invariant. *)
LEMMA DeletePodKeeps ==
  ASSUME ClaimInv, NEW w \in Controllers, DeletePod(w)
  PROVE  ClaimInv'
<1>1. PodNameOf[work[w].claim] \in PodNames
  BY UnderWay DEF DeletePod
<1>2. UNCHANGED <<claims, cache, version>> /\ Surroundings'
  <2>1. pods' \in [PodNames -> PodObjects]
    <3> DEFINE p == PodNameOf[work[w].claim]
               pod == [pods[p] EXCEPT !.state = IF @ = "absent" THEN @ ELSE "terminating"]
    <3>1. pods \in [PodNames -> PodObjects] /\ pods[p] \in PodObjects
      BY <1>1 DEF ClaimInv, TypeOK
    <3>2. pod \in PodObjects
      BY <3>1 DEF PodObjects
    <3>3. pods' = pods \/ pods' = [pods EXCEPT ![p] = pod]
      BY DEF DeletePod
    <3> HIDE DEF p, pod
    <3> QED BY <3>1, <3>2, <3>3
  <2> QED BY <2>1 DEF DeletePod, cacheVars, ClaimInv, TypeOK, Surroundings
<1> QED
  BY <1>2, DeletePodOK, IdleKeeps, GoOnKeeps

(* After syncRoute the route is what the phase calls for, or the call      *)
(* knows that it failed.                                                   *)
LEMMA SyncRouteOK ==
  ASSUME ClaimInv, NEW w \in Controllers, SyncRoute(w)
  PROVE  \E u : /\ Put(w, u, queue[w]) /\ WorkOK(u) /\ SameCall(u, work[w])
                /\ u.phase = work[w].phase /\ u.ref = work[w].ref
                /\ u.pc \in {"finalizer", "status"}
                /\ u.routeErr \/ work[w].phase # "Deleted"
                     \/ routes' = [routes EXCEPT ![work[w].claim] = NoTarget]
<1> DEFINE t == work[w]
           s == [t EXCEPT !.routeErr = TRUE]
<1>1. t \in Works /\ InProgress(t) /\ t.pc = "route"
  BY UnderWay DEF SyncRoute
<1>2. \/ Put(w, AfterRoute(s), queue[w])
      \/ /\ Put(w, AfterRoute(t), queue[w])
         /\ t.phase # "Deleted" \/ routes' = [routes EXCEPT ![t.claim] = NoTarget]
  BY DEF SyncRoute, Unregister
<1>3. /\ s \in Works /\ s.pc = "route" /\ SameCall(s, t) /\ s.routeErr
      /\ s.phase = t.phase /\ s.ref = t.ref /\ s.expires = t.expires
  <2> HIDE DEF t
  <2> QED BY Zenon, <1>1 DEF Works, SameCall
<1> HIDE DEF t, s
<1>4. InProgress(s)
  BY <1>1, <1>3 DEF InProgress, SameCall
<1>5. /\ WorkOK(AfterRoute(s)) /\ SameCall(AfterRoute(s), s) /\ SameStatus(AfterRoute(s), s)
      /\ AfterRoute(s).pc \in {"finalizer", "status"}
  BY <1>3, <1>4, AfterRouteOK
<1>6. /\ WorkOK(AfterRoute(t)) /\ SameCall(AfterRoute(t), t) /\ SameStatus(AfterRoute(t), t)
      /\ AfterRoute(t).pc \in {"finalizer", "status"}
  BY <1>1, AfterRouteOK
<1>7. CASE Put(w, AfterRoute(s), queue[w])
  BY Zenon, <1>3, <1>5, <1>7 DEF SameCall, SameStatus, t
<1>8. CASE /\ Put(w, AfterRoute(t), queue[w])
           /\ t.phase # "Deleted" \/ routes' = [routes EXCEPT ![t.claim] = NoTarget]
  BY <1>6, <1>8 DEF SameStatus, t
<1> QED
  BY <1>2, <1>7, <1>8

(* SyncRoute keeps the invariant. *)
LEMMA SyncRouteKeeps ==
  ASSUME ClaimInv, NEW w \in Controllers, SyncRoute(w)
  PROVE  ClaimInv'
<1>1. /\ work[w].claim \in Claims /\ work[w].ip \in Targets \cup {NoTarget}
      /\ queue[w] \in SUBSET Claims
  BY UnderWay DEF SyncRoute, Works
<1>2. UNCHANGED <<claims, cache, version>> /\ Surroundings'
  <2> DEFINE target == IF work[w].phase = "Ready" THEN work[w].ip ELSE NoTarget
  <2>1. /\ target \in Targets \cup {NoTarget}
        /\ routes' = routes \/ routes' = [routes EXCEPT ![work[w].claim] = target]
        /\ late' = late \/ late' = late \cup {<<work[w].claim, target>>}
    BY <1>1 DEF SyncRoute, Set, Unregister
  <2> HIDE DEF target
  <2>2. routes' \in RouteTables /\ late' \subseteq Claims \X (Targets \cup {NoTarget})
    <3>1. routes \in RouteTables /\ late \subseteq Claims \X (Targets \cup {NoTarget})
      BY DEF ClaimInv, TypeOK
    <3>2. routes' \in RouteTables
      BY <1>1, <2>1, <3>1, ClaimsAreSandboxes DEF RouteTables
    <3>3. late' \subseteq Claims \X (Targets \cup {NoTarget})
      BY <1>1, <2>1, <3>1
    <3> QED BY <3>2, <3>3
  <2> QED
    BY <2>2 DEF SyncRoute, apiVars, cacheVars, ClaimInv, TypeOK, Surroundings
<1> QED
  BY <1>1, <1>2, SyncRouteOK, GoOnKeeps
----------------------------------------------------------------------------
(* A write of a claim leaves every other call sound, and none that counts  *)
(* as up to date with an object other than the stored one.                 *)
LEMMA OutdatedWorkOK ==
  ASSUME ClaimInv, NEW c \in Claims, NEW object, NEW v \in Controllers,
         Save(c, object), NEW x, x = OutdatedWork(c, object)[v]
  PROVE  /\ WorkOK(x)
         /\ x.claim = work[v].claim /\ x.obj = work[v].obj /\ x.pc = work[v].pc
         /\ x.phase = work[v].phase /\ x.ref = work[v].ref /\ x.routeErr = work[v].routeErr
         /\ x.version = "latest" => work[v].version = "latest"
         /\ x.claim = c /\ x.version = "latest" => object = claims[c]
         /\ x.claim \in Claims /\ x.version = "latest" => x.obj = claims'[x.claim]
<1> DEFINE t == work[v]
           o == Outdated(c, object, t.version)
           y == [t EXCEPT !.version = o]
<1>1. t \in Works /\ WorkOK(t) /\ t.version \in Versions
  BY DEF ClaimInv, WorkOK, Works
<1>2. x = IF t.claim = c THEN y ELSE t
  BY DEF OutdatedWork
<1>3. o \in Versions /\ (o = "latest" => t.version = "latest" /\ object = claims[c])
  BY <1>1 DEF Outdated, Versions
<1>4. t.claim \in Claims /\ t.version = "latest" => t.obj = claims[t.claim]
  BY DEF ClaimInv, WorksAgree
<1> HIDE DEF t, o
<1>5. /\ y \in Works /\ y.version = o /\ y.claim = t.claim /\ y.obj = t.obj
      /\ y.pc = t.pc /\ SameStatus(y, t)
  BY <1>1, <1>3 DEF Works, SameStatus
<1>6. t.claim = c => InProgress(t) /\ t.pc # "idle"
  BY <1>1, NullTypes, NoClaimIsNone DEF WorkOK
<1> HIDE DEF y
<1>7. t.claim = c => WorkOK(y)
  BY <1>5, <1>6 DEF WorkOK, InProgress, SameStatus
<1>8. \A d \in Claims : claims'[d] = IF d = c THEN object ELSE claims[d]
  BY DEF Save, ClaimInv, TypeOK
<1>9. CASE t.claim = c
  <2>1. x = y
    BY <1>2, <1>9
  <2> QED BY <1>3, <1>4, <1>5, <1>7, <1>8, <1>9, <2>1 DEF SameStatus, t
<1>10. CASE t.claim # c
  <2>1. x = t
    BY <1>2, <1>10
  <2> QED BY <1>1, <1>4, <1>8, <1>10, <2>1 DEF t
<1> QED
  BY <1>9, <1>10

(* An object that may be stored: nothing, or a claim that has a finalizer  *)
(* if it is Ready.                                                         *)
Storable(object) ==
  /\ object \in ClaimObjects
  /\ object.exists \/ object = NoObject
  /\ object.phase = "Ready" => object.finalizer

(* A write of a claim, by a user or a controller, keeps the invariant if   *)
(* each call afterwards is the outdated one or agrees with what is stored. *)
LEMMA SaveKeeps ==
  ASSUME ClaimInv, NEW c \in Claims, NEW object, Storable(object), Save(c, object),
         queue' \in [Controllers -> SUBSET Claims], DOMAIN work' = Controllers,
         work' = [v \in Controllers |-> work'[v]],
         \A v \in Controllers :
           \/ work'[v] = OutdatedWork(c, object)[v]
           \/ work'[v] = Idle
           \/ WorkOK(work'[v]) /\ work'[v].claim = c /\ work'[v].obj = object,
         UNCHANGED <<now, pods, routes, late, cache, podCache>>
  PROVE  ClaimInv'
<1>1. /\ claims' = [claims EXCEPT ![c] = object]
      /\ version' = [w \in Controllers |-> [version[w] EXCEPT ![c] = Outdated(c, object, @)]]
      /\ orphans' \subseteq PodNames
  BY DEF Save, OutdatedCopies, OrphanedBy, ClaimInv, TypeOK
<1>2. claims' \in [Claims -> ClaimObjects] /\ \A d \in Claims : claims'[d] = IF d = c THEN object ELSE claims[d]
  BY <1>1 DEF Storable, ClaimInv, TypeOK
<1>3. ASSUME NEW w \in Controllers
      PROVE  /\ version'[w] \in [Claims -> Versions]
             /\ \A d \in Claims : version'[w][d] = "latest" => cache[w][d] = claims'[d]
  <2>1. version[w] \in [Claims -> Versions]
    BY DEF ClaimInv, TypeOK
  <2>2. version'[w] = [version[w] EXCEPT ![c] = Outdated(c, object, version[w][c])]
    BY <1>1, <2>1
  <2>3. /\ Outdated(c, object, version[w][c]) \in Versions
        /\ Outdated(c, object, version[w][c]) = "latest" =>
             version[w][c] = "latest" /\ object = claims[c]
    BY <2>1 DEF Outdated, Versions
  <2> QED BY <1>2, <2>1, <2>2, <2>3 DEF ClaimInv, CopiesAgree
<1>4. ASSUME NEW v \in Controllers
      PROVE  /\ WorkOK(work'[v])
             /\ work'[v].claim \in Claims /\ work'[v].version = "latest" =>
                  work'[v].obj = claims'[work'[v].claim]
  <2>1. CASE work'[v] = OutdatedWork(c, object)[v]
    BY <2>1, OutdatedWorkOK
  <2>2. CASE work'[v] = Idle
    BY <2>2, NullTypes, NoClaimIsNone
  <2>3. CASE WorkOK(work'[v]) /\ work'[v].claim = c /\ work'[v].obj = object
    BY <1>2, <2>3
  <2> QED BY <2>1, <2>2, <2>3
<1>5. TypeOK'
  <2>1. work' \in [Controllers -> Works]
    BY <1>4 DEF WorkOK
  <2>2. version' \in [Controllers -> [Claims -> Versions]]
    BY <1>1, <1>3
  <2> QED BY <1>1, <1>2, <2>1, <2>2 DEF ClaimInv, TypeOK
<1>6. AbsentIsEmpty' /\ ReadyHasFinalizer'
  BY <1>2 DEF Storable, ClaimInv, AbsentIsEmpty, ReadyHasFinalizer
<1>7. CopiesAgree' /\ WorksAgree'
  BY <1>3, <1>4 DEF CopiesAgree, WorksAgree
<1>8. \A v \in Controllers : WorkOK(work[v])'
  BY <1>4 DEF WorkOK, InProgress
<1> QED
  BY <1>5, <1>6, <1>7, <1>8 DEF ClaimInv

(* A user's write. *)
LEMMA UserKeeps ==
  ASSUME ClaimInv, NEW c \in Claims, NEW object, Storable(object), UserWrites(c, object)
  PROVE  ClaimInv'
<1>1. /\ Save(c, object) /\ work' = OutdatedWork(c, object)
      /\ UNCHANGED <<now, pods, routes, late, cache, podCache, queue>>
  BY DEF UserWrites
<1>2. DOMAIN work' = Controllers /\ work' = [v \in Controllers |-> work'[v]]
  BY <1>1 DEF OutdatedWork
<1>3. queue' \in [Controllers -> SUBSET Claims]
  BY <1>1 DEF ClaimInv, TypeOK
<1> QED
  BY <1>1, <1>2, <1>3, SaveKeeps

(* A controller's write: refused, or stored.  If it is stored, the call    *)
(* goes on from what it wrote, ends, or learns nothing of it.              *)
LEMMA WriteKeeps ==
  ASSUME ClaimInv, NEW w \in Controllers, work[w].pc # "idle",
         NEW object, Storable(object), NEW t, NEW waiting \in SUBSET Claims,
         WriteClaim(w, object, t, waiting),
         LET own == [t EXCEPT !.obj = IF t.pc = "idle" THEN NoObject ELSE object] IN
           own = Idle \/ (WorkOK(own) /\ own.claim = work[w].claim /\ own.obj = object),
         UNCHANGED <<now, pods, routes, late, cache, podCache>>
  PROVE  ClaimInv'
<1> DEFINE c == work[w].claim
           own == [t EXCEPT !.obj = IF t.pc = "idle" THEN NoObject ELSE object]
<1>1. /\ c \in Claims /\ queue[w] \cup {c} \in SUBSET Claims
      /\ queue \in [Controllers -> SUBSET Claims]
  BY UnderWay DEF ClaimInv, TypeOK
<1>2. own = Idle \/ (WorkOK(own) /\ own.claim = c /\ own.obj = object)
  OBVIOUS
<1> HIDE DEF own, c
<1>3. CASE /\ Save(c, object)
           /\ \E x \in {own, Idle}, q \in SUBSET Claims :
                /\ work' = [OutdatedWork(c, object) EXCEPT ![w] = x]
                /\ queue' = [queue EXCEPT ![w] = q]
  <2>1. PICK x \in {own, Idle}, q \in SUBSET Claims :
               /\ work' = [OutdatedWork(c, object) EXCEPT ![w] = x]
               /\ queue' = [queue EXCEPT ![w] = q]
    BY Zenon, <1>3
  <2>2. x = Idle \/ (WorkOK(x) /\ x.claim = c /\ x.obj = object)
    BY <1>2, <2>1
  <2>3. /\ DOMAIN work' = Controllers /\ work' = [v \in Controllers |-> work'[v]]
        /\ work'[w] = x
        /\ \A v \in Controllers : v # w => work'[v] = OutdatedWork(c, object)[v]
    BY Zenon, <2>1 DEF OutdatedWork
  <2>4. queue' \in [Controllers -> SUBSET Claims]
    BY <1>1, <2>1
  <2> QED
    <3>1. \A v \in Controllers :
            \/ work'[v] = OutdatedWork(c, object)[v]
            \/ work'[v] = Idle
            \/ WorkOK(work'[v]) /\ work'[v].claim = c /\ work'[v].obj = object
      BY <2>2, <2>3
    <3> QED BY Zenon, <1>1, <1>3, <2>3, <2>4, <3>1, SaveKeeps
<1>4. CASE Retry(w, c) /\ UNCHANGED <<claims, orphans, version>>
  <2>1. Surroundings'
    BY <1>4 DEF ClaimInv, TypeOK, Surroundings
  <2> QED BY <1>1, <1>4, <2>1, IdleKeeps DEF Retry
<1> QED
  BY <1>1, <1>3, <1>4 DEF WriteClaim, own, c

(* What a write may do to a claim: a Deleted one stays so as long as it    *)
(* exists, and a reported expiry stands until then.                        *)
Follows(new, old) ==
  /\ old.phase = "Deleted" => new.phase = "Deleted" \/ ~new.exists
  /\ old.expires # 0 /\ new.phase # "Deleted" /\ new.exists => new.expires = old.expires

ClaimsFollow == \A c \in Claims : Follows(claims'[c], claims[c])

(* An accepted write is based on the stored object. *)
LEMMA WriteFollows ==
  ASSUME ClaimInv, NEW w \in Controllers, work[w].pc # "idle",
         NEW object, Follows(object, work[w].obj), NEW t, NEW waiting,
         WriteClaim(w, object, t, waiting)
  PROVE  ClaimsFollow
<1> DEFINE c == work[w].claim
<1>1. c \in Claims /\ claims \in [Claims -> ClaimObjects]
  BY UnderWay DEF ClaimInv, TypeOK
<1>2. \/ claims' = claims
      \/ claims' = [claims EXCEPT ![c] = object] /\ work[w].version = "latest"
  BY DEF WriteClaim, Save, UpToDate
<1>3. work[w].version = "latest" => work[w].obj = claims[c]
  BY <1>1 DEF ClaimInv, WorksAgree
<1> HIDE DEF c
<1> QED
  BY Zenon, <1>1, <1>2, <1>3 DEF ClaimsFollow, Follows

(* How a controller's write ends: refused, or stored.  Deleted is stored   *)
(* only by a call that means to, and a finalizer is taken off only by its  *)
(* last write.                                                             *)
Written(w, object, x) ==
  LET t == work[w] IN
  /\ t.version = "latest" /\ Save(t.claim, object) /\ work'[w] = x
  /\ object.phase = "Deleted" => t.phase = "Deleted" /\ t.pc # "finalizer"
  /\ t.obj.finalizer => object.finalizer \/ t.pc = "unfinalize"
  /\ \/ x = Idle
     \/ x.pc = "status" /\ x.phase # "Deleted"
     \/ x.pc = "unfinalize" /\ t.pc = "status" /\ x.claim = t.claim /\ SameStatus(x, t)

WriteEnds(w) ==
  \/ UNCHANGED <<claims, version>> /\ work'[w] = Idle
  \/ \E object, x : Written(w, object, x)

(* WriteClaim ends that way, if what it writes and goes on with is so.     *)
LEMMA WriteIs ==
  ASSUME ClaimInv, NEW w \in Controllers, NEW object, NEW t, NEW waiting,
         WriteClaim(w, object, t, waiting),
         object.phase = "Deleted" => work[w].phase = "Deleted" /\ work[w].pc # "finalizer",
         work[w].obj.finalizer => object.finalizer \/ work[w].pc = "unfinalize",
         LET own == [t EXCEPT !.obj = IF t.pc = "idle" THEN NoObject ELSE object] IN
         \/ own = Idle
         \/ own.pc = "status" /\ own.phase # "Deleted"
         \/ /\ own.pc = "unfinalize" /\ work[w].pc = "status" /\ own.claim = work[w].claim
            /\ SameStatus(own, work[w])
  PROVE  WriteEnds(w)
<1> DEFINE own == [t EXCEPT !.obj = IF t.pc = "idle" THEN NoObject ELSE object]
           c == work[w].claim
<1>1. \/ /\ UpToDate(work[w]) /\ Save(c, object)
         /\ \E x \in {own, Idle} : work' = [OutdatedWork(c, object) EXCEPT ![w] = x]
      \/ work' = [work EXCEPT ![w] = Idle] /\ UNCHANGED <<claims, orphans, version>>
  BY DEF WriteClaim, Retry, Put
<1>2. work \in [Controllers -> Works] /\ DOMAIN OutdatedWork(c, object) = Controllers
  BY DEF ClaimInv, TypeOK, OutdatedWork
<1>3. \/ own = Idle
      \/ own.pc = "status" /\ own.phase # "Deleted"
      \/ /\ own.pc = "unfinalize" /\ work[w].pc = "status" /\ own.claim = work[w].claim
         /\ SameStatus(own, work[w])
  OBVIOUS
<1> HIDE DEF own
<1>4. CASE work' = [work EXCEPT ![w] = Idle] /\ UNCHANGED <<claims, orphans, version>>
  BY <1>2, <1>4 DEF WriteEnds
<1>5. CASE /\ UpToDate(work[w]) /\ Save(c, object)
           /\ \E x \in {own, Idle} : work' = [OutdatedWork(c, object) EXCEPT ![w] = x]
  <2>1. PICK x \in {own, Idle} : work' = [OutdatedWork(c, object) EXCEPT ![w] = x]
    BY <1>5
  <2>2. work'[w] = x
    BY <1>2, <2>1
  <2>3. Written(w, object, x)
    BY <1>3, <1>5, <2>1, <2>2 DEF Written, UpToDate
  <2> QED BY <2>3 DEF WriteEnds
<1> QED
  BY <1>1, <1>4, <1>5

(* The finalizer is added to the object as it was read. *)
LEMMA AddFinalizerKeeps ==
  ASSUME ClaimInv, NEW w \in Controllers, AddFinalizer(w)
  PROVE  ClaimInv' /\ ClaimsFollow /\ WriteEnds(w)
<1> DEFINE t == work[w]
           object == [t.obj EXCEPT !.finalizer = TRUE]
           s == [t EXCEPT !.pc = "status"]
           own == [s EXCEPT !.obj = IF s.pc = "idle" THEN NoObject ELSE object]
<1>1. /\ t \in Works /\ InProgress(t) /\ t.pc = "finalizer" /\ queue[w] \in SUBSET Claims
      /\ t.obj \in ClaimObjects
  BY UnderWay DEF AddFinalizer, Works
<1>2. /\ WriteClaim(w, object, s, queue[w])
      /\ UNCHANGED <<now, pods, routes, late, cache, podCache>>
  BY DEF AddFinalizer
<1>3. /\ object \in ClaimObjects /\ object.finalizer /\ object.exists = t.obj.exists
      /\ object.phase = t.obj.phase /\ object.expires = t.obj.expires
      /\ object.deleting = t.obj.deleting
  <2> HIDE DEF t
  <2> QED BY Zenon, <1>1 DEF ClaimObjects
<1>4. Storable(object) /\ Follows(object, t.obj)
  <2> HIDE DEF object, t
  <2> QED BY <1>1, <1>3 DEF Storable, Follows, InProgress
<1>5. s \in Works /\ s.pc = "status" /\ SameCall(s, t) /\ SameStatus(s, t)
  <2> HIDE DEF t
  <2> QED BY <1>1 DEF Works, SameCall, SameStatus
<1>6. /\ WorkOK(own) /\ own.claim = t.claim /\ own.obj = object
      /\ own.pc = "status" /\ own.phase # "Deleted"
  <2> HIDE DEF s, t, object
  <2>1. /\ own \in Works /\ own.pc = "status" /\ own.claim = s.claim /\ own.obj = object
        /\ SameStatus(own, s)
    BY <1>3, <1>5 DEF Works, SameStatus
  <2> HIDE DEF own
  <2> QED BY Zenon, <1>1, <1>3, <1>5, <2>1 DEF WorkOK, InProgress, SameCall, SameStatus
<1>7. t.pc # "idle"
  BY <1>1
<1>8. ClaimInv'
  <2> HIDE DEF s, object
  <2> QED BY <1>1, <1>2, <1>4, <1>6, <1>7, WriteKeeps
<1>9. ClaimsFollow
  <2> HIDE DEF s, object
  <2> QED BY <1>2, <1>4, <1>7, WriteFollows
<1>10. WriteEnds(w)
  <2>1. t.phase # "Deleted" /\ t.obj.phase # "Deleted"
    <3> HIDE DEF t
    <3> QED BY <1>1 DEF InProgress
  <2> HIDE DEF s, object
  <2> QED BY <1>2, <1>3, <1>6, <2>1, WriteIs
<1> QED
  BY <1>8, <1>9, <1>10

(* The status that is written follows from the object that was read.       *)
LEMMA UpdateStatusKeeps ==
  ASSUME ClaimInv, NEW w \in Controllers, UpdateStatus(w)
  PROVE  ClaimInv' /\ ClaimsFollow /\ WriteEnds(w)
<1> DEFINE t == work[w]
           object == [t.obj EXCEPT !.phase = t.phase, !.ref = t.ref, !.expires = t.expires]
           s == [t EXCEPT !.pc = "unfinalize"]
           own == [s EXCEPT !.obj = IF s.pc = "idle" THEN NoObject ELSE object]
<1>1. /\ t \in Works /\ InProgress(t) /\ t.pc = "status" /\ queue[w] \in SUBSET Claims
      /\ queue[w] \cup {t.claim} \in SUBSET Claims /\ t.obj \in ClaimObjects
  BY UnderWay DEF UpdateStatus, Works
<1>2. /\ \/ CleanedUp(t) /\ WriteClaim(w, object, s, queue[w])
         \/ \E q \in SUBSET Claims : WriteClaim(w, object, Idle, q)
      /\ UNCHANGED <<now, pods, routes, late, cache, podCache>>
  <2> HIDE DEF s, object
  <2> QED BY <1>1 DEF UpdateStatus, s, object
<1>3. /\ object \in ClaimObjects /\ object.finalizer = t.obj.finalizer
      /\ object.exists = t.obj.exists /\ object.phase = t.phase
      /\ object.expires = t.expires /\ object.deleting = t.obj.deleting
      /\ object.ref = t.ref
  <2>1. t.phase \in Phases /\ t.ref \in BOOLEAN /\ t.expires \in Times
    BY <1>1 DEF Works
  <2> HIDE DEF t
  <2> QED BY Zenon, <1>1, <2>1 DEF ClaimObjects
<1>4. Storable(object) /\ Follows(object, t.obj)
  <2> HIDE DEF object, t
  <2> QED BY <1>1, <1>3 DEF Storable, Follows, InProgress
<1>5. s \in Works /\ s.pc = "unfinalize" /\ SameCall(s, t) /\ SameStatus(s, t)
  <2> HIDE DEF t
  <2> QED BY <1>1 DEF Works, SameCall, SameStatus
<1>6. CleanedUp(t) => /\ WorkOK(own) /\ own.claim = t.claim /\ own.obj = object
                      /\ own.pc = "unfinalize" /\ SameStatus(own, t)
  <2> HIDE DEF s, t, object
  <2>1. /\ own \in Works /\ own.pc = "unfinalize" /\ own.claim = s.claim /\ own.obj = object
        /\ SameStatus(own, s)
    BY <1>3, <1>5 DEF Works, SameStatus
  <2> HIDE DEF own
  <2> QED BY Zenon, <1>1, <1>3, <1>5, <2>1 DEF CleanedUp, WorkOK, InProgress, SameCall, SameStatus
<1>7. t.pc # "idle"
  BY <1>1
<1>8. ClaimInv'
  <2> HIDE DEF s, object
  <2>1. CASE CleanedUp(t) /\ WriteClaim(w, object, s, queue[w])
    BY <1>1, <1>2, <1>4, <1>6, <1>7, <2>1, WriteKeeps
  <2>2. CASE \E q \in SUBSET Claims : WriteClaim(w, object, Idle, q)
    <3>1. [Idle EXCEPT !.obj = IF Idle.pc = "idle" THEN NoObject ELSE object] = Idle
      BY NullTypes
    <3> QED BY <1>2, <1>4, <1>7, <2>2, <3>1, WriteKeeps
  <2> QED BY <1>2, <2>1, <2>2
<1>9. ClaimsFollow
  <2> HIDE DEF s, object
  <2> QED BY <1>2, <1>4, <1>7, WriteFollows
<1>10. WriteEnds(w)
  <2> HIDE DEF s, object
  <2>1. CASE CleanedUp(t) /\ WriteClaim(w, object, s, queue[w])
    BY <1>1, <1>3, <1>6, <2>1, WriteIs
  <2>2. CASE \E q \in SUBSET Claims : WriteClaim(w, object, Idle, q)
    <3>1. [Idle EXCEPT !.obj = IF Idle.pc = "idle" THEN NoObject ELSE object] = Idle
      BY NullTypes
    <3> QED BY <1>1, <1>3, <2>2, <3>1, WriteIs
  <2> QED BY <1>2, <2>1, <2>2
<1> QED
  BY <1>8, <1>9, <1>10

(* The finalizer goes from a claim that is Deleted; a claim that is being  *)
(* deleted goes with it.                                                   *)
LEMMA RemoveFinalizerKeeps ==
  ASSUME ClaimInv, NEW w \in Controllers, RemoveFinalizer(w)
  PROVE  ClaimInv' /\ ClaimsFollow /\ WriteEnds(w)
<1> DEFINE t == work[w]
           bare == [t.obj EXCEPT !.finalizer = FALSE]
           object == Stored(bare)
<1>1. /\ t \in Works /\ InProgress(t) /\ t.pc = "unfinalize" /\ queue[w] \in SUBSET Claims
      /\ t.obj \in ClaimObjects
  BY UnderWay DEF RemoveFinalizer, Works
<1>2. /\ WriteClaim(w, object, Idle, queue[w])
      /\ UNCHANGED <<now, pods, routes, late, cache, podCache>>
  BY DEF RemoveFinalizer
<1>3. /\ bare \in ClaimObjects /\ bare.exists = t.obj.exists
      /\ bare.phase = t.obj.phase /\ bare.expires = t.obj.expires
  <2> HIDE DEF t
  <2> QED BY Zenon, <1>1 DEF ClaimObjects
<1>4. t.obj.exists /\ t.obj.phase = "Deleted"
  <2> HIDE DEF t
  <2> QED BY <1>1 DEF InProgress
<1>5. object = NoObject \/ object = bare
  BY DEF Stored
<1>6. Storable(object) /\ Follows(object, t.obj)
  <2>1. ~NoObject.exists /\ NoObject.phase = "" /\ NoObject \in ClaimObjects
    BY NullTypes DEF NoObject
  <2> HIDE DEF bare, t, object
  <2> QED BY <1>3, <1>4, <1>5, <2>1 DEF Storable, Follows
<1>7. [Idle EXCEPT !.obj = IF Idle.pc = "idle" THEN NoObject ELSE object] = Idle
  BY NullTypes
<1>8. t.pc # "idle"
  BY <1>1
<1> HIDE DEF object, bare
<1>9. ClaimInv'
  BY <1>1, <1>2, <1>6, <1>7, <1>8, WriteKeeps
<1>10. ClaimsFollow
  BY <1>2, <1>6, <1>8, WriteFollows
<1>11. t.phase = "Deleted"
  <2> HIDE DEF t
  <2> QED BY <1>1 DEF InProgress
<1>12. WriteEnds(w)
  BY <1>1, <1>2, <1>7, <1>11, WriteIs
<1> QED
  BY <1>9, <1>10, <1>12

(* A user's write reports no phase and takes no finalizer. *)
Harmless(new, old) ==
  new.phase \in {"", old.phase} /\ (old.finalizer => new.finalizer)

(* Users create and delete claims and change what they desire. *)
LEMMA UsersWrite ==
  ASSUME ClaimInv, Users
  PROVE  \E c \in Claims : \E object :
           /\ UserWrites(c, object) /\ Storable(object) /\ Follows(object, claims[c])
           /\ Harmless(object, claims[c])
<1>1. PICK c \in Claims : \/ CreateClaim(c) \/ DeleteClaim(c)
                          \/ \E state \in {"Running", "Deleted"} : SetDesired(c, state)
  BY DEF Users
<1>2. /\ claims \in [Claims -> ClaimObjects] /\ claims[c] \in ClaimObjects
      /\ claims[c].phase = "Ready" => claims[c].finalizer
      /\ ~claims[c].exists => claims[c] = NoObject
  BY DEF ClaimInv, TypeOK, ReadyHasFinalizer, AbsentIsEmpty
<1>3. NoObject \in ClaimObjects /\ NoObject.phase = "" /\ ~NoObject.exists
      /\ NoObject.expires = 0 /\ ~NoObject.finalizer
  BY NullTypes DEF NoObject
<1>4. \E object : /\ UserWrites(c, object) /\ Storable(object)
                  /\ Follows(object, claims[c]) /\ Harmless(object, claims[c])
  <2>1. CASE CreateClaim(c)
    <3> DEFINE object == [NoObject EXCEPT !.exists = TRUE]
    <3>1. UserWrites(c, object) /\ claims[c] = NoObject
      BY <1>2, <2>1 DEF CreateClaim
    <3>2. object \in ClaimObjects /\ object.exists /\ object.phase = ""
      <4>1. \A o \in ClaimObjects : LET n == [o EXCEPT !.exists = TRUE] IN
              n \in ClaimObjects /\ n.exists /\ n.phase = o.phase
        BY Zenon DEF ClaimObjects
      <4> QED BY <1>3, <4>1
    <3> HIDE DEF object
    <3> QED BY <1>3, <3>1, <3>2 DEF Storable, Follows, Harmless
  <2>2. CASE DeleteClaim(c)
    <3> DEFINE gone == [claims[c] EXCEPT !.deleting = TRUE]
    <3>1. UserWrites(c, Stored(gone)) /\ claims[c].exists
      BY <2>2 DEF DeleteClaim
    <3>2. /\ gone \in ClaimObjects /\ gone.exists = claims[c].exists
          /\ gone.phase = claims[c].phase /\ gone.finalizer = claims[c].finalizer
          /\ gone.expires = claims[c].expires
      BY Zenon, <1>2 DEF ClaimObjects
    <3>3. (Stored(gone) = NoObject /\ ~gone.finalizer) \/ Stored(gone) = gone
      BY DEF Stored
    <3> HIDE DEF gone
    <3>4. Storable(Stored(gone)) /\ Follows(Stored(gone), claims[c])
          /\ Harmless(Stored(gone), claims[c])
      BY <1>2, <1>3, <3>1, <3>2, <3>3 DEF Storable, Follows, Harmless
    <3> QED BY <3>1, <3>4
  <2>3. ASSUME NEW state \in {"Running", "Deleted"}, SetDesired(c, state)
        PROVE  \E object : /\ UserWrites(c, object) /\ Storable(object)
                           /\ Follows(object, claims[c]) /\ Harmless(object, claims[c])
    <3> DEFINE object == [claims[c] EXCEPT !.desired = state]
    <3>1. UserWrites(c, object) /\ claims[c].exists
      BY <2>3 DEF SetDesired
    <3>2. /\ object \in ClaimObjects /\ object.exists = claims[c].exists
          /\ object.phase = claims[c].phase /\ object.finalizer = claims[c].finalizer
          /\ object.expires = claims[c].expires
      BY <1>2 DEF ClaimObjects
    <3> HIDE DEF object
    <3> QED BY <1>2, <3>1, <3>2 DEF Storable, Follows, Harmless
  <2> QED BY <1>1, <2>1, <2>2, <2>3
<1> QED
  BY <1>4

(* Users keep the invariant. *)
LEMMA UsersKeep ==
  ASSUME ClaimInv, Users
  PROVE  ClaimInv' /\ ClaimsFollow
<1>0. PICK c \in Claims : \E object :
             UserWrites(c, object) /\ Storable(object) /\ Follows(object, claims[c])
  BY UsersWrite
<1>1. PICK object : UserWrites(c, object) /\ Storable(object) /\ Follows(object, claims[c])
  BY <1>0
<1>2. claims \in [Claims -> ClaimObjects]
  BY DEF ClaimInv, TypeOK
<1>3. ClaimsFollow
  BY <1>1, <1>2 DEF UserWrites, Save, ClaimsFollow, Follows
<1> QED
  BY <1>1, <1>3, UserKeeps

(* Watch events and restarts make copies of what is stored. *)
LEMMA CopyKeeps ==
  ASSUME ClaimInv, NEW w \in Controllers, Watch(w) \/ Restart(w)
  PROVE  ClaimInv' /\ claims' = claims
<1> USE DEF ClaimInv, TypeOK
<1>1. ASSUME NEW c \in Claims, ObserveClaim(w, c) PROVE ClaimInv' /\ claims' = claims
  <2>1. /\ cache' = [cache EXCEPT ![w][c] = claims[c]]
        /\ version' = [version EXCEPT ![w][c] = "latest"]
        /\ queue' = [queue EXCEPT ![w] = @ \cup {c}]
        /\ UNCHANGED <<now, claims, pods, orphans, routes, late, podCache, work>>
    BY <1>1 DEF ObserveClaim, apiVars
  <2>2. TypeOK'
    BY <2>1 DEF Versions
  <2>3. CopiesAgree'
    BY <2>1 DEF CopiesAgree
  <2> QED BY Zenon, <2>1, <2>2, <2>3 DEF AbsentIsEmpty, WorksAgree, ReadyHasFinalizer
<1>2. ASSUME NEW p \in PodNames, ObservePod(w, p) PROVE ClaimInv' /\ claims' = claims
  <2>1. /\ podCache' = [podCache EXCEPT ![w][p] = pods[p]]
        /\ queue' = [queue EXCEPT ![w] =
                       @ \cup ({podCache[w][p].owner, pods[p].owner} \ {NoClaim})]
        /\ UNCHANGED <<now, claims, pods, orphans, routes, late, cache, version, work>>
    BY <1>2 DEF ObservePod, apiVars
  <2>2. /\ podCache[w][p].owner \in Claims \cup {NoClaim}
        /\ pods[p].owner \in Claims \cup {NoClaim}
    BY DEF PodObjects
  <2>3. TypeOK'
    <3>1. queue' \in [Controllers -> SUBSET Claims]
      BY <2>1, <2>2
    <3>2. podCache' \in [Controllers -> [PodNames -> PodObjects]]
      BY <2>1
    <3> QED BY <2>1, <3>1, <3>2
  <2> HIDE DEF TypeOK
  <2>4. AbsentIsEmpty' /\ CopiesAgree' /\ WorksAgree' /\ ReadyHasFinalizer'
    BY Zenon, <2>1 DEF AbsentIsEmpty, CopiesAgree, WorksAgree, ReadyHasFinalizer
  <2>5. \A v \in Controllers : WorkOK(work[v])'
    BY <2>1 DEF WorkOK, InProgress
  <2> QED BY <2>1, <2>3, <2>4, <2>5
<1>3. ASSUME Restart(w) PROVE ClaimInv' /\ claims' = claims
  <2>1. /\ work' = [work EXCEPT ![w] = Idle]
        /\ cache' = [cache EXCEPT ![w] = claims]
        /\ podCache' = [podCache EXCEPT ![w] = pods]
        /\ version' = [version EXCEPT ![w] = [c \in Claims |-> "latest"]]
        /\ queue' = [queue EXCEPT ![w] = {c \in Claims : claims[c].exists}]
        /\ UNCHANGED <<now, claims, pods, orphans, routes, late>>
    BY <1>3 DEF Restart, apiVars
  <2>2. TypeOK'
    BY <2>1, NullTypes DEF Versions
  <2>3. CopiesAgree'
    BY <2>1 DEF CopiesAgree
  <2>4. WorksAgree' /\ \A v \in Controllers : WorkOK(work'[v])
    BY <2>1, NullTypes, NoClaimIsNone DEF WorksAgree
  <2> QED BY <2>1, <2>2, <2>3, <2>4 DEF AbsentIsEmpty, ReadyHasFinalizer
<1> QED
  BY Zenon, <1>1, <1>2, <1>3 DEF Watch

(* What the cluster does to a Pod. *)
PodStep(p) ==
  \/ PodBecomesReady(p) \/ PodFails(p) \/ PodEvicted(p) \/ PodGone(p) \/ CollectOrphan(p)

(* The cluster makes a Pod ready or not ready only if it is up already; it *)
(* takes it down, or away.                                                 *)
LEMMA PodStepOK ==
  ASSUME ClaimInv, NEW p \in PodNames, PodStep(p)
  PROVE  \E pod \in PodObjects :
           /\ PodWrites(p, pod)
           /\ pod.state \in {"starting", "ready"} => pods[p].state \in {"starting", "ready"}
<1>1. /\ pods \in [PodNames -> PodObjects] /\ pods[p] \in PodObjects
      /\ NoPod \in PodObjects /\ NoPod.state = "absent"
  BY NullTypes DEF ClaimInv, TypeOK, NoPod
<1>2. CASE PodBecomesReady(p)
  <2>1. PICK ip \in Targets \cup {NoTarget} :
               PodWrites(p, [pods[p] EXCEPT !.state = "ready", !.ip = ip])
    BY Zenon, <1>1, <1>2 DEF PodBecomesReady, FreeAddresses, PodObjects
  <2>2. [pods[p] EXCEPT !.state = "ready", !.ip = ip] \in PodObjects
    BY Zenon, <1>1 DEF PodObjects
  <2> QED BY Zenon, <1>2, <2>1, <2>2 DEF PodBecomesReady
<1>3. ASSUME NEW state \in {"starting", "terminating"},
             PodWrites(p, [pods[p] EXCEPT !.state = state]),
             pods[p].state \in {"starting", "ready"}
      PROVE  \E pod \in PodObjects :
               /\ PodWrites(p, pod)
               /\ pod.state \in {"starting", "ready"} => pods[p].state \in {"starting", "ready"}
  <2>1. [pods[p] EXCEPT !.state = state] \in PodObjects
    BY <1>1 DEF PodObjects
  <2> QED BY <1>3, <2>1
<1> QED
  BY <1>1, <1>2, <1>3 DEF PodStep, PodFails, PodEvicted, PodGone, CollectOrphan

(* Steps of the surroundings: Pods, the clock, late route requests.        *)
LEMMA SurroundingsKeep ==
  ASSUME ClaimInv,
         \/ Tick
         \/ \E p \in PodNames : PodStep(p)
         \/ \E c \in Claims, target \in Targets \cup {NoTarget} : LateArrives(c, target)
         \/ UNCHANGED vars
  PROVE  ClaimInv' /\ claims' = claims
<1>1. UNCHANGED <<claims, cache, version, queue, work>> /\ Surroundings'
  <2>1. CASE Tick
    <3>1. /\ now' = now + 1 /\ now < MaxTime
          /\ UNCHANGED <<claims, pods, orphans, routes, late, cache, podCache, version, queue, work>>
      BY <2>1 DEF Tick, apiVars, cacheVars
    <3>2. now' \in 0 .. MaxTime
      BY <3>1, TimesAreNaturals DEF ClaimInv, TypeOK
    <3> QED BY <3>1, <3>2 DEF ClaimInv, TypeOK, Surroundings
  <2>2. ASSUME NEW p \in PodNames, PodStep(p)
        PROVE  UNCHANGED <<claims, cache, version, queue, work>> /\ Surroundings'
    <3>1. PICK pod \in PodObjects : PodWrites(p, pod)
      BY <2>2, PodStepOK
    <3> QED BY <3>1 DEF PodWrites, cacheVars, ClaimInv, TypeOK, Surroundings
  <2>3. ASSUME NEW c \in Claims, NEW target \in Targets \cup {NoTarget}, LateArrives(c, target)
        PROVE  UNCHANGED <<claims, cache, version, queue, work>> /\ Surroundings'
    <3>1. routes' \in RouteTables
      BY <2>3, ClaimsAreSandboxes DEF LateArrives, Set, ClaimInv, TypeOK, RouteTables
    <3> QED BY <2>3, <3>1 DEF LateArrives, apiVars, cacheVars, ClaimInv, TypeOK, Surroundings
  <2>4. CASE UNCHANGED vars
    BY <2>4 DEF vars, ClaimInv, TypeOK, Surroundings
  <2> QED BY <2>1, <2>2, <2>3, <2>4
<1>2. TypeOK'
  BY <1>1 DEF Surroundings, ClaimInv, TypeOK
<1>3. AbsentIsEmpty' /\ CopiesAgree' /\ WorksAgree' /\ ReadyHasFinalizer'
  BY Zenon, <1>1 DEF ClaimInv, AbsentIsEmpty, CopiesAgree, WorksAgree, ReadyHasFinalizer
<1>4. \A v \in Controllers : WorkOK(work[v])'
  BY Zenon, <1>1 DEF ClaimInv, WorkOK, InProgress
<1> QED
  BY <1>1, <1>2, <1>3, <1>4 DEF ClaimInv

(* Every step keeps the invariant and does to a claim only what it may.    *)
LEMMA ClaimInductive ==
  ASSUME ClaimInv, [Next]_vars
  PROVE  ClaimInv' /\ ClaimsFollow
<1>1. claims' = claims => ClaimsFollow
  BY DEF ClaimsFollow, Follows
<1>2. ASSUME NEW w \in Controllers, Reconcile(w) PROVE ClaimInv' /\ ClaimsFollow
  <2>1. CASE \E c \in Claims : Begin(w, c)
    BY Zenon, <1>1, <2>1, BeginKeeps DEF Begin, apiVars
  <2>2. CASE CreatePod(w)
    BY Zenon, <1>1, <2>2, CreatePodKeeps DEF CreatePod
  <2>3. CASE RereadPod(w)
    BY Zenon, <1>1, <2>3, RereadPodKeeps DEF RereadPod, apiVars
  <2>4. CASE DeletePod(w)
    BY Zenon, <1>1, <2>4, DeletePodKeeps DEF DeletePod
  <2>5. CASE SyncRoute(w)
    BY <1>1, <2>5, SyncRouteKeeps DEF SyncRoute, apiVars
  <2> QED
    BY Zenon, <1>2, <2>1, <2>2, <2>3, <2>4, <2>5, AddFinalizerKeeps, UpdateStatusKeeps,
       RemoveFinalizerKeeps DEF Reconcile
<1>3. ASSUME NEW w \in Controllers, Watch(w) \/ Restart(w) PROVE ClaimInv' /\ ClaimsFollow
  BY <1>1, <1>3, CopyKeeps
<1>4. CASE Users
  BY <1>4, UsersKeep
<1>5. CASE \/ Tick
           \/ \E p \in PodNames : PodStep(p)
           \/ \E c \in Claims, target \in Targets \cup {NoTarget} : LateArrives(c, target)
           \/ UNCHANGED vars
  BY <1>1, <1>5, SurroundingsKeep
<1> QED
  BY <1>2, <1>3, <1>4, <1>5 DEF Next, PodStep

(* No claims, no calls. *)
LEMMA ClaimInitially == Init => ClaimInv
<1> SUFFICES ASSUME Init PROVE ClaimInv
  OBVIOUS
<1>1. TypeOK
  BY NullTypes, TimesAreNaturals DEF Init, TypeOK, NoRoutes, RouteTables, Versions
<1>2. AbsentIsEmpty /\ CopiesAgree /\ \A w \in Controllers : WorkOK(work[w])
  BY NullTypes DEF Init, AbsentIsEmpty, CopiesAgree
<1>3. WorksAgree
  BY NullTypes, NoClaimIsNone DEF Init, WorksAgree
<1>4. ReadyHasFinalizer
  <2>1. NoObject.phase = ""
    BY DEF NoObject
  <2> QED BY <2>1 DEF Init, ReadyHasFinalizer
<1> QED
  BY <1>1, <1>2, <1>3, <1>4 DEF ClaimInv
----------------------------------------------------------------------------
(* controller.go:76-81: whatever the interleaving of controllers, users,   *)
(* caches and faults, a claim reported Ready has the finalizer.            *)
THEOREM ReadyClaimsAreHeld == Spec => []ReadyHasFinalizer
<1>1. ClaimInv /\ [Next]_vars => ClaimInv'
  BY ClaimInductive
<1>2. ClaimInv => ReadyHasFinalizer
  BY DEF ClaimInv
<1> QED
  BY ClaimInitially, <1>1, <1>2, PTL DEF Spec

(* reconciler.go:86-88, 142: no controller, however stale its copy, takes  *)
(* a claim back from Deleted.                                              *)
THEOREM DeletionIsFinal == Spec => DeletedIsFinal
<1>1. ClaimInv /\ [Next]_vars => ClaimInv'
  BY ClaimInductive
<1>2. ClaimInv /\ [Next]_vars =>
        [\A c \in Claims : claims[c].phase = "Deleted" =>
            claims'[c].phase = "Deleted" \/ ~claims'[c].exists]_vars
  BY ClaimInductive DEF ClaimsFollow, Follows
<1> QED
  BY ClaimInitially, <1>1, <1>2, PTL DEF Spec, DeletedIsFinal

(* reconciler.go:128-130: no controller moves an expiry that was reported, *)
(* unless it reports the claim Deleted.                                    *)
THEOREM ExpiryNeverSlides == Spec => ExpiryIsStable
<1>1. ClaimInv /\ [Next]_vars => ClaimInv'
  BY ClaimInductive
<1>2. ClaimInv /\ [Next]_vars =>
        [\A c \in Claims :
            claims[c].expires # 0 /\ claims'[c].phase # "Deleted" /\ claims'[c].exists =>
              claims'[c].expires = claims[c].expires]_vars
  BY Zenon, ClaimInductive DEF ClaimsFollow, Follows
<1> QED
  BY ClaimInitially, <1>1, <1>2, PTL DEF Spec, ExpiryIsStable
----------------------------------------------------------------------------
(* The two properties that need a single controller: nobody else changes   *)
(* the route, or the Pod, between two steps of its call.                   *)
SoleController == \A v, w \in Controllers : v = w

(* A call that is past a successful Unregister has left no route. *)
Unrouted(t) ==
  t.pc \in {"status", "unfinalize"} /\ t.phase = "Deleted" /\ t.ref /\ ~t.routeErr =>
    routes[t.claim] = NoTarget

RouteInv == ClaimInv /\ late = {} /\ \A w \in Controllers : Unrouted(work[w])

(* The calls of the controller that write no claim. *)
LEMMA RouteStep ==
  ASSUME SoleController, "late" \notin Faults, RouteInv, NEW w \in Controllers,
         \/ \E c \in Claims : Begin(w, c)
         \/ CreatePod(w) \/ RereadPod(w) \/ DeletePod(w) \/ SyncRoute(w)
  PROVE  late' = late /\ \A v \in Controllers : Unrouted(work[v])'
<1> USE DEF RouteInv
<1>1. SUFFICES late' = late /\ Unrouted(work[w])'
  BY DEF SoleController
<1>2. \A u, q : Put(w, u, q) => work'[w] = u
  BY DEF Put, ClaimInv, TypeOK
<1>3. ASSUME NEW u, NEW q, Put(w, u, q),
             u = Idle \/ u.phase # "Deleted" \/ u.pc \notin {"status", "unfinalize"} \/ ~u.ref
      PROVE  Unrouted(work[w])'
  <2>1. work'[w] = u
    BY Zenon, <1>2, <1>3
  <2> QED BY <1>3, <2>1, NullTypes DEF Unrouted
<1>4. ASSUME NEW c \in Claims, Begin(w, c) PROVE late' = late /\ Unrouted(work[w])'
  <2>1. PICK u, q : Put(w, u, q) /\ (u = Idle \/ Begun(u, w, c))
    BY Zenon, <1>4, BeginOK DEF ClaimInv
  <2>2. Begun(u, w, c) =>
          u.phase # "Deleted" \/ u.pc \notin {"status", "unfinalize"} \/ ~u.ref
    BY Zenon DEF Begun
  <2> QED BY Zenon, <1>3, <1>4, <2>1, <2>2 DEF Begin
<1>5. CASE CreatePod(w)
  BY Zenon, <1>3, <1>5, CreatePodOK DEF CreatePod
<1>6. CASE RereadPod(w)
  BY Zenon, <1>3, <1>6, RereadPodOK DEF RereadPod
<1>7. CASE DeletePod(w)
  BY Zenon, <1>3, <1>7, DeletePodOK DEF DeletePod
<1>8. CASE SyncRoute(w)
  <2>1. PICK u : /\ Put(w, u, queue[w]) /\ SameCall(u, work[w]) /\ u.phase = work[w].phase
                 /\ u.routeErr \/ work[w].phase # "Deleted"
                      \/ routes' = [routes EXCEPT ![work[w].claim] = NoTarget]
    BY Zenon, <1>8, SyncRouteOK
  <2>2. work'[w] = u /\ work[w].claim \in Claims
    BY Zenon, <1>2, <1>8, <2>1, UnderWay DEF SyncRoute
  <2>3. Unrouted(work[w])'
    <3>1. routes' = [routes EXCEPT ![work[w].claim] = NoTarget] => routes'[work[w].claim] = NoTarget
      BY Zenon, <2>2, ClaimsAreSandboxes DEF ClaimInv, TypeOK, RouteTables
    <3> QED BY Zenon, <2>1, <2>2, <3>1 DEF Unrouted, SameCall
  <2>4. late' = late
    BY <1>8 DEF SyncRoute
  <2> QED BY Zenon, <2>3, <2>4
<1> QED
  BY Zenon, <1>4, <1>5, <1>6, <1>7, <1>8

(* What a user's write leaves of a call. *)
LEMMA UsersOutdateWork ==
  ASSUME ClaimInv, NEW c \in Claims, NEW object, UserWrites(c, object),
         NEW v \in Controllers
  PROVE  /\ work'[v].claim = work[v].claim /\ work'[v].obj = work[v].obj
         /\ work'[v].pc = work[v].pc /\ work'[v].phase = work[v].phase
         /\ work'[v].ref = work[v].ref /\ work'[v].routeErr = work[v].routeErr
         /\ work'[v].version = "latest" => work[v].version = "latest"
         /\ work'[v].claim = c /\ work'[v].version = "latest" => object = claims[c]
<1>1. Save(c, object) /\ work'[v] = OutdatedWork(c, object)[v]
  BY DEF UserWrites
<1> QED
  BY <1>1, OutdatedWorkOK

(* Writes of claims, by the controller and by users. *)
LEMMA RouteWrite ==
  ASSUME SoleController, RouteInv,
         \/ Users
         \/ \E w \in Controllers : AddFinalizer(w) \/ UpdateStatus(w) \/ RemoveFinalizer(w)
  PROVE  late' = late /\ \A v \in Controllers : Unrouted(work[v])'
<1> USE DEF RouteInv
<1>1. CASE Users
  <2>0. PICK c \in Claims : \E object : UserWrites(c, object)
    BY <1>1, UsersWrite
  <2>1. PICK object : UserWrites(c, object)
    BY <2>0
  <2>2. Save(c, object) /\ work' = OutdatedWork(c, object) /\ UNCHANGED <<routes, late>>
    BY Zenon, <2>1 DEF UserWrites
  <2>3. ASSUME NEW v \in Controllers PROVE Unrouted(work[v])'
    <3>1. /\ work'[v].claim = work[v].claim /\ work'[v].pc = work[v].pc
          /\ work'[v].phase = work[v].phase /\ work'[v].ref = work[v].ref
          /\ work'[v].routeErr = work[v].routeErr
      BY Zenon, <2>1, UsersOutdateWork
    <3> QED BY Zenon, <2>2, <3>1 DEF Unrouted
  <2> QED BY <2>2, <2>3
<1>2. ASSUME NEW w \in Controllers, AddFinalizer(w) \/ UpdateStatus(w) \/ RemoveFinalizer(w)
      PROVE  late' = late /\ \A v \in Controllers : Unrouted(work[v])'
  <2>1. UNCHANGED <<routes, late>>
    BY Zenon, <1>2 DEF AddFinalizer, UpdateStatus, RemoveFinalizer
  <2>2. WriteEnds(w)
    BY <1>2, AddFinalizerKeeps, UpdateStatusKeeps, RemoveFinalizerKeeps
  <2>3. Unrouted(work[w])'
    BY <2>1, <2>2, NullTypes DEF WriteEnds, Written, Unrouted, SameStatus
  <2> QED BY Zenon, <2>1, <2>3 DEF SoleController
<1> QED
  BY <1>1, <1>2

(* No calls, no requests on their way. *)
LEMMA RouteInitially == Init => RouteInv
  BY Zenon, ClaimInitially, NullTypes DEF RouteInv, Init, Unrouted

(* Every step keeps the routes of deleted claims away from their calls.    *)
LEMMA RouteInductive ==
  ASSUME SoleController, "late" \notin Faults, RouteInv, [Next]_vars
  PROVE  RouteInv'
<1> SUFFICES late' = {} /\ \A v \in Controllers : Unrouted(work[v])'
  BY ClaimInductive DEF RouteInv
<1>1. CASE /\ UNCHANGED <<routes, late>>
           /\ \A v \in Controllers : work'[v] = work[v] \/ work'[v] = Idle
  BY Zenon, <1>1, NullTypes DEF RouteInv, Unrouted
<1>2. ASSUME NEW w \in Controllers, Watch(w) \/ Restart(w)
      PROVE  /\ UNCHANGED <<routes, late>>
             /\ \A v \in Controllers : work'[v] = work[v] \/ work'[v] = Idle
  BY <1>2 DEF Watch, ObserveClaim, ObservePod, Restart, RouteInv, ClaimInv, TypeOK
<1>3. ASSUME NEW p \in PodNames, PodStep(p) PROVE UNCHANGED <<routes, late, work>>
  BY <1>3, PodStepOK DEF PodWrites, RouteInv
<1>4. CASE Tick \/ UNCHANGED vars
  BY <1>1, <1>4 DEF Tick, vars
<1>5. ~\E c \in Claims, target \in Targets \cup {NoTarget} : LateArrives(c, target)
  BY DEF LateArrives, RouteInv
<1> QED
  BY Zenon, <1>1, <1>2, <1>3, <1>4, <1>5, RouteStep, RouteWrite
     DEF Next, Reconcile, PodStep, RouteInv

(* Which steps write claims: those of users, and the three writes of a     *)
(* Reconcile call.                                                         *)
LEMMA OnlyWritesWrite ==
  ASSUME ClaimInv, [Next]_vars
  PROVE  \/ claims' = claims
         \/ Users
         \/ \E w \in Controllers : AddFinalizer(w) \/ UpdateStatus(w) \/ RemoveFinalizer(w)
<1>1. ASSUME NEW w \in Controllers,
             \/ \E c \in Claims : Begin(w, c)
             \/ CreatePod(w) \/ RereadPod(w) \/ DeletePod(w) \/ SyncRoute(w)
      PROVE  claims' = claims
  BY Zenon, <1>1 DEF Begin, CreatePod, RereadPod, DeletePod, SyncRoute, apiVars
<1> QED
  BY Zenon, <1>1, CopyKeeps, SurroundingsKeep DEF Next, Reconcile, PodStep

(* A step that takes the finalizer off a claim with a sandboxRef is the    *)
(* last write of a call that has removed the route.                        *)
LEMMA FinalizerStep ==
  ASSUME RouteInv, [Next]_vars, NEW c \in Claims,
         claims[c].finalizer, ~claims'[c].finalizer, claims[c].ref
  PROVE  routes[c] = NoTarget
<1> USE DEF RouteInv
<1>1. claims \in [Claims -> ClaimObjects]
  BY DEF ClaimInv, TypeOK
<1>2. ~Users
  <2> SUFFICES ASSUME Users PROVE FALSE
    OBVIOUS
  <2>0. PICK d \in Claims : \E object : UserWrites(d, object) /\ Harmless(object, claims[d])
    BY UsersWrite
  <2>1. PICK object : UserWrites(d, object) /\ Harmless(object, claims[d])
    BY <2>0
  <2> QED BY <1>1, <2>1 DEF UserWrites, Save, Harmless
<1>3. PICK w \in Controllers : AddFinalizer(w) \/ UpdateStatus(w) \/ RemoveFinalizer(w)
  BY <1>2, OnlyWritesWrite
<1>4. WriteEnds(w)
  BY <1>3, AddFinalizerKeeps, UpdateStatusKeeps, RemoveFinalizerKeeps
<1>5. PICK object, x : Written(w, object, x)
  BY <1>4 DEF WriteEnds
<1>6. /\ work[w].pc # "idle" /\ work[w].claim \in Claims /\ InProgress(work[w])
  BY Zenon, <1>3, UnderWay DEF AddFinalizer, UpdateStatus, RemoveFinalizer
<1>7. work[w].obj = claims[work[w].claim]
  BY Zenon, <1>5, <1>6 DEF Written, ClaimInv, WorksAgree
<1>8. claims' = [claims EXCEPT ![work[w].claim] = object]
  BY Zenon, <1>5 DEF Written, Save
<1>9. c = work[w].claim /\ ~object.finalizer
  BY Zenon, <1>1, <1>6, <1>8
<1>10. work[w].pc = "unfinalize"
  BY Zenon, <1>5, <1>7, <1>9 DEF Written
<1> QED
  BY <1>6, <1>7, <1>9, <1>10 DEF InProgress, Unrouted

(* controller.go:94-102: with one controller, and an envd-proxy to which   *)
(* no request comes late, the finalizer of a claim whose sandboxRef was    *)
(* reported goes only when the route has gone, whatever crashes, conflicts *)
(* and lost answers there are, for any number of claims.                   *)
THEOREM FinalizerWaits ==
  SoleController /\ "late" \notin Faults => (Spec => FinalizerAwaitsRoute)
<1> SUFFICES ASSUME SoleController, "late" \notin Faults
             PROVE  Spec => FinalizerAwaitsRoute
  OBVIOUS
<1>1. Init => RouteInv
  BY RouteInitially
<1>2. RouteInv /\ [Next]_vars => RouteInv'
  BY RouteInductive
<1>3. RouteInv /\ [Next]_vars =>
        [\A c \in Claims :
           claims[c].finalizer /\ ~claims'[c].finalizer /\ claims[c].ref =>
             routes[c] = NoTarget]_vars
  BY FinalizerStep
<1> QED
  BY <1>1, <1>2, <1>3, PTL DEF Spec, FinalizerAwaitsRoute
----------------------------------------------------------------------------
(* Claims with different Pod names, as the tenant and key of each give it. *)
OwnPods == \A c, d \in Claims : PodNameOf[c] = PodNameOf[d] => c = d

PodIsDown(c) == pods[PodNameOf[c]].state \in {"absent", "terminating"}

(* A call on its way to report Deleted. *)
Deleting(t) == t.pc = "delete" \/ (t.pc \in {"route", "status"} /\ t.phase = "Deleted")

(* A call that is to create a Pod works for a claim that is not Deleted.   *)
(* One that is to report Deleted has found a reason in the object it read, *)
(* which is still the cached one if it is still the latest, and has taken  *)
(* the Pod down unless the object said Deleted already.                    *)
PodWork(w) ==
  LET t == work[w] IN
  /\ t.pc = "create" => claims[t.claim].phase # "Deleted"
  /\ Deleting(t) => /\ Doomed(t.obj) \/ t.obj.phase = "Deleted"
                    /\ t.version = "latest" => version[w][t.claim] = "latest"
                    /\ t.pc # "delete" /\ t.obj.phase # "Deleted" => PodIsDown(t.claim)

(* The cache of the controller that reported Deleted shows the claim so,   *)
(* or still shows the reason for it.                                       *)
CacheKnows(w) ==
  \A c \in Claims : claims[c].phase = "Deleted" /\ cache[w][c].exists =>
                      cache[w][c].phase = "Deleted" \/ Doomed(cache[w][c])

PodInv ==
  /\ ClaimInv /\ DeletedHasNoPod
  /\ \A w \in Controllers : PodWork(w) /\ CacheKnows(w)

(* The calls of the controller that write no claim. *)
LEMMA PodReconcile ==
  ASSUME SoleController, OwnPods, PodInv, NEW w \in Controllers,
         \/ \E c \in Claims : Begin(w, c)
         \/ CreatePod(w) \/ RereadPod(w) \/ DeletePod(w) \/ SyncRoute(w)
  PROVE  DeletedHasNoPod' /\ \A v \in Controllers : PodWork(v)' /\ CacheKnows(v)'
<1> USE DEF PodInv
<1>1. UNCHANGED <<now, claims, cache, version>>
  BY Zenon DEF Begin, CreatePod, RereadPod, DeletePod, SyncRoute, apiVars, cacheVars
<1>2. CacheKnows(w)'
  BY <1>1 DEF CacheKnows, Doomed
<1>3. SUFFICES DeletedHasNoPod' /\ PodWork(w)'
  BY <1>2 DEF SoleController
<1>4. \A u, q : Put(w, u, q) => work'[w] = u
  BY Zenon DEF Put, ClaimInv, TypeOK
<1>5. pods' = pods => DeletedHasNoPod'
  BY Zenon, <1>1 DEF DeletedHasNoPod
<1>6. ASSUME NEW u, NEW q, Put(w, u, q), u.pc # "create" /\ ~Deleting(u) PROVE PodWork(w)'
  <2>1. work'[w] = u
    BY Zenon, <1>4, <1>6
  <2> QED BY Zenon, <1>6, <2>1 DEF PodWork, Deleting
<1>7. Idle.pc # "create" /\ ~Deleting(Idle)
  BY NullTypes DEF Deleting
<1>8. ASSUME NEW c \in Claims, Begin(w, c) PROVE DeletedHasNoPod' /\ PodWork(w)'
  <2>1. PICK u, q : Put(w, u, q) /\ (u = Idle \/ Begun(u, w, c))
    BY Zenon, <1>8, BeginOK DEF ClaimInv
  <2>2. CASE Begun(u, w, c)
    <3>1. work'[w] = u
      BY Zenon, <1>4, <2>1
    <3>2. u = Idle \/ (u.obj.exists /\ u.obj = cache[w][c] /\ u.claim = c)
      BY Zenon, <2>2 DEF Begun, WorkOK, InProgress
    <3>3. u.pc = "create" => claims[u.claim].phase # "Deleted"
      <4>1. u.pc = "create" => u.obj.phase # "Deleted" /\ ~Doomed(u.obj) /\ u # Idle
        BY Zenon, <1>7, <2>2 DEF Begun
      <4> QED BY Zenon, <3>2, <4>1 DEF CacheKnows
    <3>4. Deleting(u) => Doomed(u.obj) \/ u.obj.phase = "Deleted"
      BY Zenon, <2>2 DEF Begun, Deleting
    <3>5. Deleting(u) /\ u.pc # "delete" => u.obj.phase = "Deleted"
      BY Zenon, <2>2 DEF Begun, Deleting
    <3>6. u.version = version[w][u.claim]
      BY Zenon, <2>2 DEF Begun
    <3> QED
      BY Zenon, <1>1, <1>5, <1>8, <3>1, <3>3, <3>4, <3>5, <3>6
         DEF PodWork, Deleting, Doomed, Begin, apiVars
  <2>3. CASE u = Idle
    BY Zenon, <1>5, <1>6, <1>7, <1>8, <2>1, <2>3 DEF Begin, apiVars
  <2> QED BY <2>1, <2>2, <2>3
<1>9. CASE CreatePod(w)
  <2>1. PodWork(w)'
    <3>1. PICK u, q : Put(w, u, q) /\ (u = Idle \/ (u.phase # "Deleted" /\ u.pc = "reread"))
      BY Zenon, <1>9, CreatePodOK
    <3> QED BY <1>6, <1>7, <3>1 DEF Deleting
  <2>2. /\ work[w].claim \in Claims /\ PodNameOf[work[w].claim] \in PodNames
        /\ work[w].pc = "create"
    BY Zenon, <1>9, UnderWay DEF CreatePod
  <2>3. \A p \in PodNames : p # PodNameOf[work[w].claim] => pods'[p] = pods[p]
    BY Zenon, <1>9, <2>2 DEF CreatePod, ClaimInv, TypeOK
  <2>4. claims[work[w].claim].phase # "Deleted"
    BY Zenon, <2>2 DEF PodWork
  <2>5. DeletedHasNoPod'
    BY Zenon, <1>1, <2>2, <2>3, <2>4, ClaimsAreSandboxes DEF DeletedHasNoPod, OwnPods
  <2> QED BY <2>1, <2>5
<1>10. CASE RereadPod(w)
  <2>1. PICK u, q : /\ Put(w, u, q)
                    /\ u = Idle \/ (u.phase # "Deleted" /\ u.pc \notin {"create", "delete"})
    BY <1>10, RereadPodOK
  <2> QED BY Zenon, <1>5, <1>6, <1>7, <1>10, <2>1 DEF Deleting, RereadPod, apiVars
<1>11. CASE DeletePod(w)
  <2>1. work[w].pc = "delete" /\ PodNameOf[work[w].claim] \in PodNames
    BY Zenon, <1>11, UnderWay DEF DeletePod
  <2> DEFINE p == PodNameOf[work[w].claim]
  <2>2. pods' = pods \/ TakenDown(p)
    BY <1>11 DEF DeletePod, TakenDown
  <2>3. TakenDown(p) => /\ pods'[p].state \in {"absent", "terminating"}
                        /\ \A r \in PodNames : r # p => pods'[r] = pods[r]
    <3>1. pods \in [PodNames -> PodObjects] /\ p \in PodNames
      BY Zenon, <2>1 DEF ClaimInv, TypeOK
    <3> HIDE DEF p
    <3> QED BY Zenon, <3>1 DEF TakenDown, PodObjects
  <2> HIDE DEF p
  <2>4. DeletedHasNoPod'
    BY Zenon, <1>1, <2>2, <2>3, ClaimsAreSandboxes DEF DeletedHasNoPod
  <2>5. PICK u, q : /\ Put(w, u, q)
                    /\ \/ u = Idle
                       \/ /\ SameCall(u, work[w]) /\ u.phase = "Deleted"
                          /\ u.pc \in {"route", "status"}
                          /\ TakenDown(p)
    BY Zenon, <1>11, DeletePodOK DEF p
  <2>6. CASE u # Idle
    <3>1. work'[w] = u
      BY Zenon, <1>4, <2>5
    <3>2. PodIsDown(work[w].claim)'
      <4>1. work'[w].claim = work[w].claim
        BY Zenon, <2>5, <2>6, <3>1 DEF SameCall
      <4> QED BY Zenon, <2>5, <2>6, <2>3, <4>1 DEF PodIsDown, p
    <3>3. /\ Doomed(work[w].obj) \/ work[w].obj.phase = "Deleted"
          /\ work[w].version = "latest" => version[w][work[w].claim] = "latest"
      BY Zenon, <2>1 DEF PodWork, Deleting
    <3> QED
      BY Zenon, <1>1, <2>4, <2>5, <2>6, <3>1, <3>2, <3>3
         DEF PodWork, Deleting, SameCall, Doomed, PodIsDown
  <2>7. CASE u = Idle
    BY Zenon, <1>6, <1>7, <2>4, <2>5, <2>7
  <2> QED BY Zenon, <2>6, <2>7
<1>12. CASE SyncRoute(w)
  <2>1. PICK u : /\ Put(w, u, queue[w]) /\ SameCall(u, work[w]) /\ u.phase = work[w].phase
                 /\ u.pc \in {"finalizer", "status"}
    BY Zenon, <1>12, SyncRouteOK
  <2>2. work'[w] = u /\ work[w].pc = "route" /\ pods' = pods
    BY Zenon, <1>4, <1>12, <2>1 DEF SyncRoute, apiVars
  <2>3. PodWork(w)'
    BY Zenon, <1>1, <2>1, <2>2 DEF PodWork, Deleting, SameCall, Doomed, PodIsDown
  <2> QED BY Zenon, <1>5, <2>2, <2>3
<1> QED
  BY Zenon, <1>8, <1>9, <1>10, <1>11, <1>12

(* A user's write never reports Deleted, and outdates the copies in the    *)
(* cache and in the call alike.                                            *)
LEMMA PodUsers ==
  ASSUME PodInv, Users
  PROVE  DeletedHasNoPod' /\ \A v \in Controllers : PodWork(v)' /\ CacheKnows(v)'
<1> USE DEF PodInv
<1>1. PICK c \in Claims : \E object : /\ UserWrites(c, object) /\ Storable(object)
                                      /\ Harmless(object, claims[c])
  BY UsersWrite
<1>2. PICK object : UserWrites(c, object) /\ Storable(object) /\ Harmless(object, claims[c])
  BY <1>1
<1>3. /\ Save(c, object) /\ work' = OutdatedWork(c, object)
      /\ version' = OutdatedCopies(c, object)
      /\ UNCHANGED <<now, pods, cache>>
  BY <1>2 DEF UserWrites, Save
<1>4. \A d \in Claims : claims'[d] = IF d = c THEN object ELSE claims[d]
  BY <1>3 DEF Save, ClaimInv, TypeOK
<1>5. \A d \in Claims : claims'[d].phase = "Deleted" =>
        claims[d].phase = "Deleted" /\ (claims'[d].exists => claims[d].exists)
  <2>1. object.phase = "Deleted" => claims[c].phase = "Deleted"
    BY <1>2 DEF Harmless
  <2>2. claims[c].phase = "Deleted" => claims[c].exists
    <3>1. NoObject.phase # "Deleted"
      BY Zenon DEF NoObject
    <3> QED BY <3>1 DEF ClaimInv, AbsentIsEmpty
  <2> QED BY <1>4, <2>1, <2>2
<1>6. DeletedHasNoPod'
  BY <1>3, <1>5 DEF DeletedHasNoPod
<1>7. ASSUME NEW v \in Controllers PROVE PodWork(v)' /\ CacheKnows(v)'
  <2>1. CacheKnows(v)'
    BY Zenon, <1>3, <1>5 DEF CacheKnows, Doomed
  <2>2. /\ work'[v].claim = work[v].claim /\ work'[v].obj = work[v].obj
        /\ work'[v].pc = work[v].pc /\ work'[v].phase = work[v].phase
        /\ work'[v].version = "latest" => work[v].version = "latest"
        /\ work'[v].claim = c /\ work'[v].version = "latest" => object = claims[c]
    BY <1>2, UsersOutdateWork
  <2>3. work[v].pc # "idle" => work[v].claim \in Claims
    BY Zenon, UnderWay
  <2>4. ASSUME NEW d \in Claims, version[v][d] = "latest", d = c => object = claims[c]
        PROVE  version'[v][d] = "latest"
    <3>1. version'[v] = [version[v] EXCEPT ![c] = Outdated(c, object, version[v][c])]
      BY <1>3 DEF OutdatedCopies
    <3>2. version[v] \in [Claims -> Versions]
      BY DEF ClaimInv, TypeOK
    <3> QED BY <2>4, <3>1, <3>2 DEF Outdated
  <2>5. work[v].pc = "create" => claims'[work[v].claim].phase # "Deleted"
    BY <1>5, <2>3 DEF PodWork
  <2>6. Deleting(work[v]) => work[v].pc # "idle"
    BY DEF Deleting
  <2>7. Deleting(work[v]) /\ work'[v].version = "latest" => version'[v][work[v].claim] = "latest"
    BY Zenon, <2>2, <2>3, <2>4, <2>6 DEF PodWork
  <2>8. PodWork(v)'
    BY Zenon, <1>3, <2>2, <2>5, <2>7 DEF PodWork, Deleting, Doomed, PodIsDown
  <2> QED BY Zenon, <2>1, <2>8
<1> QED
  BY <1>6, <1>7

(* The controller reports Deleted when the Pod is down, and from a cached  *)
(* object that shows why.                                                  *)
LEMMA PodWriteClaim ==
  ASSUME SoleController, PodInv, NEW w \in Controllers,
         AddFinalizer(w) \/ UpdateStatus(w) \/ RemoveFinalizer(w)
  PROVE  DeletedHasNoPod' /\ \A v \in Controllers : PodWork(v)' /\ CacheKnows(v)'
<1> USE DEF PodInv
<1>1. UNCHANGED <<now, pods, cache>>
  BY DEF AddFinalizer, UpdateStatus, RemoveFinalizer
<1>2. WriteEnds(w)
  BY AddFinalizerKeeps, UpdateStatusKeeps, RemoveFinalizerKeeps
<1> SUFFICES DeletedHasNoPod' /\ PodWork(w)' /\ CacheKnows(w)'
  BY DEF SoleController
<1>3. PodWork(w)'
  BY Zenon, <1>2, NullTypes DEF WriteEnds, Written, PodWork, Deleting
<1>4. CASE claims' = claims
  BY <1>1, <1>3, <1>4 DEF DeletedHasNoPod, CacheKnows, Doomed
<1>5. CASE \E object, x : Written(w, object, x)
  <2>1. PICK object, x : Written(w, object, x)
    BY <1>5
  <2> DEFINE t == work[w]
             c == t.claim
  <2>2. /\ t.pc \in {"finalizer", "status", "unfinalize"} /\ c \in Claims /\ InProgress(t)
    BY Zenon, UnderWay DEF AddFinalizer, UpdateStatus, RemoveFinalizer
  <2>3. t.obj = claims[c] /\ t.version = "latest"
    BY Zenon, <2>1, <2>2 DEF Written, ClaimInv, WorksAgree
  <2>4. \A d \in Claims : claims'[d] = IF d = c THEN object ELSE claims[d]
    BY Zenon, <2>1 DEF Written, Save, ClaimInv, TypeOK
  <2>5. object.phase = "Deleted" /\ claims[c].phase # "Deleted" => t.pc = "status" /\ Deleting(t)
    <3>1. object.phase = "Deleted" => t.phase = "Deleted" /\ t.pc # "finalizer"
      BY Zenon, <2>1 DEF Written
    <3>2. t.pc = "unfinalize" => t.obj.phase = "Deleted"
      BY Zenon, <2>2 DEF InProgress
    <3> QED BY Zenon, <2>2, <2>3, <3>1, <3>2 DEF Deleting
  <2>6. object.phase = "Deleted" /\ claims[c].phase # "Deleted" =>
          PodIsDown(c) /\ Doomed(t.obj) /\ cache[w][c] = t.obj
    BY Zenon, <2>2, <2>3, <2>5 DEF PodWork, ClaimInv, CopiesAgree
  <2>7. claims[c].exists
    BY Zenon, <2>2, <2>3 DEF InProgress
  <2> HIDE DEF t, c
  <2>8. DeletedHasNoPod'
    BY Zenon, <1>1, <2>4, <2>6, <2>7 DEF DeletedHasNoPod, PodIsDown
  <2>9. CacheKnows(w)'
    <3> SUFFICES ASSUME NEW d \in Claims, claims'[d].phase = "Deleted", cache[w][d].exists
                 PROVE  cache[w][d].phase = "Deleted" \/ Doomed(cache[w][d])
      BY Zenon, <1>1 DEF CacheKnows, Doomed
    <3>1. CASE claims[d].phase = "Deleted"
      BY Zenon, <3>1 DEF CacheKnows
    <3>2. CASE claims[d].phase # "Deleted"
      BY Zenon, <2>4, <2>6, <3>2
    <3> QED BY Zenon, <3>1, <3>2
  <2> QED BY <1>3, <2>8, <2>9
<1> QED
  BY <1>2, <1>4, <1>5 DEF WriteEnds

(* The caches and the surroundings: a fresher copy shows the claim as it   *)
(* is, time only adds reasons to delete, and the cluster starts no Pod.    *)
LEMMA PodOther ==
  ASSUME PodInv,
         \/ \E w \in Controllers : Watch(w) \/ Restart(w)
         \/ Tick
         \/ \E p \in PodNames : PodStep(p)
         \/ \E c \in Claims, target \in Targets \cup {NoTarget} : LateArrives(c, target)
         \/ UNCHANGED vars
  PROVE  DeletedHasNoPod' /\ \A v \in Controllers : PodWork(v)' /\ CacheKnows(v)'
<1> USE DEF PodInv
<1>1. CASE UNCHANGED <<now, claims, pods, cache, version, work>>
  <2>1. DeletedHasNoPod'
    BY Zenon, <1>1 DEF DeletedHasNoPod
  <2>2. \A v \in Controllers : PodWork(v)'
    BY Zenon, <1>1 DEF PodWork, Deleting, Doomed, PodIsDown
  <2>3. \A v \in Controllers : CacheKnows(v)'
    BY Zenon, <1>1 DEF CacheKnows, Doomed
  <2> QED BY Zenon, <2>1, <2>2, <2>3
<1>2. ASSUME NEW w \in Controllers, NEW c \in Claims, ObserveClaim(w, c)
      PROVE  DeletedHasNoPod' /\ \A v \in Controllers : PodWork(v)' /\ CacheKnows(v)'
  <2>1. /\ cache' = [cache EXCEPT ![w][c] = claims[c]]
        /\ version' = [version EXCEPT ![w][c] = "latest"]
        /\ UNCHANGED <<now, claims, pods, work>>
    BY <1>2 DEF ObserveClaim, apiVars
  <2>2. DeletedHasNoPod'
    BY <2>1 DEF DeletedHasNoPod
  <2>3. ASSUME NEW v \in Controllers PROVE PodWork(v)' /\ CacheKnows(v)'
    <3>1. \A d \in Claims : cache'[v][d] = cache[v][d] \/ cache'[v][d] = claims[d]
      BY <2>1 DEF ClaimInv, TypeOK
    <3>2. \A d \in Claims : version[v][d] = "latest" => version'[v][d] = "latest"
      BY Zenon, <2>1 DEF ClaimInv, TypeOK
    <3>3. CacheKnows(v)'
      <4> SUFFICES ASSUME NEW d \in Claims, claims[d].phase = "Deleted", cache'[v][d].exists
                   PROVE  cache'[v][d].phase = "Deleted" \/ Doomed(cache[v][d])'
        BY <2>1 DEF CacheKnows
      <4>1. CASE cache'[v][d] = cache[v][d]
        BY <2>1, <4>1 DEF CacheKnows, Doomed
      <4>2. CASE cache'[v][d] = claims[d]
        BY Zenon, <4>2
      <4> QED BY Zenon, <3>1, <4>1, <4>2
    <3>4. Deleting(work[v]) => work[v].claim \in Claims
      BY Zenon, UnderWay DEF Deleting
    <3>5. PodWork(v)'
      BY <2>1, <3>2, <3>4 DEF PodWork, Deleting, Doomed, PodIsDown
    <3> QED BY <3>3, <3>5
  <2> QED BY <2>2, <2>3
<1>3. ASSUME NEW w \in Controllers, Restart(w)
      PROVE  DeletedHasNoPod' /\ \A v \in Controllers : PodWork(v)' /\ CacheKnows(v)'
  <2>1. /\ work' = [work EXCEPT ![w] = Idle]
        /\ cache' = [cache EXCEPT ![w] = claims]
        /\ version' = [version EXCEPT ![w] = [c \in Claims |-> "latest"]]
        /\ UNCHANGED <<now, claims, pods>>
    BY Zenon, <1>3 DEF Restart, apiVars
  <2>2. DeletedHasNoPod'
    BY Zenon, <2>1 DEF DeletedHasNoPod
  <2>3. \A v \in Controllers : CacheKnows(v)'
    BY <2>1 DEF CacheKnows, Doomed, ClaimInv, TypeOK
  <2>4. work'[w] = Idle /\ \A v \in Controllers : v # w => /\ work'[v] = work[v]
                                                            /\ version'[v] = version[v]
    BY <2>1 DEF ClaimInv, TypeOK
  <2>5. ASSUME NEW v \in Controllers PROVE PodWork(v)'
    <3>1. CASE v = w
      <4>1. Idle.pc = "idle"
        BY Zenon, NullTypes
      <4> QED BY Zenon, <2>4, <3>1, <4>1 DEF PodWork, Deleting
    <3>2. CASE v # w
      <4>1. work'[v] = work[v] /\ version'[v] = version[v] /\ UNCHANGED <<now, claims, pods>>
        BY <2>1, <2>4, <3>2
      <4> QED BY Zenon, <4>1 DEF PodWork, Deleting, Doomed, PodIsDown
    <3> QED BY Zenon, <3>1, <3>2
  <2> QED BY <2>2, <2>3, <2>5
<1>4. CASE Tick
  <2>1. now' = now + 1 /\ UNCHANGED <<claims, pods, cache, version, work>>
    BY <1>4 DEF Tick, apiVars, cacheVars
  <2>2. now \in Nat /\ MaxTime \in Nat
    BY TimesAreNaturals DEF ClaimInv, TypeOK
  <2>3. \A object \in ClaimObjects :
          Doomed(object) =>
            \/ object.desired = "Deleted"
            \/ object.deleting
            \/ object.expires # 0 /\ now + 1 >= object.expires
    <3>1. \A object \in ClaimObjects : object.expires \in Nat
      BY TimesAreNaturals DEF ClaimObjects, Times
    <3>2. \A e \in Nat : now >= e => now + 1 >= e
      BY <2>2
    <3> QED BY <3>1, <3>2 DEF Doomed
  <2>4. \A v \in Controllers : work[v].obj \in ClaimObjects
    BY DEF ClaimInv, TypeOK, Works
  <2>5. \A v \in Controllers : \A c \in Claims : cache[v][c] \in ClaimObjects
    BY DEF ClaimInv, TypeOK
  <2>6. DeletedHasNoPod'
    BY <2>1 DEF DeletedHasNoPod
  <2>7. ASSUME NEW v \in Controllers PROVE PodWork(v)' /\ CacheKnows(v)'
    <3>1. Doomed(work[v].obj) => Doomed(work[v].obj)'
      BY Zenon, <2>1, <2>3, <2>4 DEF Doomed
    <3>2. \A c \in Claims : Doomed(cache[v][c]) => Doomed(cache[v][c])'
      BY Zenon, <2>1, <2>3, <2>5 DEF Doomed
    <3>3. PodWork(v)'
      BY Zenon, <2>1, <3>1 DEF PodWork, Deleting, PodIsDown
    <3>4. CacheKnows(v)'
      BY Zenon, <2>1, <3>2 DEF CacheKnows
    <3> QED BY Zenon, <3>3, <3>4
  <2> QED BY <2>6, <2>7
<1>5. ASSUME NEW p \in PodNames, PodStep(p)
      PROVE  DeletedHasNoPod' /\ \A v \in Controllers : PodWork(v)' /\ CacheKnows(v)'
  <2>1. PICK pod \in PodObjects :
               /\ PodWrites(p, pod)
               /\ pod.state \in {"starting", "ready"} => pods[p].state \in {"starting", "ready"}
    BY Zenon, <1>5, PodStepOK
  <2>2. pods' = [pods EXCEPT ![p] = pod] /\ UNCHANGED <<now, claims, cache, version, work>>
    BY Zenon, <2>1 DEF PodWrites, cacheVars
  <2>3. \A c \in Claims : PodIsDown(c) => PodIsDown(c)'
    <3>1. pod.state \in {"absent", "starting", "ready", "terminating"}
      BY DEF PodObjects
    <3>2. \A c \in Claims : PodNameOf[c] \in PodNames
      BY ClaimsAreSandboxes
    <3>3. \A r \in PodNames : pods'[r] = IF r = p THEN pod ELSE pods[r]
      BY Zenon, <2>2 DEF ClaimInv, TypeOK
    <3> QED BY Zenon, <2>1, <3>1, <3>2, <3>3 DEF PodIsDown
  <2>4. DeletedHasNoPod'
    BY Zenon, <2>2, <2>3 DEF DeletedHasNoPod, PodIsDown
  <2>5. \A v \in Controllers : Deleting(work[v]) => work[v].claim \in Claims
    BY Zenon, UnderWay DEF Deleting
  <2>6. \A v \in Controllers : PodWork(v)'
    <3> TAKE v \in Controllers
    <3>1. Deleting(work[v]) /\ PodIsDown(work[v].claim) => PodIsDown(work[v].claim)'
      BY Zenon, <2>2, <2>3, <2>5 DEF PodIsDown
    <3> QED BY Zenon, <2>2, <3>1 DEF PodWork, Deleting, Doomed
  <2>7. \A v \in Controllers : CacheKnows(v)'
    BY Zenon, <2>2 DEF CacheKnows, Doomed
  <2> QED BY Zenon, <2>4, <2>6, <2>7
<1>6. ASSUME \/ \E w \in Controllers : \E p \in PodNames : ObservePod(w, p)
             \/ \E c \in Claims, target \in Targets \cup {NoTarget} : LateArrives(c, target)
             \/ UNCHANGED vars
      PROVE  UNCHANGED <<now, claims, pods, cache, version, work>>
  BY Zenon, <1>6 DEF ObservePod, LateArrives, vars, apiVars, cacheVars
<1> QED
  BY <1>1, <1>2, <1>3, <1>4, <1>5, <1>6 DEF Watch

(* No claims, no Pods. *)
LEMMA PodInitially == Init => PodInv
<1> SUFFICES ASSUME Init PROVE PodInv
  OBVIOUS
<1>1. NoObject.phase # "Deleted" /\ Idle.pc = "idle"
  BY NullTypes DEF NoObject
<1>2. DeletedHasNoPod /\ \A w \in Controllers : PodWork(w) /\ CacheKnows(w)
  BY Zenon, <1>1 DEF Init, DeletedHasNoPod, PodWork, CacheKnows, Deleting
<1> QED BY <1>2, ClaimInitially DEF PodInv

(* Every step keeps the Pods of deleted claims down. *)
LEMMA PodInductive ==
  ASSUME SoleController, OwnPods, PodInv, [Next]_vars
  PROVE  PodInv'
<1> SUFFICES DeletedHasNoPod' /\ \A v \in Controllers : PodWork(v)' /\ CacheKnows(v)'
  BY ClaimInductive DEF PodInv
<1> QED
  BY PodReconcile, PodUsers, PodWriteClaim, PodOther DEF Next, Reconcile, PodStep

(* reconciler.go:83-88: with one controller, and claims that do not share  *)
(* a Pod name, a claim reported Deleted has no running Pod and gets none,  *)
(* however stale the controller's cache and whatever fails or restarts.    *)
THEOREM DeletedClaimsHaveNoPod ==
  SoleController /\ OwnPods => (Spec => []DeletedHasNoPod)
<1> SUFFICES ASSUME SoleController, OwnPods PROVE Spec => []DeletedHasNoPod
  OBVIOUS
<1>1. PodInv /\ [Next]_vars => PodInv'
  BY PodInductive
<1>2. PodInv => DeletedHasNoPod
  BY DEF PodInv
<1> QED
  BY PodInitially, <1>1, <1>2, PTL DEF Spec
----------------------------------------------------------------------------
(* What the proxy does by itself: it lets go of routes, and nothing of the *)
(* controller's or the API server's changes.                               *)
OnlyDropsRoutes ==
  /\ UNCHANGED <<now, claims, pods, orphans, late, cache, podCache, version, queue, work>>
  /\ routes' \in RouteTables
  /\ \A c \in Claims : routes'[c] \in {routes[c], NoTarget}

(* A pass of the monitor and a restart of the proxy only drop routes.      *)
LEMMA ProxyOnlyDrops ==
  ASSUME routes \in RouteTables, MonitorStep \/ ProxyRestart
  PROVE  OnlyDropsRoutes
<1>1. routes' = routes \/ routes' = NoRoutes \/ \E c : routes' = [routes EXCEPT ![c] = NoTarget]
  BY Zenon DEF MonitorStep, ProxyRestart, Health!Monitor, Health!List, Health!Probe,
         Health!Healthy, Health!RecordFailure, Health!Evict, Health!Unregister
<1>2. UNCHANGED <<now, claims, pods, orphans, late, cache, podCache, version, queue, work>>
  BY DEF MonitorStep, ProxyRestart, apiVars, cacheVars
<1>3. /\ routes' \in RouteTables
      /\ \A c \in Claims : routes'[c] \in {routes[c], NoTarget}
  BY <1>1, ClaimsAreSandboxes DEF RouteTables, NoRoutes
<1> QED BY <1>2, <1>3 DEF OnlyDropsRoutes

(* A step of the plane is one of the controller and its surroundings, or   *)
(* drops routes.                                                           *)
LEMMA PlaneSteps ==
  ASSUME ClaimInv, [PlaneNext]_planeVars
  PROVE  [Next]_vars \/ OnlyDropsRoutes
<1>1. routes \in RouteTables
  BY DEF ClaimInv, TypeOK
<1> QED BY <1>1, ProxyOnlyDrops DEF PlaneNext, OthersMove, planeVars

(* Losing routes disturbs nothing the controller relies on: the claims,    *)
(* the copies of them and the calls stay, and a call that has removed a    *)
(* route still finds it removed.                                           *)
LEMMA DroppingKeeps ==
  ASSUME OnlyDropsRoutes
  PROVE  /\ ClaimInv => ClaimInv'
         /\ RouteInv => RouteInv'
         /\ PodInv => PodInv'
<1> USE DEF OnlyDropsRoutes
<1>1. ClaimInv => ClaimInv'
  BY Zenon DEF ClaimInv, TypeOK, AbsentIsEmpty, CopiesAgree, WorksAgree, ReadyHasFinalizer
<1>2. RouteInv => RouteInv'
  <2> SUFFICES ASSUME RouteInv PROVE \A w \in Controllers : Unrouted(work[w])'
    BY <1>1 DEF RouteInv
  <2> TAKE w \in Controllers
  <2>1. work[w].pc # "idle" => work[w].claim \in Claims
    BY Zenon, UnderWay DEF RouteInv
  <2> QED BY <2>1 DEF RouteInv, Unrouted
<1>3. PodInv => PodInv'
  <2>1. DeletedHasNoPod => DeletedHasNoPod'
    BY Zenon DEF DeletedHasNoPod
  <2>2. \A w \in Controllers : PodWork(w) => PodWork(w)'
    BY Zenon DEF PodWork, Deleting, Doomed, PodIsDown
  <2>3. \A w \in Controllers : CacheKnows(w) => CacheKnows(w)'
    BY Zenon DEF CacheKnows, Doomed
  <2> QED BY Zenon, <1>1, <2>1, <2>2, <2>3 DEF PodInv
<1> QED BY Zenon, <1>1, <1>2, <1>3

(* controller.go:76-81, reconciler.go:86-88, 128-130: what the controller  *)
(* promises about claims holds also where the monitor takes its routes     *)
(* away at any time and the proxy forgets all of them (health.go:63-68),   *)
(* for any number of controllers and claims and under every fault.         *)
THEOREM ClaimsOutliveRoutes ==
  PlaneSpec => []ReadyHasFinalizer /\ DeletedIsFinal /\ ExpiryIsStable
<1>1. PlaneInit => ClaimInv
  BY ClaimInitially DEF PlaneInit
<1>2. ClaimInv /\ [PlaneNext]_planeVars => ClaimInv'
  BY PlaneSteps, ClaimInductive, DroppingKeeps
<1>3. ClaimInv => ReadyHasFinalizer
  BY DEF ClaimInv
<1>4. ASSUME ClaimInv, [PlaneNext]_planeVars PROVE ClaimsFollow
  <2>1. claims' = claims => ClaimsFollow
    BY DEF ClaimsFollow, Follows
  <2> QED BY <1>4, <2>1, PlaneSteps, ClaimInductive DEF OnlyDropsRoutes
<1>5. ClaimInv /\ [PlaneNext]_planeVars =>
        [\A c \in Claims : claims[c].phase = "Deleted" =>
            claims'[c].phase = "Deleted" \/ ~claims'[c].exists]_vars
  BY Zenon, <1>4 DEF ClaimsFollow, Follows
<1>6. ClaimInv /\ [PlaneNext]_planeVars =>
        [\A c \in Claims :
            claims[c].expires # 0 /\ claims'[c].phase # "Deleted" /\ claims'[c].exists =>
              claims'[c].expires = claims[c].expires]_vars
  BY <1>4 DEF ClaimsFollow, Follows
<1> QED
  BY <1>1, <1>2, <1>3, <1>5, <1>6, PTL DEF PlaneSpec, DeletedIsFinal, ExpiryIsStable

(* controller.go:94-102: the finalizer still waits for the route where the *)
(* monitor and restarts of the proxy change the table under a call.        *)
THEOREM FinalizerWaitsInPlane ==
  SoleController /\ "late" \notin Faults => (PlaneSpec => FinalizerAwaitsRoute)
<1> SUFFICES ASSUME SoleController, "late" \notin Faults
             PROVE  PlaneSpec => FinalizerAwaitsRoute
  OBVIOUS
<1>1. PlaneInit => RouteInv
  BY RouteInitially DEF PlaneInit
<1>2. RouteInv /\ [PlaneNext]_planeVars => RouteInv'
  BY Zenon, PlaneSteps, RouteInductive, DroppingKeeps DEF RouteInv
<1>3. RouteInv /\ [PlaneNext]_planeVars =>
        [\A c \in Claims :
           claims[c].finalizer /\ ~claims'[c].finalizer /\ claims[c].ref =>
             routes[c] = NoTarget]_vars
  BY PlaneSteps, FinalizerStep DEF OnlyDropsRoutes, RouteInv
<1> QED
  BY <1>1, <1>2, <1>3, PTL DEF PlaneSpec, FinalizerAwaitsRoute

(* reconciler.go:83-88: nor do lost routes make the controller start a Pod *)
(* for a claim it has reported Deleted.                                    *)
THEOREM DeletedHasNoPodInPlane ==
  SoleController /\ OwnPods => (PlaneSpec => []DeletedHasNoPod)
<1> SUFFICES ASSUME SoleController, OwnPods PROVE PlaneSpec => []DeletedHasNoPod
  OBVIOUS
<1>1. PlaneInit => PodInv
  BY PodInitially DEF PlaneInit
<1>2. PodInv /\ [PlaneNext]_planeVars => PodInv'
  BY PlaneSteps, PodInductive, DroppingKeeps DEF PodInv
<1>3. PodInv => DeletedHasNoPod
  BY DEF PodInv
<1> QED
  BY <1>1, <1>2, <1>3, PTL DEF PlaneSpec
============================================================================
