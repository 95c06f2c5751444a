---------------------------- MODULE SandboxStore ----------------------------
(***************************************************************************)
(* internal/sandbox/service.go: the control plane's Store.  Each replica   *)
(* is a process with maps of its own, and every method holds the process's *)
(* mutex from its first read to its return, the call to the governance     *)
(* store included.  That call is the only access to state shared between   *)
(* processes, so one method call is one step.                              *)
(*                                                                         *)
(* A deployment is the store its processes were started with,              *)
(*   "none"    NewStore: no governance store, the maps are everything      *)
(*   "memory"  a MemoryGovernanceStore, lost with the process              *)
(*   "sql"     a SQLStore: durable and shared by all replicas              *)
(* and the replicas that run: more than one only if they share a store.    *)
(*                                                                         *)
(* Calls that are refused before anything changes (an invalid request, an  *)
(* unknown sandbox, a replayed key) leave every variable as it is and are  *)
(* not steps.                                                              *)
(***************************************************************************)
EXTENDS Naturals, FiniteSets

CONSTANTS
  Replicas, Tenants, Owners, Keys,
  Requests,    \* create requests as callers send them
  Limits,
  MaxSeq,      \* bound: creations that get a sequence number, per process
  Backends,    \* the stores a deployment may have
  Load,        \* bound: the keys, limits and numbers used with each of them
  Faults,      \* which of "error", "lostAck", "restart" may happen
  NoAccount, NoKey, NoRequest   \* the fields of a map entry that is not there

Accounts == Tenants \X Owners
IdemKeys == Tenants \X Keys

(* sbx-%08d and alloc-%08d of a process's own sequence: one number is both *)
Ids == 1..MaxSeq

ASSUME BackendAssumption == Backends \subseteq {"none", "memory", "sql"}
ASSUME FaultsAssumption == Faults \subseteq {"error", "lostAck", "restart"}
ASSUME BoundsAssumption == MaxSeq \in Nat /\ Limits \subseteq Nat
ASSUME LoadAssumption ==
  Load \in [Backends -> [keys : SUBSET Keys, limits : SUBSET Limits, ids : 0..MaxSeq]]
ASSUME NullsAreDistinct == NoAccount \notin Accounts /\ NoKey \notin Keys

VARIABLES
  backend, running,   \* the deployment, which does not change
  quota, alloc,   \* the governance store
  sequence,       \* per replica: Store.sequence
  sandboxes,      \* per replica and id
  allocations,    \* per replica and id
  idempotency,    \* per replica and (tenant, key)
  quotas,         \* per replica and account: the quota map or projection
  drainFailed     \* history: ids whose Drain returned a driver error

govVars == <<quota, alloc>>
deployment == <<backend, running>>
vars == <<deployment, quota, alloc, sequence, sandboxes, allocations,
          idempotency, quotas, drainFailed>>

(* Store never calls InsertIdempotencyPending: no t_idempotency_key here.  *)
Gov == INSTANCE GovernanceStore
         WITH Allocations <- Ids, IdemKeys <- {}, Claims <- {}, NoClaim <- NoKey,
              idem <- <<>>

(* The request hash covers the request after its defaults are filled in. *)
Normalize(req) ==
  [req EXCEPT !.ttl = IF @ = 0 THEN 1800 ELSE @,
              !.runtimeClass = IF @ = "" THEN "gvisor" ELSE @]

Hashes == {Normalize(req) : req \in Requests}
----------------------------------------------------------------------------
NoSandbox == [phase |-> "Absent", account |-> NoAccount, key |-> NoKey]
NoRecord == [status |-> "Absent", owner |-> NoAccount, hash |-> NoRequest,
             resource |-> 0]

TypeOK ==
  /\ backend \in Backends /\ running \subseteq Replicas
  /\ quota \in [Accounts -> [row : {"absent", "present"}, limit : Nat, count : Nat]]
  /\ alloc \in [Ids -> [status : {"ABSENT", "RESERVED", "RELEASED"},
                        account : Accounts \cup {NoAccount}]]
  /\ sequence \in [Replicas -> 0..MaxSeq]
  /\ sandboxes \in
       [Replicas -> [Ids ->
          {NoSandbox} \cup [phase : {"Ready", "Draining", "Deleted"},
                            account : Accounts, key : Keys]]]
  /\ allocations \in
       [Replicas -> [Ids -> [status : {"ABSENT", "RESERVED", "RELEASED"},
                             account : Accounts \cup {NoAccount}]]]
  /\ idempotency \in
       [Replicas -> [IdemKeys ->
          {NoRecord} \cup [status : {"PENDING", "SUCCEEDED"}, owner : Owners,
                           hash : Hashes, resource : 0..MaxSeq]]]
  /\ quotas \in
       [Replicas -> [Accounts ->
          [row : {"absent", "present"}, limit : Nat, count : Nat]]]
  /\ drainFailed \in [Replicas -> SUBSET Ids]

(* Calls of a MemoryGovernanceStore do not fail. *)
Fault(kind) == kind \in Faults /\ backend = "sql"

NoRow == [row |-> "absent", limit |-> 0, count |-> 0]
NoAllocationRow == [status |-> "ABSENT", account |-> NoAccount]

Init ==
  /\ backend \in Backends
  /\ running \in IF backend = "sql" THEN {Replicas} ELSE {{r} : r \in Replicas}
  /\ quota = [a \in Accounts |-> NoRow]
  /\ alloc = [n \in Ids |-> NoAllocationRow]
  /\ sequence = [r \in Replicas |-> 0]
  /\ sandboxes = [r \in Replicas |-> [n \in Ids |-> NoSandbox]]
  /\ allocations = [r \in Replicas |-> [n \in Ids |-> NoAllocationRow]]
  /\ idempotency = [r \in Replicas |-> [k \in IdemKeys |-> NoRecord]]
  /\ quotas = [r \in Replicas |-> [a \in Accounts |-> NoRow]]
  /\ drainFailed = [r \in Replicas |-> {}]
----------------------------------------------------------------------------
(* SetQuota materializes the map's row before the governance store is      *)
(* asked, and writes the limit once it agreed.                             *)
WithRow(r, a) == [quotas EXCEPT ![r][a].row = "present"]
WithLimit(r, a, limit) ==
  [quotas EXCEPT ![r][a].row = "present", ![r][a].limit = limit]

(* Mutated: the limit may go below the usage. *)
SetQuotaLocalUnchecked(r, a, limit) ==
  /\ backend = "none"
  /\ quotas' = WithLimit(r, a, limit)
  /\ UNCHANGED govVars

SetQuotaLocal(r, a, limit) ==
  /\ backend = "none"
  /\ quotas' = IF limit < quotas[r][a].count
                 THEN WithRow(r, a)
                 ELSE WithLimit(r, a, limit)
  /\ UNCHANGED govVars

SetQuotaGoverned(r, a, limit) ==
  /\ backend # "none"
  /\ \/ Gov!SetQuota(a, limit) /\ quotas' = WithLimit(r, a, limit)
     \/ /\ Fault("lostAck")
        /\ Gov!SetQuota(a, limit) /\ quotas' = WithRow(r, a)
     \/ /\ ~Gov!FitsUsage(a, limit) \/ Fault("error")
        /\ UNCHANGED govVars /\ quotas' = WithRow(r, a)

SetQuota(r, a, limit) ==
  /\ SetQuotaLocal(r, a, limit) \/ SetQuotaGoverned(r, a, limit)
  /\ UNCHANGED <<sequence, sandboxes, allocations, idempotency, drainFailed>>
----------------------------------------------------------------------------
(* Create, for a key with no record: takes the next number, inserts the    *)
(* PENDING record, reserves, and on success writes the allocation, the     *)
(* sandbox and the terminal record.                                        *)
Pending(owner, req) ==
  [status |-> "PENDING", owner |-> owner, hash |-> Normalize(req), resource |-> 0]

(* Mutated: only the call in progress keeps others from its key. *)
PriorInProgress(r, k) == idempotency[r][k].status = "PENDING"

(* Mutated: after a refusal the PENDING record stays. *)
CreateRefusedKeepsRecord(r, k, owner, req) ==
  /\ idempotency' = [idempotency EXCEPT ![r][k] = Pending(owner, req)]
  /\ UNCHANGED <<sandboxes, allocations, quotas>>

Prior(r, k) == idempotency[r][k].status # "Absent"

Fulfil(r, k, owner, req) ==
  LET n == sequence[r] + 1
      a == <<k[1], owner>> IN
  /\ allocations' = [allocations EXCEPT ![r][n] =
                       [status |-> "RESERVED", account |-> a]]
  /\ sandboxes' = [sandboxes EXCEPT ![r][n] =
                     [phase |-> "Ready", account |-> a, key |-> k[2]]]
  /\ idempotency' = [idempotency EXCEPT ![r][k] =
                       [Pending(owner, req) EXCEPT !.status = "SUCCEEDED",
                                                   !.resource = n]]
  /\ quotas' = [quotas EXCEPT ![r][a].row = "present", ![r][a].count = @ + 1]

(* With a governance store a failed reserve deletes the PENDING record. *)
CreateRefused(r, k, owner, req) ==
  UNCHANGED <<sandboxes, allocations, idempotency, quotas>>

(* Without one, the early returns leave it behind. *)
CreateLocal(r, k, owner, req) ==
  LET q == quotas[r][<<k[1], owner>>]
      hasRoom == q.row = "present" /\ q.count < q.limit IN
  /\ backend = "none"
  /\ \/ hasRoom /\ Fulfil(r, k, owner, req)
     \/ /\ ~hasRoom
        /\ idempotency' = [idempotency EXCEPT ![r][k] = Pending(owner, req)]
        /\ UNCHANGED <<sandboxes, allocations, quotas>>
  /\ UNCHANGED govVars

(* Mutated: the error of ReserveAllocation is not looked at. *)
CreateIgnoresError(r, k, owner, req) ==
  LET n == sequence[r] + 1
      a == <<k[1], owner>> IN
  /\ backend # "none"
  /\ \/ Gov!ReserveAllocation(a, n)
     \/ UNCHANGED govVars
  /\ Fulfil(r, k, owner, req)

CreateGoverned(r, k, owner, req) ==
  LET n == sequence[r] + 1
      a == <<k[1], owner>> IN
  /\ backend # "none"
  /\ \/ Gov!ReserveAllocation(a, n) /\ Fulfil(r, k, owner, req)
     \/ /\ Fault("lostAck")
        /\ Gov!ReserveAllocation(a, n) /\ CreateRefused(r, k, owner, req)
     \/ /\ ~Gov!HasRoom(a) \/ ~Gov!IsUnused(n) \/ Fault("error")
        /\ UNCHANGED govVars /\ CreateRefused(r, k, owner, req)

Create(r, k, owner, req) ==
  /\ ~Prior(r, k)
  /\ sequence[r] < Load[backend].ids
  /\ sequence' = [sequence EXCEPT ![r] = @ + 1]
  /\ CreateLocal(r, k, owner, req) \/ CreateGoverned(r, k, owner, req)
  /\ UNCHANGED drainFailed

(* What Create answers a key that has a record: the id of the sandbox it   *)
(* returns, or 0 for any of its errors.                                    *)
Replay(r, k, owner, req) ==
  LET prior == idempotency[r][k] IN
  IF /\ prior.hash = Normalize(req)
     /\ prior.owner = owner
     /\ prior.status = "SUCCEEDED"
     /\ sandboxes[r][prior.resource] # NoSandbox
  THEN prior.resource
  ELSE 0
----------------------------------------------------------------------------
(* Mutated: the projection is not decremented. *)
ReleaseKeepsCount(r, n) ==
  /\ allocations' = [allocations EXCEPT ![r][n].status = "RELEASED"]
  /\ sandboxes' = [sandboxes EXCEPT ![r][n].phase = "Draining"]
  /\ UNCHANGED <<quotas, drainFailed>>

(* releaseAllocationLocked, then the phase.  The projection follows only   *)
(* where it has a row with something to give back.                         *)
ReleaseLocally(r, n) ==
  LET a == allocations[r][n].account IN
  /\ allocations' = [allocations EXCEPT ![r][n].status = "RELEASED"]
  /\ quotas' = [quotas EXCEPT ![r][a].count = IF @ > 0 THEN @ - 1 ELSE @]
  /\ sandboxes' = [sandboxes EXCEPT ![r][n].phase = "Draining"]
  /\ UNCHANGED drainFailed

(* Mutated: the phase is set before the release is known to succeed. *)
ReleaseFailsDraining(r, n) ==
  /\ drainFailed' = [drainFailed EXCEPT ![r] = @ \cup {n}]
  /\ sandboxes' = [sandboxes EXCEPT ![r][n].phase = "Draining"]
  /\ UNCHANGED <<allocations, quotas>>

(* The call to the governance store failed: nothing here changes. *)
ReleaseFails(r, n) ==
  /\ drainFailed' = [drainFailed EXCEPT ![r] = @ \cup {n}]
  /\ UNCHANGED <<allocations, quotas, sandboxes>>

DrainLocal(r, n) ==
  /\ backend = "none"
  /\ quotas[r][allocations[r][n].account].row = "present"
  /\ quotas[r][allocations[r][n].account].count > 0
  /\ ReleaseLocally(r, n)
  /\ UNCHANGED govVars

(* Mutated: an error of ReleaseAllocation is taken for success. *)
DrainIgnoresError(r, n) ==
  /\ backend # "none"
  /\ \/ Gov!ReleaseAllocation(allocations[r][n].account, n)
     \/ UNCHANGED govVars
  /\ ReleaseLocally(r, n)

DrainGoverned(r, n) ==
  LET a == allocations[r][n].account IN
  /\ backend # "none"
  /\ \/ Gov!ReleaseAllocation(a, n) /\ ReleaseLocally(r, n)
     \/ /\ alloc[n] = [status |-> "RELEASED", account |-> a]
        /\ UNCHANGED govVars /\ ReleaseLocally(r, n)
     \/ /\ Fault("lostAck")
        /\ Gov!ReleaseAllocation(a, n) /\ ReleaseFails(r, n)
     \/ /\ Fault("error")
        /\ UNCHANGED govVars /\ ReleaseFails(r, n)

(* Drain of a sandbox that is Draining already answers with it.  A Ready   *)
(* sandbox whose local allocation is released, a local count of zero, and  *)
(* a durable row that is missing or another account's, which the code also *)
(* provides for, do not occur: see MapsAgree and ReadyIsPaidFor.           *)
Drain(r, n) ==
  /\ sandboxes[r][n].phase = "Ready"
  /\ allocations[r][n].status = "RESERVED"
  /\ DrainLocal(r, n) \/ DrainGoverned(r, n)
  /\ UNCHANGED <<sequence, idempotency>>

CompleteDeletion(r, n) ==
  /\ sandboxes[r][n].phase = "Draining"
  /\ sandboxes' = [sandboxes EXCEPT ![r][n].phase = "Deleted"]
  /\ UNCHANGED <<govVars, sequence, allocations, idempotency, quotas, drainFailed>>

(* A process ends and a new one takes its place, with empty maps: nothing  *)
(* is read back from the governance store (cmd/kubebox/main.go).  The      *)
(* accounts here are those of callers: the quota main installs for an      *)
(* account of its own is no different from a caller's SetQuota.            *)
Restart(r) ==
  /\ "restart" \in Faults
  /\ sequence' = [sequence EXCEPT ![r] = 0]
  /\ sandboxes' = [sandboxes EXCEPT ![r] = [n \in Ids |-> NoSandbox]]
  /\ allocations' = [allocations EXCEPT ![r] = [n \in Ids |-> NoAllocationRow]]
  /\ idempotency' = [idempotency EXCEPT ![r] = [k \in IdemKeys |-> NoRecord]]
  /\ quotas' = [quotas EXCEPT ![r] = [a \in Accounts |-> NoRow]]
  /\ drainFailed' = [drainFailed EXCEPT ![r] = {}]
  /\ IF backend = "memory"
       THEN /\ quota' = [a \in Accounts |-> NoRow]
            /\ alloc' = [n \in Ids |-> NoAllocationRow]
       ELSE UNCHANGED govVars

Next ==
  /\ UNCHANGED deployment
  /\ \E r \in running :
    \/ \E a \in Accounts, limit \in Load[backend].limits : SetQuota(r, a, limit)
    \/ \E k \in Tenants \X Load[backend].keys, owner \in Owners, req \in Requests :
         Create(r, k, owner, req)
    \/ \E n \in Ids : Drain(r, n) \/ CompleteDeletion(r, n)
    \/ Restart(r)

Spec == Init /\ [][Next]_vars
----------------------------------------------------------------------------
(* A sandbox a replica shows as Ready holds a RESERVED row of its account  *)
(* in the governance store, unless a Drain of it failed with an unknown    *)
(* outcome.  Process restarts make sequences start over and replicas hand  *)
(* out the same numbers, so this rests on the ledger's primary key.        *)
ReadyIsPaidFor ==
  backend # "none" =>
    \A r \in Replicas, n \in Ids :
      sandboxes[r][n].phase = "Ready" /\ n \notin drainFailed[r]
        => alloc[n] = [status |-> "RESERVED", account |-> sandboxes[r][n].account]

(* All replicas together never show an owner more Ready sandboxes than the *)
(* owner's durable limit (again leaving out failed drains).  Without a     *)
(* governance store the map enforces its limit: neither a create nor a     *)
(* lowered limit leaves more in use than it allows.                        *)
ReadyWithinLimit ==
  \A a \in Accounts :
    /\ backend # "none" =>
         Cardinality({e \in Replicas \X Ids :
                        /\ sandboxes[e[1]][e[2]].phase = "Ready"
                        /\ sandboxes[e[1]][e[2]].account = a
                        /\ e[2] \notin drainFailed[e[1]]}) <= quota[a].limit
    /\ backend = "none" =>
         \A r \in Replicas : quotas[r][a].count <= quotas[r][a].limit

(* A sandbox reported as Draining or Deleted has really given its slot     *)
(* back, also when an earlier Drain failed after its commit.               *)
DrainedIsReleased ==
  backend # "none" =>
    \A r \in Replicas, n \in Ids :
      sandboxes[r][n].phase \in {"Draining", "Deleted"}
        => alloc[n].status = "RELEASED"

(* The maps of a process agree, whatever failed or was retried: the count  *)
(* GetQuota reports is the number of RESERVED allocations, and a sandbox   *)
(* is Ready exactly while its allocation is RESERVED, so Drain is never    *)
(* asked to release twice.                                                 *)
MapsAgree ==
  \A r \in Replicas :
    /\ \A a \in Accounts :
         quotas[r][a].count =
           Cardinality({n \in Ids : allocations[r][n] =
                                       [status |-> "RESERVED", account |-> a]})
    /\ \A n \in Ids :
         /\ sandboxes[r][n].phase = "Ready" <=> allocations[r][n].status = "RESERVED"
         /\ sandboxes[r][n].account = allocations[r][n].account

(* Within one process an idempotency key names at most one sandbox, of the *)
(* tenant and the owner that claimed the key.                              *)
OneSandboxPerKey ==
  \A r \in Replicas, k \in IdemKeys, n \in Ids :
    sandboxes[r][n].key = k[2] /\ sandboxes[r][n].account[1] = k[1]
      => /\ idempotency[r][k].status = "SUCCEEDED"
         /\ idempotency[r][k].resource = n
         /\ sandboxes[r][n].account = <<k[1], idempotency[r][k].owner>>

(* service.go:213: with a governance store no call returns leaving its key *)
(* PENDING, so a key whose create failed can be used again.  Without one,  *)
(* the early returns at service.go:225-230 leave the key PENDING for good. *)
NoStuckKey ==
  backend # "none" =>
    \A r \in Replicas, k \in IdemKeys : idempotency[r][k].status # "PENDING"

(* service.go:182-197, docs/系统设计.md:614: once a request and owner are  *)
(* answered with a sandbox for a key, that is the answer they get as long  *)
(* as the sandbox is Ready; and it is a sandbox of their own.  Nothing is  *)
(* said of one that is drained: the design (:1232) lets its key be used    *)
(* again, and the code goes on to answer with it.                          *)
OutcomeIsStable ==
  [][\A r \in Replicas, k \in IdemKeys, owner \in Owners, req \in Requests :
       LET n == Replay(r, k, owner, req) IN
       n # 0 /\ sandboxes[r][n].phase = "Ready" =>
         /\ sandboxes[r][n].account = <<k[1], owner>>
         /\ Replay(r, k, owner, req)' = n \/ sandboxes'[r][n].phase # "Ready"]_vars

(* service.go:99-100: "the in-memory maps stay in sync as a projection for *)
(* reads" -- they equal the table of a governance store that lives and     *)
(* ends with the process.                                                  *)
ProjectionInSync ==
  backend = "memory" => \A r \in running : quotas[r] = quota

(* Across all running replicas an idempotency key names one sandbox.       *)
KeyIsSharedByReplicas ==
  \A q, r \in Replicas, m, n \in Ids :
    /\ sandboxes[q][m] # NoSandbox /\ sandboxes[r][n] # NoSandbox
    /\ sandboxes[q][m].key = sandboxes[r][n].key
    /\ sandboxes[q][m].account[1] = sandboxes[r][n].account[1]
    => q = r /\ m = n
=============================================================================
