------------------------- MODULE SandboxStoreProofs -------------------------
(***************************************************************************)
(* The control plane's Store keeps the invariant of SandboxStoreInvariant. *)
(* From it follow what a caller sees, that the ledger is only changed as   *)
(* its contract provides, and that every count is the number of rows.      *)
(***************************************************************************)
EXTENDS SandboxStoreInvariant, FiniteSetTheorems, TLAPS
----------------------------------------------------------------------------
(* The invariant holds. *)

(* A deployment whose processes have just started satisfies the invariant. *)
LEMMA InitIInv == Init => IInv
<1> SUFFICES ASSUME Init PROVE IInv
  OBVIOUS
<1>0. running \subseteq Replicas
  BY DEF Init
<1>1. /\ quota \in [Accounts -> QuotaRows] /\ alloc \in [Ids -> AllocationRows]
      /\ \A a \in Accounts : quota[a].count = 0 /\ quota[a].limit = 0
  BY GovEmpty, Zenon DEF Init
<1>2. TypeOK
  <2>1. NoSandbox \in SandboxRows /\ NoRecord \in Records
    BY DEF SandboxRows, Records
  <2>2. NoAllocationRow \in AllocationRows /\ NoRow \in QuotaRows
    BY DEF AllocationRows, NoAllocationRow, NoRow, QuotaRows
  <2>3. 0 \in 0..MaxSeq
    BY BoundsAssumption
  <2>4. /\ backend \in Backends
        /\ sequence \in [Replicas -> 0..MaxSeq]
        /\ sandboxes \in [Replicas -> [Ids -> SandboxRows]]
        /\ allocations \in [Replicas -> [Ids -> AllocationRows]]
        /\ idempotency \in [Replicas -> [IdemKeys -> Records]]
        /\ quotas \in [Replicas -> [Accounts -> QuotaRows]]
        /\ drainFailed \in [Replicas -> SUBSET Ids]
    BY <2>1, <2>2, <2>3, Zenon DEF Init
  <2> QED BY <1>0, <1>1, <2>4, Typed, Zenon
<1>3. LedgerOK
  BY <1>1 DEF LedgerOK
<1>4. MapsInv
  <2> SUFFICES ASSUME NEW r \in Replicas PROVE ReplicaOK(r)
    BY DEF MapsInv
  <2>1. /\ sequence[r] = 0 /\ sandboxes[r] = [n \in Ids |-> NoSandbox]
        /\ allocations[r] = [n \in Ids |-> NoAllocationRow]
        /\ idempotency[r] = [k \in IdemKeys |-> NoRecord]
        /\ quotas[r] = [a \in Accounts |-> NoRow]
    BY Zenon DEF Init
  <2>3. SequenceIsAhead(r)
    BY <2>1, Zenon DEF SequenceIsAhead
  <2>4. PhasesAgree(r)
    BY <2>1 DEF PhasesAgree, NoSandbox, NoAllocationRow
  <2>5. SandboxesAreRecorded(r)
    <3>1. \A k \in IdemKeys : k[2] # NoKey
      BY NullsAreDistinct, Zenon DEF IdemKeys
    <3>2. \A n \in Ids : sandboxes[r][n].key = NoKey
      BY <2>1 DEF NoSandbox
    <3> QED BY <3>1, <3>2, Zenon DEF SandboxesAreRecorded
  <2>6. RecordsAreTrue(r)
    BY <2>1 DEF RecordsAreTrue, NoRecord
  <2> QED BY <2>3, <2>4, <2>5, <2>6, Zenon DEF ReplicaOK
<1>5. BookInv
  <2>1. \A r \in Replicas, n \in Ids : sandboxes[r][n] = NoSandbox
    BY DEF Init
  <2>2. OneProcess
    BY DEF Init, OneProcess
  <2>3. IdleIsEmpty /\ OneHolder
    BY <2>1, Zenon DEF IdleIsEmpty, OneHolder
  <2>4. DrainsFailInSql
    BY Zenon DEF Init, DrainsFailInSql
  <2>5. \A r \in Replicas, n \in Ids : Booked(r, n)
    BY <2>1, Zenon DEF Booked
  <2> QED BY <2>2, <2>3, <2>4, <2>5, Zenon DEF BookInv
<1>6. NoStuckKey
  BY DEF Init, NoStuckKey, NoRecord
<1>7. ProjectionInSync
  BY <1>0, Zenon DEF Init, ProjectionInSync
<1>8. LocalLimit
  BY DEF Init, LocalLimit, NoRow
<1> QED BY <1>2, <1>3, <1>4, <1>5, <1>6, <1>7, <1>8, Zenon DEF IInv

(* Keys and limits a deployment is used with are keys and limits. *)
LEMMA LoadIsTyped ==
  ASSUME backend \in Backends
  PROVE  /\ Load[backend].limits \subseteq Limits /\ Limits \subseteq Nat
         /\ Load[backend].keys \subseteq Keys /\ Load[backend].ids \in 0..MaxSeq
<1>1. Load[backend] \in [keys : SUBSET Keys, limits : SUBSET Limits, ids : 0..MaxSeq]
  BY LoadAssumption
<1> QED BY <1>1, BoundsAssumption, Zenon

(* Every method call and every restart keeps it. *)
LEMMA NextIInv == IInv /\ [Next]_vars => IInv'
<1> SUFFICES ASSUME IInv, [Next]_vars PROVE IInv'
  BY Zenon
<1>1. CASE UNCHANGED vars
  <2>1. UNCHANGED <<backend, running, quota, alloc, sequence, sandboxes, allocations,
                    idempotency, quotas, drainFailed>>
    BY <1>1, Zenon DEF vars, deployment
  <2>2. TypeOK'
    BY <2>1, Zenon DEF IInv, TypeOK
  <2>3. LedgerOK'
    BY <2>1, Zenon DEF IInv, LedgerOK
  <2>4. MapsInv'
    <3> SUFFICES ASSUME NEW q \in Replicas PROVE ReplicaOK(q)'
      BY DEF MapsInv
    <3> QED BY <2>1, OtherReplica, Zenon DEF IInv, MapsInv
  <2>5. BookInv'
    BY <2>1, BookFrame, Zenon DEF IInv, deployment
  <2>6. NoStuckKey' /\ ProjectionInSync' /\ LocalLimit'
    BY <2>1, Zenon DEF IInv, NoStuckKey, ProjectionInSync, LocalLimit
  <2> QED BY <2>2, <2>3, <2>4, <2>5, <2>6, Zenon DEF IInv
<1>2. CASE Next
  <2>0. UNCHANGED deployment /\ backend \in Backends
    BY <1>2, Typed, Zenon DEF Next, IInv
  <2>1. ASSUME NEW r \in running, NEW a \in Accounts,
               NEW limit \in Load[backend].limits, SetQuota(r, a, limit)
        PROVE  IInv'
    <3>1. limit \in Nat
      BY <2>0, LoadIsTyped, Zenon
    <3> QED BY <2>0, <2>1, <3>1, SetQuotaKeeps, Zenon
  <2>2. ASSUME NEW r \in running, NEW k \in Tenants \X Load[backend].keys,
               NEW owner \in Owners, NEW req \in Requests, Create(r, k, owner, req)
        PROVE  IInv'
    <3>1. k \in IdemKeys
      BY <2>0, LoadIsTyped, Zenon DEF IdemKeys
    <3> QED BY <2>0, <2>2, <3>1, CreateKeeps, Zenon
  <2>3. ASSUME NEW r \in running, NEW n \in Ids, Drain(r, n)
        PROVE  IInv'
    BY <2>0, <2>3, DrainKeeps, Zenon
  <2>4. ASSUME NEW r \in running, NEW n \in Ids, CompleteDeletion(r, n)
        PROVE  IInv'
    BY <2>0, <2>4, CompleteDeletionKeeps, Zenon
  <2>5. ASSUME NEW r \in running, Restart(r)
        PROVE  IInv'
    BY <2>0, <2>5, RestartKeeps, Zenon
  <2> QED BY <1>2, <2>1, <2>2, <2>3, <2>4, <2>5, Zenon DEF Next
<1> QED BY <1>1, <1>2, Zenon

(* It holds in every state the control plane reaches. *)
LEMMA Invariance == Spec => []IInv
BY InitIInv, NextIInv, PTL DEF Spec
----------------------------------------------------------------------------
(* What follows from it. *)

(* ReadyIsPaidFor, for every deployment with a governance store and with   *)
(* every fault: a sandbox shown as Ready holds a RESERVED row of its       *)
(* account, unless its Drain has failed, although processes start their    *)
(* sequences over and hand out the same numbers.                           *)
THEOREM ReadySandboxesArePaidFor == Spec => []ReadyIsPaidFor
<1>1. IInv => ReadyIsPaidFor
  <2> SUFFICES ASSUME IInv, backend # "none", NEW r \in Replicas, NEW n \in Ids,
                      sandboxes[r][n].phase = "Ready", n \notin drainFailed[r]
               PROVE  alloc[n] = [status |-> "RESERVED",
                                  account |-> sandboxes[r][n].account]
    BY DEF ReadyIsPaidFor
  <2>1. alloc[n] \in AllocationRows
    BY Typed, Zenon DEF IInv
  <2>2. sandboxes[r][n] # NoSandbox
    BY DEF NoSandbox
  <2>3. Booked(r, n)
    BY DEF IInv, BookInv
  <2>4. alloc[n].status = "RESERVED" /\ alloc[n].account = sandboxes[r][n].account
    BY <2>2, <2>3, Zenon DEF Booked
  <2> QED BY <2>1, <2>4, Zenon DEF AllocationRows
<1> QED BY <1>1, Invariance, PTL

(* DrainedIsReleased: a sandbox shown as Draining or Deleted has given its *)
(* slot back, also where an earlier Drain failed after its commit.         *)
THEOREM DrainedSandboxesAreReleased == Spec => []DrainedIsReleased
<1>1. IInv => DrainedIsReleased
  <2> SUFFICES ASSUME IInv, backend # "none", NEW r \in Replicas, NEW n \in Ids,
                      sandboxes[r][n].phase \in {"Draining", "Deleted"}
               PROVE  alloc[n].status = "RELEASED"
    BY DEF DrainedIsReleased
  <2>1. sandboxes[r][n] # NoSandbox
    BY DEF NoSandbox
  <2>2. Booked(r, n)
    BY Zenon DEF IInv, BookInv
  <2> QED BY <2>1, <2>2, Zenon DEF Booked
<1> QED BY <1>1, Invariance, PTL

(* OneSandboxPerKey: within a process an idempotency key names at most one *)
(* sandbox, of the tenant and the owner that claimed it.                   *)
THEOREM KeysNameOneSandbox == Spec => []OneSandboxPerKey
<1>1. IInv => OneSandboxPerKey
  BY Zenon DEF IInv, MapsInv, ReplicaOK, SandboxesAreRecorded, OneSandboxPerKey
<1> QED BY <1>1, Invariance, PTL

(* NoStuckKey: with a governance store no create leaves its key PENDING,   *)
(* whatever the call to the store came to.                                 *)
THEOREM KeysDoNotStick == Spec => []NoStuckKey
<1>1. IInv => NoStuckKey
  BY Zenon DEF IInv
<1> QED BY <1>1, Invariance, PTL

(* ProjectionInSync: the quota map of a process equals the table of a      *)
(* governance store in its memory, after refused calls and restarts too.   *)
THEOREM ProjectionStaysInSync == Spec => []ProjectionInSync
<1>1. IInv => ProjectionInSync
  BY DEF IInv
<1> QED BY <1>1, Invariance, PTL

(* What process q remembers of its fulfilled creates: the record of each   *)
(* key, and that the sandbox is there.                                     *)
Remembers(q) ==
  /\ \A k \in IdemKeys : idempotency[q][k].status = "SUCCEEDED"
                           => idempotency'[q][k] = idempotency[q][k]
  /\ \A n \in Ids : sandboxes[q][n] # NoSandbox => sandboxes'[q][n] # NoSandbox

(* A fulfilled create writes a key that had no record. *)
LEMMA FulfilRemembers ==
  ASSUME IInv, NEW r \in Replicas, NEW k \in IdemKeys, NEW owner \in Owners,
         NEW req \in Requests, ~Prior(r, k), sequence[r] + 1 \in Ids,
         Fulfil(r, k, owner, req), NEW q \in Replicas
  PROVE  Remembers(q)
<1>1. PICK n \in Ids, a \in Accounts : n = sequence[r] + 1 /\ a = <<k[1], owner>>
  BY AccountOf, Zenon
<1>2. FulfilEffect(r, k, owner, req, n, a)
  BY <1>1, FulfilWrites DEF IInv
<1>3. /\ OthersKept(r)
      /\ SandboxWritten(r, n, [phase |-> "Ready", account |-> a, key |-> k[2]])
      /\ RecordWritten(r, k, [status |-> "SUCCEEDED", owner |-> owner,
                              hash |-> Normalize(req), resource |-> n])
  BY <1>2, Zenon DEF FulfilEffect
<1>4. CASE q # r
  BY <1>3, <1>4, Zenon DEF OthersKept, Remembers
<1>5. CASE q = r
  <2>1. \A j \in IdemKeys : idempotency[q][j].status = "SUCCEEDED"
                              => idempotency'[q][j] = idempotency[q][j]
    BY <1>3, <1>5, Zenon DEF RecordWritten, Prior
  <2>2. \A m \in Ids : sandboxes[q][m] # NoSandbox => sandboxes'[q][m] # NoSandbox
    <3>1. sandboxes'[r][n].phase = "Ready"
      BY <1>3 DEF SandboxWritten
    <3>2. sandboxes'[r][n] # NoSandbox
      BY <3>1 DEF NoSandbox
    <3> QED BY <1>3, <1>5, <3>2, Zenon DEF SandboxWritten
  <2> QED BY <2>1, <2>2, Zenon DEF Remembers
<1> QED BY <1>4, <1>5, Zenon

(* A sandbox that changes its phase is still there. *)
LEMMA PhaseRemembers ==
  ASSUME IInv, NEW r \in Replicas, NEW n \in Ids, sandboxes[r][n] # NoSandbox,
         NEW p \in {"Draining", "Deleted"},
         sandboxes' = [sandboxes EXCEPT ![r][n].phase = p], UNCHANGED idempotency,
         NEW q \in Replicas
  PROVE  Remembers(q)
<1>1. /\ \A o \in Replicas \ {r} : sandboxes'[o] = sandboxes[o]
      /\ SandboxWritten(r, n, [phase |-> p, account |-> sandboxes[r][n].account,
                               key |-> sandboxes[r][n].key])
  BY PhaseWrites, Zenon DEF IInv
<1>2. sandboxes'[r][n].phase = p /\ \A m \in Ids \ {n} : sandboxes'[r][m] = sandboxes[r][m]
  BY <1>1 DEF SandboxWritten
<1>3. sandboxes'[r][n] # NoSandbox
  BY <1>2 DEF NoSandbox
<1>4. \A m \in Ids : sandboxes[q][m] # NoSandbox => sandboxes'[q][m] # NoSandbox
  BY <1>1, <1>2, <1>3, SMTT(20)
<1> QED BY <1>4, Zenon DEF Remembers

(* Only the end of a process makes it forget. *)
LEMMA StepRemembers ==
  ASSUME IInv, [Next]_vars, NEW q \in Replicas
  PROVE  Remembers(q) \/ \A m \in Ids : sandboxes'[q][m] = NoSandbox
<1>0. TypeOK /\ running \subseteq Replicas /\ backend \in Backends
  BY Typed, Zenon DEF IInv
<1>1. ASSUME UNCHANGED <<sandboxes, idempotency>> PROVE Remembers(q)
  BY <1>1, Zenon DEF Remembers
<1>2. ASSUME NEW r \in running, NEW k \in Tenants \X Load[backend].keys,
             NEW owner \in Owners, NEW req \in Requests, Create(r, k, owner, req)
      PROVE  Remembers(q)
  <2>1. k \in IdemKeys /\ r \in Replicas
    BY <1>0, LoadIsTyped, Zenon DEF IdemKeys
  <2>2. ~Prior(r, k) /\ sequence[r] < Load[backend].ids
    BY <1>2, Zenon DEF Create
  <2>3. sequence[r] + 1 \in Ids
    <3>1. sequence[r] \in Nat /\ Load[backend].ids \in 0..MaxSeq
      BY <1>0, <2>1, Typed, LoadAssumption, BoundsAssumption, SMTT(20)
    <3> QED BY <2>2, <3>1, BoundsAssumption, SMTT(20) DEF Ids
  <2>4. CASE Fulfil(r, k, owner, req)
    BY <2>1, <2>2, <2>3, <2>4, FulfilRemembers, Zenon
  <2>5. CASE /\ idempotency' = [idempotency EXCEPT ![r][k] = Pending(owner, req)]
             /\ UNCHANGED sandboxes
    <3>1. \A j \in IdemKeys :
            \/ idempotency'[q][j] = idempotency[q][j]
            \/ idempotency[q][j].status # "SUCCEEDED"
      BY <1>0, <2>1, <2>2, <2>5, PendingTyped, Zenon
    <3> QED BY <2>5, <3>1, Zenon DEF Remembers
  <2>6. CASE UNCHANGED <<sandboxes, idempotency>>
    BY <1>1, <2>6
  <2> QED
    BY <1>2, <2>4, <2>5, <2>6, Zenon DEF Create, CreateLocal, CreateGoverned, CreateRefused
<1>3. ASSUME NEW r \in running, NEW n \in Ids, Drain(r, n) PROVE Remembers(q)
  <2>1. r \in Replicas /\ sandboxes[r][n] # NoSandbox /\ UNCHANGED idempotency
    BY <1>0, <1>3 DEF Drain, NoSandbox
  <2>2. CASE ReleaseLocally(r, n)
    BY <2>1, <2>2, PhaseRemembers, Zenon DEF ReleaseLocally
  <2>3. CASE ReleaseFails(r, n)
    BY <1>1, <2>1, <2>3, Zenon DEF ReleaseFails
  <2> QED BY <1>3, <2>2, <2>3, Zenon DEF Drain, DrainLocal, DrainGoverned
<1>4. ASSUME NEW r \in running, NEW n \in Ids, CompleteDeletion(r, n)
      PROVE  Remembers(q)
  <2>1. r \in Replicas /\ sandboxes[r][n] # NoSandbox /\ UNCHANGED idempotency
    BY <1>0, <1>4 DEF CompleteDeletion, NoSandbox
  <2> QED BY <1>4, <2>1, PhaseRemembers, Zenon DEF CompleteDeletion
<1>5. ASSUME NEW r \in running, Restart(r)
      PROVE  Remembers(q) \/ \A m \in Ids : sandboxes'[q][m] = NoSandbox
  <2>1. CASE q = r
    BY <1>0, <1>5, <2>1, Typed, Zenon DEF Restart
  <2>2. CASE q # r
    <3>1. sandboxes'[q] = sandboxes[q] /\ idempotency'[q] = idempotency[q]
      BY <1>0, <1>5, <2>2, Typed, Zenon DEF Restart
    <3> QED BY <3>1, Zenon DEF Remembers
  <2> QED BY <2>1, <2>2
<1>6. CASE UNCHANGED vars
  BY <1>1, <1>6, Zenon DEF vars
<1>7. ASSUME NEW r \in running, NEW a \in Accounts,
             NEW limit \in Load[backend].limits, SetQuota(r, a, limit)
      PROVE  Remembers(q)
  BY <1>1, <1>7, Zenon DEF SetQuota
<1> QED BY <1>2, <1>3, <1>4, <1>5, <1>6, <1>7, SMTT(20) DEF Next

(* What OutcomeIsStable says of a step. *)
AnswerIsKept ==
  \A r \in Replicas, k \in IdemKeys, owner \in Owners, req \in Requests :
    LET n == Replay(r, k, owner, req) IN
    n # 0 /\ sandboxes[r][n].phase = "Ready" =>
      /\ sandboxes[r][n].account = <<k[1], owner>>
      /\ Replay(r, k, owner, req)' = n \/ sandboxes'[r][n].phase # "Ready"

(* OutcomeIsStable: the sandbox a request and owner were answered with for *)
(* a key stays their answer while it is Ready, and is their own.           *)
THEOREM OutcomesAreStable == Spec => OutcomeIsStable
<1>1. IInv /\ [Next]_vars => AnswerIsKept
  <2> SUFFICES ASSUME IInv, [Next]_vars, NEW r \in Replicas, NEW k \in IdemKeys,
                      NEW owner \in Owners, NEW req \in Requests,
                      NEW n, n = Replay(r, k, owner, req), n # 0
               PROVE  /\ sandboxes[r][n].account = <<k[1], owner>>
                      /\ Replay(r, k, owner, req)' = n \/ sandboxes'[r][n].phase # "Ready"
    BY DEF AnswerIsKept
  <2> DEFINE prior == idempotency[r][k]
             h == Normalize(req)
  <2>1. /\ prior.hash = h /\ prior.owner = owner /\ prior.status = "SUCCEEDED"
        /\ n = prior.resource /\ sandboxes[r][n] # NoSandbox
    BY Zenon DEF Replay
  <2>2. n \in Ids /\ sandboxes[r][n].account = <<k[1], owner>>
    BY <2>1, Zenon DEF IInv, MapsInv, ReplicaOK, RecordsAreTrue
  <2>3. ASSUME Remembers(r) PROVE Replay(r, k, owner, req)' = n
    <3>1. idempotency'[r][k] = prior /\ sandboxes'[r][n] # NoSandbox
      BY <2>1, <2>2, <2>3, Zenon DEF Remembers
    <3> QED BY <2>1, <3>1, Zenon DEF Replay
  <2>4. NoSandbox.phase # "Ready"
    BY DEF NoSandbox
  <2> QED BY <2>2, <2>3, <2>4, StepRemembers, Zenon
<1>2. AnswerIsKept => [AnswerIsKept]_vars
  BY Zenon
<1> QED BY <1>1, <1>2, Invariance, PTL DEF Spec, OutcomeIsStable, AnswerIsKept

(* What a step of the control plane does to the ledger: a step of the      *)
(* contract or nothing, or the loss of a store with its process.           *)
LedgerStep ==
  \/ [Gov!Next]_(Gov!vars)
  \/ /\ backend = "memory" /\ \E r \in running : Restart(r)
     /\ quota' = [a \in Accounts |-> NoRow]
     /\ alloc' = [n \in Ids |-> NoAllocationRow]

(* Every method call and every restart is such a step. *)
LEMMA LedgerSteps ==
  ASSUME IInv, [Next]_vars
  PROVE  LedgerStep
<1>0. TypeOK /\ MapsInv /\ running \subseteq Replicas /\ backend \in Backends
  BY Typed, Zenon DEF IInv
<1>1. ASSUME UNCHANGED govVars PROVE LedgerStep
  BY <1>1, Zenon DEF govVars, Gov!vars, LedgerStep
<1>2. ASSUME NEW r \in running, NEW a \in Accounts,
             NEW limit \in Load[backend].limits, SetQuota(r, a, limit)
      PROVE  LedgerStep
  <2>1. limit \in Limits
    BY <1>0, LoadIsTyped, Zenon
  <2>2. CASE Gov!SetQuota(a, limit)
    BY <2>1, <2>2, Zenon DEF LedgerStep, Gov!Next
  <2> QED BY <1>1, <1>2, <2>2, Zenon DEF SetQuota, SetQuotaLocal, SetQuotaGoverned
<1>3. ASSUME NEW r \in running, NEW k \in Tenants \X Load[backend].keys,
             NEW owner \in Owners, NEW req \in Requests, Create(r, k, owner, req)
      PROVE  LedgerStep
  <2>1. k \in IdemKeys /\ r \in Replicas
    BY <1>0, LoadIsTyped, Zenon DEF IdemKeys
  <2>2. sequence[r] + 1 \in Ids
    <3>1. sequence[r] \in Nat /\ Load[backend].ids \in 0..MaxSeq
      BY <1>0, <2>1, Typed, LoadIsTyped, BoundsAssumption, SMTT(20)
    <3> QED BY <1>3, <3>1, BoundsAssumption, SMTT(20) DEF Create, Ids
  <2>3. <<k[1], owner>> \in Accounts
    BY <2>1, AccountOf, SMTT(20)
  <2>4. CASE Gov!ReserveAllocation(<<k[1], owner>>, sequence[r] + 1)
    BY <2>2, <2>3, <2>4, SMTT(20) DEF LedgerStep, Gov!Next
  <2> QED BY <1>1, <1>3, <2>4, Zenon DEF Create, CreateLocal, CreateGoverned
<1>4. ASSUME NEW r \in running, NEW n \in Ids, Drain(r, n)
      PROVE  LedgerStep
  <2>1. allocations[r][n].account \in Accounts
    BY <1>0, <1>4, ReadyAccount, Zenon DEF Drain, MapsInv
  <2>2. CASE Gov!ReleaseAllocation(allocations[r][n].account, n)
    BY <2>1, <2>2, Zenon DEF LedgerStep, Gov!Next
  <2> QED BY <1>1, <1>4, <2>2, Zenon DEF Drain, DrainLocal, DrainGoverned
<1>5. ASSUME NEW r \in running, NEW n \in Ids, CompleteDeletion(r, n)
      PROVE  LedgerStep
  BY <1>1, <1>5, Zenon DEF CompleteDeletion, govVars
<1>6. ASSUME NEW r \in running, Restart(r)
      PROVE  LedgerStep
  BY <1>1, <1>6, Zenon DEF Restart, LedgerStep
<1>7. CASE UNCHANGED vars
  BY <1>1, <1>7, Zenon DEF vars, govVars
<1> QED BY <1>2, <1>3, <1>4, <1>5, <1>6, <1>7, Zenon DEF Next

(* The control plane implements the contract of GovernanceStore: no method *)
(* of any process, answered, refused or failed, changes the ledger in a    *)
(* way the contract does not provide for; only the end of a process with a *)
(* store in its memory puts the ledger back to its initial state.          *)
THEOREM LedgerFollowsTheContract == Spec => [][LedgerStep]_vars
<1>1. IInv /\ [Next]_vars => [LedgerStep]_vars
  BY LedgerSteps, Zenon
<1> QED BY <1>1, Invariance, PTL DEF Spec
----------------------------------------------------------------------------
(* Counting.  A table of allocations and the rows that count it change     *)
(* together, in the ledger and in the maps of every process.               *)

HeldIn(table, a) ==
  {n \in Ids : table[n].status = "RESERVED" /\ table[n].account = a}
Tallies(rows, table) ==
  \A a \in Accounts : rows[a].count = Cardinality(HeldIn(table, a))

(* The four ways in which they change. *)
Kept(rows, table, rows2, table2) ==
  table2 = table /\ \A a \in Accounts : rows2[a].count = rows[a].count
OneMore(rows, table, rows2, table2) ==
  \E n \in Ids, a \in Accounts :
    /\ table[n].status # "RESERVED" /\ table2 = Reserved(table, n, a)
    /\ \A b \in Accounts :
         rows2[b].count = IF b = a THEN rows[b].count + 1 ELSE rows[b].count
OneLess(rows, table, rows2, table2) ==
  \E n \in Ids :
    /\ table[n].status = "RESERVED" /\ table2 = Released(table, n)
    /\ \A b \in Accounts :
         rows2[b].count = IF b = table[n].account /\ rows[b].count > 0
                            THEN rows[b].count - 1 ELSE rows[b].count
Emptied(rows2, table2) ==
  /\ rows2 = [a \in Accounts |-> NoRow]
  /\ table2 = [n \in Ids |-> NoAllocationRow]
Counted(rows, table, rows2, table2) ==
  \/ Kept(rows, table, rows2, table2) \/ OneMore(rows, table, rows2, table2)
  \/ OneLess(rows, table, rows2, table2) \/ Emptied(rows2, table2)

(* Numbers are bounded, so rows can be counted. *)
LEMMA HeldInFinite ==
  ASSUME NEW table, NEW a
  PROVE  IsFiniteSet(HeldIn(table, a)) /\ Cardinality(HeldIn(table, a)) \in Nat
<1>1. IsFiniteSet(Ids)
  BY FS_Interval, BoundsAssumption, SMTT(20) DEF Ids
<1>2. HeldIn(table, a) \in SUBSET Ids
  BY Zenon DEF HeldIn
<1>3. IsFiniteSet(HeldIn(table, a))
  BY <1>1, <1>2, FS_Subset, Zenon
<1> QED BY <1>3, FS_CardinalityType, Zenon

(* Reserving a row that is not reserved adds one to its account's count    *)
(* and to no other.                                                        *)
LEMMA ReservedIsCounted ==
  ASSUME NEW table \in [Ids -> AllocationRows], NEW n \in Ids, NEW a \in Accounts,
         table[n].status # "RESERVED", NEW b \in Accounts
  PROVE  Cardinality(HeldIn(Reserved(table, n, a), b)) =
           IF b = a THEN Cardinality(HeldIn(table, b)) + 1
                    ELSE Cardinality(HeldIn(table, b))
<1> DEFINE new == Reserved(table, n, a)
<1>0. IsFiniteSet(HeldIn(table, b))
  BY HeldInFinite, Zenon
<1>1. n \notin HeldIn(table, b)
  BY Zenon DEF HeldIn
<1>2. HeldIn(new, b) = IF b = a THEN HeldIn(table, b) \cup {n} ELSE HeldIn(table, b)
  <2>1. /\ new[n].status = "RESERVED" /\ new[n].account = a
        /\ \A m \in Ids \ {n} : new[m] = table[m]
    BY Zenon DEF Reserved
  <2> HIDE DEF new
  <2> QED BY <1>1, <2>1, Zenon DEF HeldIn
<1>3. Cardinality(HeldIn(table, b) \cup {n}) = Cardinality(HeldIn(table, b)) + 1
  BY <1>0, <1>1, FS_AddElement, Zenon
<1> QED BY <1>2, <1>3, Zenon

(* Releasing a reserved row takes one off its account's count, which was   *)
(* positive, and off no other.                                             *)
LEMMA ReleasedIsCounted ==
  ASSUME NEW table \in [Ids -> AllocationRows], NEW n \in Ids,
         table[n].status = "RESERVED", NEW b \in Accounts
  PROVE  /\ Cardinality(HeldIn(Released(table, n), b)) =
              IF b = table[n].account THEN Cardinality(HeldIn(table, b)) - 1
                                      ELSE Cardinality(HeldIn(table, b))
         /\ b = table[n].account => Cardinality(HeldIn(table, b)) > 0
<1> DEFINE new == Released(table, n)
<1>1. IsFiniteSet(HeldIn(table, b)) /\ Cardinality(HeldIn(table, b)) \in Nat
  BY HeldInFinite, Zenon
<1>2. new = [table EXCEPT ![n] = [table[n] EXCEPT !.status = "RELEASED"]]
  BY Zenon DEF Released
<1>3. HeldIn(new, b) =
        IF b = table[n].account THEN HeldIn(table, b) \ {n} ELSE HeldIn(table, b)
  <2>1. new[n].status = "RELEASED" /\ \A m \in Ids \ {n} : new[m] = table[m]
    BY <1>2, Zenon DEF AllocationRows
  <2> HIDE DEF new
  <2> QED BY <2>1, Zenon DEF HeldIn
<1>4. b = table[n].account => n \in HeldIn(table, b)
  BY Zenon DEF HeldIn
<1>5. n \in HeldIn(table, b) =>
        Cardinality(HeldIn(table, b) \ {n}) = Cardinality(HeldIn(table, b)) - 1
  BY <1>1, FS_RemoveElement, Zenon
<1>6. n \in HeldIn(table, b) => Cardinality(HeldIn(table, b)) # 0
  BY <1>1, FS_EmptySet, SMTT(20)
<1> QED BY <1>1, <1>3, <1>4, <1>5, <1>6, SMTT(20)

(* Each of the four ways keeps the count right. *)
LEMMA TallyKept ==
  ASSUME NEW rows, NEW table \in [Ids -> AllocationRows], NEW rows2, NEW table2,
         Tallies(rows, table), Counted(rows, table, rows2, table2)
  PROVE  Tallies(rows2, table2)
<1>1. ASSUME NEW a \in Accounts
      PROVE  /\ rows[a].count = Cardinality(HeldIn(table, a))
             /\ Cardinality(HeldIn(table, a)) \in Nat
  BY HeldInFinite, Zenon DEF Tallies
<1>2. CASE Kept(rows, table, rows2, table2)
  BY <1>2, Zenon DEF Kept, Tallies
<1>3. CASE OneMore(rows, table, rows2, table2)
  <2>1. PICK n \in Ids, a \in Accounts :
          /\ table[n].status # "RESERVED" /\ table2 = Reserved(table, n, a)
          /\ \A b \in Accounts :
               rows2[b].count = IF b = a THEN rows[b].count + 1 ELSE rows[b].count
    BY <1>3, Zenon DEF OneMore
  <2> SUFFICES ASSUME NEW b \in Accounts
               PROVE  rows2[b].count = Cardinality(HeldIn(table2, b))
    BY Zenon DEF Tallies
  <2>2. Cardinality(HeldIn(table2, b)) =
          IF b = a THEN Cardinality(HeldIn(table, b)) + 1
                   ELSE Cardinality(HeldIn(table, b))
    BY <2>1, ReservedIsCounted, Zenon
  <2> QED BY <1>1, <2>1, <2>2, Zenon
<1>4. CASE OneLess(rows, table, rows2, table2)
  <2>1. PICK n \in Ids :
          /\ table[n].status = "RESERVED" /\ table2 = Released(table, n)
          /\ \A b \in Accounts :
               rows2[b].count = IF b = table[n].account /\ rows[b].count > 0
                                  THEN rows[b].count - 1 ELSE rows[b].count
    BY <1>4, Zenon DEF OneLess
  <2> SUFFICES ASSUME NEW b \in Accounts
               PROVE  rows2[b].count = Cardinality(HeldIn(table2, b))
    BY Zenon DEF Tallies
  <2>2. /\ Cardinality(HeldIn(table2, b)) =
             IF b = table[n].account THEN Cardinality(HeldIn(table, b)) - 1
                                     ELSE Cardinality(HeldIn(table, b))
        /\ b = table[n].account => Cardinality(HeldIn(table, b)) > 0
    BY <2>1, ReleasedIsCounted, Zenon
  <2> QED BY <1>1, <2>1, <2>2, Zenon
<1>5. CASE Emptied(rows2, table2)
  <2> SUFFICES ASSUME NEW b \in Accounts
               PROVE  rows2[b].count = Cardinality(HeldIn(table2, b))
    BY Zenon DEF Tallies
  <2>1. rows2[b].count = 0
    BY <1>5, Zenon DEF Emptied, NoRow
  <2>2. HeldIn(table2, b) = {}
    BY <1>5, Zenon DEF Emptied, HeldIn, NoAllocationRow
  <2> QED BY <2>1, <2>2, FS_EmptySet, Zenon
<1> QED BY <1>2, <1>3, <1>4, <1>5, SMTT(20) DEF Counted

(* The ledger changes in these ways. *)
LEMMA LedgerCounted ==
  ASSUME IInv, [Next]_vars
  PROVE  Counted(quota, alloc, quota', alloc')
<1>0. LedgerStep /\ Balanced /\ Limits \subseteq Nat
  BY LedgerSteps, Typed, BoundsAssumption, Zenon DEF IInv, Balanced
<1>1. quota \in [Accounts -> QuotaRows]
  BY <1>0, Zenon DEF Balanced
<1>2. CASE UNCHANGED <<quota, alloc>>
  BY <1>2, Zenon DEF Counted, Kept
<1>3. ASSUME NEW a \in Accounts, NEW limit \in Limits, Gov!SetQuota(a, limit)
      PROVE  Counted(quota, alloc, quota', alloc')
  <2>1. /\ alloc' = alloc
        /\ quota' = [quota EXCEPT ![a] = [row |-> "present", limit |-> limit,
                                          count |-> quota[a].count]]
    BY <1>0, <1>3, GovSetQuota, Zenon
  <2> QED BY <1>1, <2>1, Zenon DEF Counted, Kept
<1>4. ASSUME NEW a \in Accounts, NEW n \in Ids, Gov!ReserveAllocation(a, n)
      PROVE  Counted(quota, alloc, quota', alloc')
  <2>1. /\ alloc' = Reserved(alloc, n, a) /\ alloc[n].status = "ABSENT"
        /\ quota' = [quota EXCEPT ![a] = [row |-> "present", limit |-> quota[a].limit,
                                          count |-> quota[a].count + 1]]
    BY <1>0, <1>4, GovReserve, Zenon
  <2>2. \A b \in Accounts :
          quota'[b].count = IF b = a THEN quota[b].count + 1 ELSE quota[b].count
    BY <1>1, <2>1, Zenon
  <2> QED BY <2>1, <2>2, Zenon DEF Counted, OneMore
<1>5. ASSUME NEW a \in Accounts, NEW n \in Ids, Gov!ReleaseAllocation(a, n)
      PROVE  Counted(quota, alloc, quota', alloc')
  <2>1. /\ alloc' = Released(alloc, n)
        /\ alloc[n].status = "RESERVED" /\ alloc[n].account = a
        /\ quota[a].count > 0 /\ quota' = [quota EXCEPT ![a].count = @ - 1]
    BY <1>0, <1>5, GovRelease, Zenon
  <2>2. \A b \in Accounts :
          quota'[b].count = IF b = a /\ quota[b].count > 0
                              THEN quota[b].count - 1 ELSE quota[b].count
    BY <1>1, <2>1, Zenon DEF QuotaRows
  <2> QED BY <2>1, <2>2 DEF Counted, OneLess
<1>6. CASE /\ quota' = [a \in Accounts |-> NoRow]
           /\ alloc' = [n \in Ids |-> NoAllocationRow]
  BY <1>6, Zenon DEF Counted, Emptied
<1> QED BY <1>0, <1>2, <1>3, <1>4, <1>5, <1>6, Zenon DEF LedgerStep, Gov!Next, Gov!vars

(* So do the maps of a process: they are written where the ledger is, or   *)
(* where its answer did not come back left as they were.                   *)
LEMMA MapsCounted ==
  ASSUME IInv, [Next]_vars, NEW p \in Replicas
  PROVE  Counted(quotas[p], allocations[p], quotas'[p], allocations'[p])
<1> DEFINE Goal == Counted(quotas[p], allocations[p], quotas'[p], allocations'[p])
<1>0. /\ TypeOK /\ MapsInv /\ running \subseteq Replicas /\ backend \in Backends
      /\ quotas[p] \in [Accounts -> QuotaRows]
  BY Typed, Zenon DEF IInv
<1>1. ASSUME quotas'[p] = quotas[p], allocations'[p] = allocations[p] PROVE Goal
  BY <1>1, Zenon DEF Counted, Kept
<1>2. ASSUME NEW r \in running, NEW a \in Accounts,
             NEW limit \in Load[backend].limits, SetQuota(r, a, limit)
      PROVE  Goal
  <2>1. r \in Replicas /\ limit \in Nat /\ UNCHANGED allocations
    BY <1>0, <1>2, LoadIsTyped, Zenon DEF SetQuota
  <2>2. quotas' = WithRow(r, a) \/ quotas' = WithLimit(r, a, limit)
    BY <1>2, Zenon DEF SetQuota, SetQuotaLocal, SetQuotaGoverned
  <2>3. PICK l : BudgetWritten(r, a, l)
    BY <1>0, <2>1, <2>2, SetQuotaWrites, Zenon
  <2>4. CASE p # r
    BY <1>1, <2>1, <2>3, <2>4, Zenon DEF BudgetWritten
  <2>5. CASE p = r
    BY <1>0, <2>1, <2>3, <2>5, SMTT(20) DEF BudgetWritten, Counted, Kept
  <2> QED BY <2>4, <2>5, Zenon
<1>3. ASSUME NEW r \in running, NEW k \in Tenants \X Load[backend].keys,
             NEW owner \in Owners, NEW req \in Requests, Create(r, k, owner, req)
      PROVE  Goal
  <2> DEFINE n == sequence[r] + 1
             a == <<k[1], owner>>
  <2>1. k \in IdemKeys /\ r \in Replicas
    BY <1>0, LoadIsTyped, Zenon DEF IdemKeys
  <2>2. sequence[r] \in Nat /\ Load[backend].ids \in 0..MaxSeq
    BY <1>0, <2>1, Typed, LoadIsTyped, BoundsAssumption, SMTT(20)
  <2>3. n \in Ids /\ n > sequence[r]
    BY <1>3, <2>2, BoundsAssumption, SMTT(20) DEF Create, Ids
  <2>4. a \in Accounts
    BY <2>1, AccountOf, Zenon
  <2>5. n = sequence[r] + 1 /\ a = <<k[1], owner>>
    BY Zenon
  <2>6. CASE Fulfil(r, k, owner, req)
    <3> HIDE DEF n, a
    <3>1. FulfilEffect(r, k, owner, req, n, a)
      BY <1>0, <2>1, <2>3, <2>4, <2>5, <2>6, FulfilWrites, Zenon
    <3>2. CASE p # r
      BY <1>1, <3>1, <3>2, Zenon DEF FulfilEffect, OthersKept
    <3>3. CASE p = r
      <4>1. /\ allocations'[r] = Reserved(allocations[r], n, a)
            /\ quotas'[r] = [quotas[r] EXCEPT ![a] =
                 [row |-> "present", limit |-> quotas[r][a].limit,
                  count |-> quotas[r][a].count + 1]]
        BY <3>1, Zenon DEF FulfilEffect
      <4>2. SequenceIsAhead(r)
        BY <1>0, <2>1, Zenon DEF MapsInv, ReplicaOK
      <4>3. allocations[r][n].status # "RESERVED"
        BY <2>3, <4>2, SMTT(20) DEF SequenceIsAhead, NoAllocationRow
      <4>4. \A b \in Accounts :
              quotas'[r][b].count = IF b = a THEN quotas[r][b].count + 1
                                             ELSE quotas[r][b].count
        BY <1>0, <3>3, <4>1, SMTT(20)
      <4> QED BY <2>3, <2>4, <3>3, <4>1, <4>3, <4>4, Zenon DEF Counted, OneMore
    <3> QED BY <3>2, <3>3, Zenon
  <2>7. CASE UNCHANGED <<allocations, quotas>>
    BY <1>1, <2>7, Zenon
  <2> HIDE DEF n, a
  <2> QED
    BY <1>3, <2>6, <2>7, SMTT(20) DEF Create, CreateLocal, CreateGoverned, CreateRefused
<1>4. ASSUME NEW r \in running, NEW n \in Ids, Drain(r, n)
      PROVE  Goal
  <2> DEFINE a == allocations[r][n].account
  <2>1. /\ r \in Replicas /\ sandboxes[r][n].phase = "Ready"
        /\ allocations[r][n].status = "RESERVED"
    BY <1>0, <1>4, Zenon DEF Drain
  <2>2. a \in Accounts /\ sandboxes[r][n] # NoSandbox
    BY <1>0, <2>1, ReadyAccount, Zenon DEF MapsInv
  <2>3. CASE ReleaseLocally(r, n)
    <3>1. ReleaseEffect(r, n, a)
      BY <1>0, <2>1, <2>2, <2>3, ReleaseWrites, Zenon
    <3>2. CASE p # r
      BY <1>1, <3>1, <3>2, Zenon DEF ReleaseEffect
    <3>3. CASE p = r
      <4> DEFINE budget == [quotas[r][a] EXCEPT !.count = IF @ > 0 THEN @ - 1 ELSE @]
      <4>1. /\ allocations'[r] = Released(allocations[r], n)
            /\ quotas'[r] = [quotas[r] EXCEPT ![a] = budget]
        BY <3>1, Zenon DEF ReleaseEffect
      <4>2. quotas[r][a] \in QuotaRows
        BY <1>0, <2>2, <3>3, Zenon
      <4>3. budget.count = IF quotas[r][a].count > 0 THEN quotas[r][a].count - 1
                                                     ELSE quotas[r][a].count
        BY <4>2, SlotReturned, SMTT(20)
      <4> HIDE DEF budget
      <4>4. \A b \in Accounts :
              quotas'[r][b].count = IF b = a /\ quotas[r][b].count > 0
                                      THEN quotas[r][b].count - 1
                                      ELSE quotas[r][b].count
        BY <1>0, <3>3, <4>1, <4>3, Zenon
      <4> QED BY <2>1, <3>3, <4>1, <4>4, Zenon DEF Counted, OneLess
    <3> QED BY <3>2, <3>3, Zenon
  <2>4. CASE ReleaseFails(r, n)
    BY <1>1, <2>4, Zenon DEF ReleaseFails
  <2> QED BY <1>4, <2>3, <2>4, Zenon DEF Drain, DrainLocal, DrainGoverned
<1>5. ASSUME NEW r \in running, NEW n \in Ids, CompleteDeletion(r, n)
      PROVE  Goal
  BY <1>1, <1>5, Zenon DEF CompleteDeletion
<1>6. ASSUME NEW r \in running, Restart(r)
      PROVE  Goal
  <2>1. CASE p # r
    BY <1>0, <1>1, <1>6, <2>1, Typed, Zenon DEF Restart
  <2>2. CASE p = r
    <3>1. Emptied(quotas'[p], allocations'[p])
      BY <1>0, <1>6, <2>2, Typed, Zenon DEF Restart, Emptied
    <3> QED BY <3>1, Zenon DEF Counted
  <2> QED BY <2>1, <2>2, Zenon
<1>7. CASE UNCHANGED vars
  BY <1>1, <1>7, Zenon DEF vars
<1> QED BY <1>2, <1>3, <1>4, <1>5, <1>6, <1>7, Zenon DEF Next

(* The ledger and the maps of every process count what they hold. *)
CountsInv ==
  /\ Tallies(quota, alloc)
  /\ \A r \in Replicas : Tallies(quotas[r], allocations[r])

(* No sequence of calls, failures and restarts lets a counter drift. *)
LEMMA CountsAreRight == Spec => []CountsInv
<1>1. ASSUME NEW rows, NEW table, rows = [a \in Accounts |-> NoRow],
             table = [n \in Ids |-> NoAllocationRow]
      PROVE  Tallies(rows, table)
  <2> SUFFICES ASSUME NEW b \in Accounts
               PROVE  rows[b].count = Cardinality(HeldIn(table, b))
    BY Zenon DEF Tallies
  <2>1. rows[b].count = 0
    BY <1>1, Zenon DEF NoRow
  <2>2. HeldIn(table, b) = {}
    BY <1>1, Zenon DEF HeldIn, NoAllocationRow
  <2> QED BY <2>1, <2>2, FS_EmptySet, Zenon
<1>2. Init => CountsInv
  BY <1>1, Zenon DEF Init, CountsInv
<1>3. CountsInv /\ IInv /\ [Next]_vars => CountsInv'
  <2> SUFFICES ASSUME CountsInv, IInv, [Next]_vars PROVE CountsInv'
    OBVIOUS
  <2>0. /\ alloc \in [Ids -> AllocationRows]
        /\ \A r \in Replicas : allocations[r] \in [Ids -> AllocationRows]
    BY Typed DEF IInv
  <2>1. Tallies(quota', alloc')
    BY <2>0, LedgerCounted, TallyKept, Zenon DEF CountsInv
  <2>2. ASSUME NEW r \in Replicas PROVE Tallies(quotas'[r], allocations'[r])
    BY <2>0, MapsCounted, TallyKept, Zenon DEF CountsInv
  <2> QED BY <2>1, <2>2 DEF CountsInv, Tallies, HeldIn
<1> QED BY <1>2, <1>3, Invariance, PTL DEF Spec

(* ReadyWithinLimit: the Ready sandboxes of an account whose Drain has not *)
(* failed, of all processes together, have different rows of the ledger,   *)
(* and the ledger keeps the limit; a process without a ledger keeps the    *)
(* limit of its own map.                                                   *)
THEOREM ReadySandboxesKeepTheLimit == Spec => []ReadyWithinLimit
<1>1. IInv /\ CountsInv => ReadyWithinLimit
  <2> SUFFICES ASSUME IInv, CountsInv, NEW a \in Accounts
               PROVE
      /\ backend # "none" =>
           Cardinality({e \in Replicas \X Ids :
                          /\ sandboxes[e[1]][e[2]].phase = "Ready"
                          /\ sandboxes[e[1]][e[2]].account = a
                          /\ e[2] \notin drainFailed[e[1]]}) <= quota[a].limit
      /\ backend = "none" =>
           \A r \in Replicas : quotas[r][a].count <= quotas[r][a].limit
    BY Zenon DEF ReadyWithinLimit
  <2> DEFINE ready == {e \in Replicas \X Ids :
                         /\ sandboxes[e[1]][e[2]].phase = "Ready"
                         /\ sandboxes[e[1]][e[2]].account = a
                         /\ e[2] \notin drainFailed[e[1]]}
             number == [e \in ready |-> e[2]]
  <2>1. ASSUME backend # "none" PROVE Cardinality(ready) <= quota[a].limit
    <3>1. \A e \in ready : /\ e[1] \in Replicas /\ e[2] \in Ids /\ e = <<e[1], e[2]>>
                           /\ sandboxes[e[1]][e[2]] # NoSandbox
      BY DEF NoSandbox
    <3>2. \A e \in ready : e[2] \in HeldIn(alloc, a)
      <4> SUFFICES ASSUME NEW e \in ready PROVE e[2] \in HeldIn(alloc, a)
        BY Zenon
      <4>1. Booked(e[1], e[2])
        BY <2>1, <3>1, Zenon DEF IInv, BookInv
      <4> QED BY <3>1, <4>1, Zenon DEF Booked, HeldIn
    <3>3. \A e, f \in ready : e[2] = f[2] => e = f
      <4> SUFFICES ASSUME NEW e \in ready, NEW f \in ready, e[2] = f[2] PROVE e = f
        BY Zenon
      <4>1. e[1] = f[1]
        BY <3>1 DEF IInv, BookInv, OneHolder
      <4> QED BY <3>1, <4>1, Zenon
    <3> HIDE DEF ready
    <3>4. number \in Injection(ready, HeldIn(alloc, a))
      BY <3>2, <3>3, SMTT(20) DEF Injection, IsInjective
    <3> HIDE DEF number
    <3>5. Cardinality(ready) <= Cardinality(HeldIn(alloc, a)) /\ IsFiniteSet(ready)
      BY <3>4, HeldInFinite, FS_Injection, SMTT(20)
    <3>6. /\ quota[a].count = Cardinality(HeldIn(alloc, a))
          /\ quota[a].count <= quota[a].limit
      BY Zenon DEF IInv, LedgerOK, CountsInv, Tallies
    <3>7. quota[a] \in QuotaRows
      BY Typed, Zenon DEF IInv
    <3>8. /\ quota[a].limit \in Nat /\ Cardinality(HeldIn(alloc, a)) \in Nat
          /\ Cardinality(ready) \in Nat
      BY <3>5, <3>7, HeldInFinite, FS_CardinalityType, Zenon DEF QuotaRows
    <3> QED BY <3>5, <3>6, <3>8, SMTT(20)
  <2>2. backend = "none" => \A r \in Replicas : quotas[r][a].count <= quotas[r][a].limit
    BY Zenon DEF IInv, LocalLimit
  <2> QED BY <2>1, <2>2, Zenon
<1> QED BY <1>1, Invariance, CountsAreRight, PTL

(* MapsAgree: the count GetQuota reports is that of the RESERVED           *)
(* allocations, and a sandbox is Ready while its allocation is RESERVED.   *)
THEOREM MapsOfAProcessAgree == Spec => []MapsAgree
<1>1. IInv /\ CountsInv => MapsAgree
  <2> SUFFICES ASSUME IInv, CountsInv, NEW r \in Replicas
               PROVE
      /\ \A a \in Accounts :
           quotas[r][a].count =
             Cardinality({n \in Ids : allocations[r][n] =
                                         [status |-> "RESERVED", account |-> a]})
      /\ \A n \in Ids :
           /\ sandboxes[r][n].phase = "Ready" <=> allocations[r][n].status = "RESERVED"
           /\ sandboxes[r][n].account = allocations[r][n].account
    BY Zenon DEF MapsAgree
  <2>1. Tallies(quotas[r], allocations[r]) /\ PhasesAgree(r)
    BY Zenon DEF IInv, MapsInv, ReplicaOK, CountsInv
  <2>2. ASSUME NEW a \in Accounts
        PROVE  {n \in Ids : allocations[r][n] = [status |-> "RESERVED", account |-> a]}
                 = HeldIn(allocations[r], a)
    <3>1. \A n \in Ids : allocations[r][n] \in AllocationRows
      BY Typed, Zenon DEF IInv
    <3>2. \A row \in AllocationRows :
            row = [status |-> "RESERVED", account |-> a]
              <=> row.status = "RESERVED" /\ row.account = a
      BY DEF AllocationRows
    <3> QED BY <3>1, <3>2, Zenon DEF HeldIn
  <2> QED BY <2>1, <2>2, Zenon DEF Tallies, PhasesAgree
<1> QED BY <1>1, Invariance, CountsAreRight, PTL
====
