-------------------------- MODULE SchemaMigration --------------------------
(***************************************************************************)
(* Replicas of the control plane booting on one database: main and         *)
(* openGovernanceStore of cmd/kubebox, OpenSQLStore and MigrateLocked.     *)
(*                                                                         *)
(* The migration lock belongs to a database session.  A session outlives   *)
(* its client: when the process dies or gives its connection up, the       *)
(* server keeps the session, its lock, its place in the lock's queue and   *)
(* the statement it is executing until it notices.  Such a session is an   *)
(* orphan here.  A process that fails exits (log.Fatal) and is started     *)
(* again.                                                                  *)
(***************************************************************************)
EXTENDS Naturals

CONSTANTS
  Replicas,
  Statements,      \* how many statements SchemaStatements returns
  DefaultLimit,    \* the quota every boot sets for the default owner
  MaxFaults,       \* bound: failures and crashes in a behaviour
  Nobody, Orphan   \* who else may hold the lock

ASSUME StatementsAreSome == Statements \in Nat \ {0}
ASSUME LimitIsNatural == DefaultLimit \in Nat
ASSUME FaultsAreBounded == MaxFaults \in Nat
ASSUME HoldersDiffer == Nobody # Orphan /\ {Nobody, Orphan} \cap Replicas = {}

VARIABLES
  pc,       \* replica -> where its boot has got to
  next,     \* replica -> the statement it runs next
  tables,   \* the statements whose table exists
  holder,   \* the session with the lock
  queued,   \* orphans waiting for the lock
  pending,  \* the statement an orphan that holds the lock is executing, or 0
  used,     \* slots the default owner has in use
  faults    \* failures so far

dbVars == <<tables, holder, queued, pending>>
vars == <<pc, next, dbVars, used, faults>>

Schema == 1..Statements

Stages == {"down", "open", "wait", "ddl", "done", "failed", "quota", "serving"}

(* The stages of MigrateLocked between taking the lock and giving it back. *)
Locked == {"ddl", "done", "failed"}

TypeOK ==
  /\ pc \in [Replicas -> Stages]
  /\ next \in [Replicas -> Schema]
  /\ tables \subseteq Schema
  /\ holder \in Replicas \cup {Nobody, Orphan}
  /\ queued \in Nat
  /\ pending \in 0..Statements
  /\ used \in 0..DefaultLimit
  /\ faults \in 0..MaxFaults

Init ==
  /\ pc = [r \in Replicas |-> "down"]
  /\ next = [r \in Replicas |-> 1]
  /\ tables = {}
  /\ holder = Nobody
  /\ queued = 0
  /\ pending = 0
  /\ used = 0
  /\ faults = 0

At(r, stage) == pc[r] = stage
Goto(r, stage) == pc' = [pc EXCEPT ![r] = stage]

(* Something outside this code goes wrong. *)
Fault == faults < MaxFaults /\ faults' = faults + 1

(* The session of r is left to the server, waiting or with its lock. *)
LeaveWaiting ==
  /\ queued' \in {queued, queued + 1}
  /\ UNCHANGED <<tables, holder, pending>>

LeaveLocked(statement) ==
  /\ holder' = Orphan
  /\ pending' = statement
  /\ UNCHANGED <<tables, queued>>

Start(r) == At(r, "down") /\ Goto(r, "open") /\ UNCHANGED <<next, dbVars, used, faults>>

(* Ping answers and a dedicated connection asks for the lock. *)
Open(r) == At(r, "open") /\ Goto(r, "wait") /\ UNCHANGED <<next, dbVars, used, faults>>

OpenFails(r) == At(r, "open") /\ Goto(r, "down") /\ UNCHANGED <<next, dbVars, used>> /\ Fault

(* Mutated: the lock is given back as soon as it has been taken. *)
AcquireBriefly(r) ==
  /\ At(r, "wait") /\ holder = Nobody
  /\ Goto(r, "ddl")
  /\ next' = [next EXCEPT ![r] = 1]
  /\ UNCHANGED <<dbVars, used, faults>>

Acquire(r) ==
  /\ At(r, "wait") /\ holder = Nobody
  /\ holder' = r
  /\ Goto(r, "ddl")
  /\ next' = [next EXCEPT ![r] = 1]
  /\ UNCHANGED <<tables, queued, pending, used, faults>>

(* GET_LOCK times out, or the 30 seconds of the boot are over. *)
AcquireFails(r) ==
  /\ At(r, "wait") /\ Goto(r, "down")
  /\ LeaveWaiting
  /\ UNCHANGED <<next, used>> /\ Fault

CreateTable(r) ==
  /\ At(r, "ddl")
  /\ tables' = tables \cup {next[r]}
  /\ IF next[r] = Statements
     THEN Goto(r, "done") /\ UNCHANGED next
     ELSE next' = [next EXCEPT ![r] = @ + 1] /\ UNCHANGED pc
  /\ UNCHANGED <<holder, queued, pending, used, faults>>

(* Mutated: the error of a statement is dropped. *)
StatementSkipped(r) ==
  /\ At(r, "ddl")
  /\ IF next[r] = Statements
     THEN Goto(r, "done") /\ UNCHANGED next
     ELSE next' = [next EXCEPT ![r] = @ + 1] /\ UNCHANGED pc
  /\ UNCHANGED <<dbVars, used>> /\ Fault

(* The server refuses a statement; the deferred unlock comes next. *)
StatementFails(r) ==
  At(r, "ddl") /\ Goto(r, "failed") /\ UNCHANGED <<next, dbVars, used>> /\ Fault

(* The connection breaks, or the boot's 30 seconds end, in a statement:    *)
(* the deferred unlock has no connection to run on.                        *)
StatementAbandoned(r) ==
  /\ At(r, "ddl") /\ Goto(r, "down")
  /\ LeaveLocked(next[r])
  /\ UNCHANGED <<next, used>> /\ Fault

(* What OpenSQLStore returns once the lock has been given back. *)
AfterUnlock(r) == Goto(r, IF At(r, "done") THEN "quota" ELSE "down")

Unlock(r) ==
  /\ At(r, "done") \/ At(r, "failed")
  /\ holder' = Nobody
  /\ AfterUnlock(r)
  /\ UNCHANGED <<next, tables, queued, pending, used, faults>>

(* The error of the unlock is ignored; its connection is beyond use. *)
UnlockFails(r) ==
  /\ At(r, "done") \/ At(r, "failed")
  /\ LeaveLocked(0)
  /\ AfterUnlock(r)
  /\ UNCHANGED <<next, used>> /\ Fault

(* Mutated: a limit equal to what is in use is refused. *)
QuotaFitsStrictly == tables = Schema /\ used < DefaultLimit

(* SetQuota needs its table and refuses a limit below what is in use. *)
QuotaFits == tables = Schema /\ used <= DefaultLimit

BootQuota(r) ==
  /\ At(r, "quota")
  /\ Goto(r, IF QuotaFits THEN "serving" ELSE "down")
  /\ UNCHANGED <<next, dbVars, used, faults>>

BootQuotaFails(r) == At(r, "quota") /\ Goto(r, "down") /\ UNCHANGED <<next, dbVars, used>> /\ Fault

(* What the replicas serve, as far as booting can tell: slots come and go. *)
Serve(r) ==
  /\ At(r, "serving")
  /\ used' \in {used + 1, used - 1} \cap 0..DefaultLimit
  /\ UNCHANGED <<pc, next, dbVars, faults>>

Crash(r) ==
  /\ ~At(r, "down") /\ Goto(r, "down")
  /\ \/ At(r, "wait") /\ LeaveWaiting
     \/ At(r, "ddl") /\ LeaveLocked(next[r])
     \/ (At(r, "done") \/ At(r, "failed")) /\ LeaveLocked(0)
     \/ pc[r] \notin Locked \cup {"wait"} /\ UNCHANGED dbVars
  /\ UNCHANGED <<next, used>> /\ Fault

OrphanAcquires ==
  /\ holder = Nobody /\ queued > 0
  /\ holder' = Orphan
  /\ queued' = queued - 1
  /\ UNCHANGED <<pc, next, tables, pending, used, faults>>

OrphanCreatesTable ==
  /\ pending # 0
  /\ tables' = tables \cup {pending}
  /\ pending' = 0
  /\ UNCHANGED <<pc, next, holder, queued, used, faults>>

(* The server ends the session that holds the lock, or one that waits. *)
HolderEnds ==
  /\ holder = Orphan
  /\ holder' = Nobody
  /\ pending' = 0
  /\ UNCHANGED <<pc, next, tables, queued, used, faults>>

WaiterEnds ==
  /\ queued > 0
  /\ queued' = queued - 1
  /\ UNCHANGED <<pc, next, tables, holder, pending, used, faults>>

Boot(r) ==
  \/ Start(r) \/ Open(r) \/ Acquire(r) \/ CreateTable(r) \/ Unlock(r)
  \/ BootQuota(r)

Fail(r) ==
  \/ OpenFails(r) \/ AcquireFails(r) \/ StatementFails(r)
  \/ StatementAbandoned(r) \/ UnlockFails(r) \/ BootQuotaFails(r) \/ Crash(r)

Next ==
  \/ \E r \in Replicas : Boot(r) \/ Serve(r) \/ Fail(r)
  \/ OrphanAcquires \/ OrphanCreatesTable \/ HolderEnds \/ WaiterEnds

Spec == Init /\ [][Next]_vars

(* A process that exits is started again, the server ends an orphan at     *)
(* last, and what does not fail is done.                                   *)
FairSpec ==
  /\ Spec
  /\ WF_vars(HolderEnds) /\ WF_vars(WaiterEnds)
  /\ \A r \in Replicas : WF_vars(Boot(r))
----------------------------------------------------------------------------
(* migrate.go:21-23: the lock is taken "so multiple replicas do not race   *)
(* on first startup" -- no two sessions execute schema statements at the   *)
(* same time, a statement left behind by a process that died or timed out  *)
(* included.                                                               *)
MigrationsDoNotRace ==
  \A r \in Replicas : At(r, "ddl") =>
    /\ pending = 0
    /\ \A q \in Replicas \ {r} : ~At(q, "ddl")

(* open.go:16-18: OpenSQLStore "runs the governance schema migration, and  *)
(* returns a store ready to serve" -- whoever migrated, and however often  *)
(* it was cut short, a replica that has opened its store finds every       *)
(* table.                                                                  *)
OpenedHasSchema ==
  \A r \in Replicas : pc[r] \in {"quota", "serving"} => tables = Schema

(* Every replica gets to serve, again after each crash: neither a lock     *)
(* left behind nor a full quota keeps it from booting (main.go:27 sets the *)
(* quota of the default owner at every start and exits if that fails).     *)
ReplicasServe == \A r \in Replicas : []<>At(r, "serving")
=============================================================================
