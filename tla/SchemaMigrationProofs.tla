----------------------- MODULE SchemaMigrationProofs -----------------------
(***************************************************************************)
(* However many replicas boot, crash and leave sessions behind, the        *)
(* migrations exclude one another and none is taken for complete that is   *)
(* not.                                                                    *)
(***************************************************************************)
EXTENDS SchemaMigration, TLAPS

(* The lock is held by whoever is between taking it and giving it back. *)
LockIsHeld == \A r \in Replicas : pc[r] \in Locked <=> holder = r

(* A statement left behind runs in the session that still has the lock. *)
PendingIsLocked == pending # 0 => holder = Orphan

(* The statements before the next one have been executed. *)
Executed == \A r \in Replicas : At(r, "ddl") => 1..(next[r] - 1) \subseteq tables

(* Past the loop, the schema is complete. *)
Complete ==
  \A r \in Replicas : pc[r] \in {"done", "quota", "serving"} => tables = Schema

IInv == TypeOK /\ LockIsHeld /\ PendingIsLocked /\ Executed /\ Complete

(* The invariant holds when no process has started. *)
LEMMA InitIInv == Init => IInv
  BY StatementsAreSome, LimitIsNatural, FaultsAreBounded, HoldersDiffer
  DEF Init, IInv, TypeOK, LockIsHeld, PendingIsLocked, Executed, Complete,
      At, Schema, Stages, Locked

(* What a statement does to a set of tables. *)
LEMMA AddTable ==
  ASSUME NEW T, T \subseteq Schema, NEW k \in Schema
  PROVE  T \cup {k} \subseteq Schema /\ (T = Schema => T \cup {k} = Schema)
  OBVIOUS

(* The steps of a boot that leave the database alone. *)
LEMMA QuietIInv ==
  ASSUME IInv, NEW r \in Replicas,
         \/ Start(r) \/ Open(r) \/ OpenFails(r) \/ StatementFails(r)
         \/ BootQuota(r) \/ BootQuotaFails(r) \/ Serve(r)
  PROVE  IInv'
<1> USE StatementsAreSome, LimitIsNatural, FaultsAreBounded, HoldersDiffer
    DEF At, Goto, Fault
<1>1. TypeOK'
  <2>1. used' \in 0..DefaultLimit
    BY DEF IInv, TypeOK, Start, Open, OpenFails, StatementFails, BootQuota,
           BootQuotaFails, Serve
  <2>2. faults' \in 0..MaxFaults
    BY DEF IInv, TypeOK, Start, Open, OpenFails, StatementFails, BootQuota,
           BootQuotaFails, Serve
  <2> QED
    BY <2>1, <2>2
    DEF IInv, TypeOK, Stages, Start, Open, OpenFails, StatementFails,
        BootQuota, BootQuotaFails, Serve, dbVars
<1>2. LockIsHeld'
  BY DEF IInv, TypeOK, LockIsHeld, Locked, Start, Open, OpenFails,
         StatementFails, BootQuota, BootQuotaFails, Serve, dbVars
<1>3. PendingIsLocked'
  BY DEF IInv, PendingIsLocked, Start, Open, OpenFails, StatementFails,
         BootQuota, BootQuotaFails, Serve, dbVars
<1>4. Executed'
  BY DEF IInv, TypeOK, Executed, Start, Open, OpenFails, StatementFails,
         BootQuota, BootQuotaFails, Serve, dbVars
<1>5. Complete'
  BY DEF IInv, TypeOK, Complete, Start, Open, OpenFails, StatementFails,
         BootQuota, BootQuotaFails, Serve, dbVars
<1> QED
  BY <1>1, <1>2, <1>3, <1>4, <1>5 DEF IInv

(* The steps of a boot that take the lock, use it or give it back. *)
LEMMA LockIInv ==
  ASSUME IInv, NEW r \in Replicas,
         Acquire(r) \/ CreateTable(r) \/ Unlock(r) \/ UnlockFails(r)
  PROVE  IInv'
<1> USE StatementsAreSome, FaultsAreBounded, HoldersDiffer
    DEF At, Goto, Fault, IInv, TypeOK, Stages, Locked
<1>1. CASE Acquire(r)
  <2>1. TypeOK'
    BY <1>1 DEF Acquire, Schema
  <2>2. LockIsHeld'
    BY <1>1 DEF Acquire, LockIsHeld
  <2>3. PendingIsLocked' /\ Complete'
    BY <1>1 DEF Acquire, PendingIsLocked, Complete
  <2>4. Executed'
    BY <1>1 DEF Acquire, Executed, LockIsHeld
  <2> QED
    BY <2>1, <2>2, <2>3, <2>4
<1>2. CASE CreateTable(r)
  <2>0. tables' \subseteq Schema /\ (tables = Schema => tables' = Schema)
    BY <1>2, AddTable DEF CreateTable
  <2>1. TypeOK'
    BY <1>2, <2>0 DEF CreateTable, Schema
  <2>2. LockIsHeld' /\ PendingIsLocked'
    BY <1>2 DEF CreateTable, LockIsHeld, PendingIsLocked
  <2>3. Executed'
    BY <1>2 DEF CreateTable, Executed, Schema
  <2>4. next[r] = Statements => Schema \subseteq tables'
    BY <1>2 DEF CreateTable, Executed, Schema
  <2>5. Complete'
    BY <1>2, <2>0, <2>4 DEF CreateTable, Complete
  <2> QED
    BY <2>1, <2>2, <2>3, <2>5
<1>3. CASE Unlock(r) \/ UnlockFails(r)
  <2> USE DEF Unlock, UnlockFails, LeaveLocked, AfterUnlock
  <2>1. TypeOK'
    BY <1>3
  <2>2. LockIsHeld' /\ PendingIsLocked'
    BY <1>3 DEF LockIsHeld, PendingIsLocked
  <2>3. Executed' /\ Complete'
    BY <1>3 DEF Executed, Complete
  <2> QED
    BY <2>1, <2>2, <2>3
<1> QED
  BY <1>1, <1>2, <1>3

(* A process that stops, and the session it leaves behind. *)
LEMMA LeaveIInv ==
  ASSUME IInv, NEW r \in Replicas,
         AcquireFails(r) \/ StatementAbandoned(r) \/ Crash(r)
  PROVE  IInv'
<1> USE StatementsAreSome, FaultsAreBounded, HoldersDiffer
    DEF At, Goto, Fault, IInv, TypeOK, Stages, Locked, LeaveWaiting,
        LeaveLocked, AcquireFails, StatementAbandoned, Crash, dbVars
<1>1. TypeOK'
  <2>1. next[r] \in 0..Statements
    BY DEF Schema
  <2>2. faults' \in 0..MaxFaults
    OBVIOUS
  <2>3. queued' \in Nat /\ pending' \in 0..Statements
    BY <2>1
  <2> QED
    BY <2>2, <2>3
<1>2. LockIsHeld'
  BY DEF LockIsHeld
<1>3. PendingIsLocked'
  BY DEF PendingIsLocked
<1>4. Executed' /\ Complete'
  BY DEF Executed, Complete
<1> QED
  BY <1>1, <1>2, <1>3, <1>4

(* What becomes of the sessions left behind. *)
LEMMA OrphanIInv ==
  ASSUME IInv,
         OrphanAcquires \/ OrphanCreatesTable \/ HolderEnds \/ WaiterEnds
  PROVE  IInv'
<1> USE StatementsAreSome, HoldersDiffer
    DEF At, IInv, TypeOK, Stages, Locked, OrphanAcquires,
        OrphanCreatesTable, HolderEnds, WaiterEnds
<1>0. tables' \subseteq Schema /\ tables \subseteq tables'
  <2>1. pending # 0 => pending \in Schema
    BY DEF Schema
  <2> QED
    BY <2>1, AddTable
<1>1. TypeOK'
  BY <1>0
<1>2. LockIsHeld'
  BY DEF LockIsHeld
<1>3. PendingIsLocked'
  BY DEF PendingIsLocked
<1>4. Executed'
  BY <1>0 DEF Executed
<1>5. Complete'
  BY <1>0 DEF Complete
<1> QED
  BY <1>1, <1>2, <1>3, <1>4, <1>5

(* Every step keeps the invariant. *)
LEMMA NextIInv == IInv /\ [Next]_vars => IInv'
<1> SUFFICES ASSUME IInv, [Next]_vars PROVE IInv'
  OBVIOUS
<1>1. CASE UNCHANGED vars
  BY <1>1 DEF vars, dbVars, IInv, TypeOK, LockIsHeld, PendingIsLocked,
              Executed, Complete, At
<1>2. CASE \E r \in Replicas : Boot(r) \/ Serve(r) \/ Fail(r)
  BY <1>2, QuietIInv, LockIInv, LeaveIInv DEF Boot, Fail
<1>3. CASE OrphanAcquires \/ OrphanCreatesTable \/ HolderEnds \/ WaiterEnds
  BY <1>3, OrphanIInv
<1> QED
  BY <1>1, <1>2, <1>3 DEF Next

(* Two holders of the lock are one, and a pending statement is held by an  *)
(* orphan, which is none of the replicas.                                  *)
LEMMA IInvExcludes == IInv => MigrationsDoNotRace /\ OpenedHasSchema
  BY HoldersDiffer DEF IInv, LockIsHeld, PendingIsLocked, Complete, Locked,
                       MigrationsDoNotRace, OpenedHasSchema, At

(* migrate.go:21-23, for every number of replicas, statements and faults:  *)
(* migrations never run schema statements at the same time, those an       *)
(* abandoned session is still executing included.                          *)
THEOREM MigrationsExclude == Spec => []MigrationsDoNotRace
  BY InitIInv, NextIInv, IInvExcludes, PTL DEF Spec

(* open.go:16-18, for every number of replicas, statements and faults: a   *)
(* store that has been opened finds its whole schema, even when several    *)
(* migrations were cut short before one finished.                          *)
THEOREM OpenedStoresAreMigrated == Spec => []OpenedHasSchema
  BY InitIInv, NextIInv, IInvExcludes, PTL DEF Spec
=============================================================================
