------------------------------ MODULE SQLStore ------------------------------
(***************************************************************************)
(* internal/persistence/sql.go: the governance store as transactions of    *)
(* several SQL statements, run concurrently by the sessions of one or more *)
(* control-plane replicas.  Every statement is a step of its own.          *)
(*                                                                         *)
(* The database is external and modelled from how sql.go relies on it: a   *)
(* write takes its row's lock and keeps it until commit or rollback, the   *)
(* writes of a transaction are seen by others only once it commits, a      *)
(* conditional UPDATE evaluates its predicate on the committed row, and a  *)
(* cycle of waiting transactions is broken by rolling one back.  An UPDATE *)
(* whose predicate is false on the committed row may return at once even   *)
(* if the row is locked (PostgreSQL) or wait first (MySQL); the model has  *)
(* both.  COMMIT may take effect although its acknowledgement is lost.     *)
(***************************************************************************)
EXTENDS Naturals, FiniteSets

CONSTANTS Accounts, Allocations, Limits, IdemKeys, Claims, NoAccount, NoClaim,
          Sessions,      \* concurrent callers, each on a connection of its own
          NoAllocation   \* the id of a call that has none

ASSUME AllocationsFinite == IsFiniteSet(Allocations)
ASSUME LimitsAreNaturals == Limits \subseteq Nat
ASSUME NullsAreDistinct ==
  /\ NoAccount \notin Accounts
  /\ NoClaim \notin Claims
  /\ NoAllocation \notin Allocations

VARIABLES
  quota, alloc, idem,   \* the committed tables, as in GovernanceStore
  tx                    \* per session: its call, the next statement, its
                        \* locks and uncommitted count, and the last reply

vars == <<quota, alloc, idem, tx>>

Gov == INSTANCE GovernanceStore

Ops == {"none", "SetQuota", "Reserve", "Release", "Noop"}

PCs == {"idle", "ensure", "select", "update", "debit", "insert",
        "cas", "lookup", "credit", "commit"}

Replies == {"none", "ok", "QuotaExceeded", "QuotaBelowUsage", "QuotaCorrupt",
            "AllocationNotFound", "AllocationState", "DriverError"}

Transactions ==
  [op : Ops, pc : PCs, account : Accounts \cup {NoAccount},
   id : Allocations \cup {NoAllocation}, limit : Nat, count : Nat,
   locks : SUBSET {"quota", "alloc"}, reply : Replies]

TypeOK == Gov!TypeOK /\ tx \in [Sessions -> Transactions]

(* What a session is once its call returned; no locks, no buffered write. *)
Returned(reply) ==
  [op |-> "none", pc |-> "idle", account |-> NoAccount, id |-> NoAllocation,
   limit |-> 0, count |-> 0, locks |-> {}, reply |-> reply]

Init == Gov!Init /\ tx = [s \in Sessions |-> Returned("none")]
----------------------------------------------------------------------------
(* Row locks. *)
HoldsQuota(s, a) == tx[s].account = a /\ "quota" \in tx[s].locks

HoldsAllocation(s, id) == tx[s].id = id /\ "alloc" \in tx[s].locks

QuotaRowFree(s) ==
  \A r \in Sessions \ {s} : ~HoldsQuota(r, tx[s].account)

AllocationRowFree(s) ==
  \A r \in Sessions \ {s} : ~HoldsAllocation(r, tx[s].id)

(* A statement that acquires `lock` (if any) and goes on to `pc`. *)
Proceed(s, pc, lock) ==
  /\ tx' = [tx EXCEPT ![s].pc = pc, ![s].locks = @ \cup lock]
  /\ UNCHANGED <<quota, alloc, idem>>

(* tx.Rollback(): the locks go and nothing was written. *)
Rollback(s, reply) ==
  /\ tx' = [tx EXCEPT ![s] = Returned(reply)]
  /\ UNCHANGED <<quota, alloc, idem>>

Begin(s, op, pc, a, id, limit) ==
  /\ tx[s].pc = "idle"
  /\ tx' = [tx EXCEPT ![s] =
              [op |-> op, pc |-> pc, account |-> a, id |-> id, limit |-> limit,
               count |-> 0, locks |-> {}, reply |-> "none"]]
  /\ UNCHANGED <<quota, alloc, idem>>
----------------------------------------------------------------------------
(* SetQuota: ensure the row, lock and read it, update the limit. *)
SetQuota(s, a, limit) == Begin(s, "SetQuota", "ensure", a, NoAllocation, limit)

(* INSERT ... ON CONFLICT DO NOTHING: an insert locks its new row, and one *)
(* that races another insert of the same row waits for its outcome.        *)
EnsureRow(s) ==
  /\ tx[s].pc = "ensure"
  /\ \/ quota[tx[s].account].row = "present" /\ Proceed(s, "select", {})
     \/ /\ quota[tx[s].account].row = "absent"
        /\ QuotaRowFree(s)
        /\ Proceed(s, "select", {"quota"})

(* Mutated: no lock, a shared lock (FOR SHARE), and a rejected call that   *)
(* forgets to roll its transaction back.                                   *)
SelectWithoutLock(s) ==
  /\ tx[s].pc = "select"
  /\ \/ quota[tx[s].account].count > tx[s].limit /\ Rollback(s, "QuotaBelowUsage")
     \/ quota[tx[s].account].count <= tx[s].limit /\ Proceed(s, "update", {})
SelectForShare(s) ==
  /\ tx[s].pc = "select"
  /\ \/ quota[tx[s].account].count > tx[s].limit /\ Rollback(s, "QuotaBelowUsage")
     \/ quota[tx[s].account].count <= tx[s].limit /\ Proceed(s, "update", {"quota"})
SelectWithoutRollback(s) ==
  /\ tx[s].pc = "select"
  /\ QuotaRowFree(s)
  /\ quota[tx[s].account].count <= tx[s].limit
  /\ Proceed(s, "update", {"quota"})

SelectForUpdate(s) ==
  /\ tx[s].pc = "select"
  /\ QuotaRowFree(s)
  /\ \/ quota[tx[s].account].count > tx[s].limit /\ Rollback(s, "QuotaBelowUsage")
     \/ quota[tx[s].account].count <= tx[s].limit /\ Proceed(s, "update", {"quota"})

UpdateLimit(s) ==
  /\ tx[s].pc = "update"
  /\ QuotaRowFree(s)
  /\ Proceed(s, "commit", {"quota"})
----------------------------------------------------------------------------
(* ReserveAllocation: conditional increment, then the ledger row. *)
ReserveAllocation(s, a, id) == Begin(s, "Reserve", "debit", a, id, 0)

(* UPDATE ... SET current_count = current_count + 1 WHERE ... < limit.  No *)
(* row to update, for want of room or of a quota, is QuotaExceeded.        *)
Debit(s) ==
  /\ tx[s].pc = "debit"
  /\ \/ ~Gov!HasRoom(tx[s].account) /\ Rollback(s, "QuotaExceeded")
     \/ /\ Gov!HasRoom(tx[s].account)
        /\ QuotaRowFree(s)
        /\ tx' = [tx EXCEPT ![s].pc = "insert", ![s].locks = @ \cup {"quota"},
                            ![s].count = quota[tx[s].account].count + 1]
        /\ UNCHANGED <<quota, alloc, idem>>

(* The primary key refuses a second row; an insert of an id whose row is   *)
(* locked waits for that transaction's outcome.                            *)
InsertAllocation(s) ==
  /\ tx[s].pc = "insert"
  /\ AllocationRowFree(s)
  /\ \/ ~Gov!IsUnused(tx[s].id) /\ Rollback(s, "DriverError")
     \/ Gov!IsUnused(tx[s].id) /\ Proceed(s, "commit", {"alloc"})
----------------------------------------------------------------------------
(* ReleaseAllocation: compare-and-set the ledger row, then the decrement.  *)
ReleaseAllocation(s, a, id) == Begin(s, "Release", "cas", a, id, 0)

(* Mutated: the compare-and-set does not look at the status. *)
CasWithoutStatus(s) ==
  /\ tx[s].pc = "cas"
  /\ AllocationRowFree(s)
  /\ \/ alloc[tx[s].id].account # tx[s].account /\ Proceed(s, "lookup", {})
     \/ alloc[tx[s].id].account = tx[s].account /\ Proceed(s, "credit", {"alloc"})

CasReleased(s) ==
  /\ tx[s].pc = "cas"
  /\ \/ ~Gov!IsHeldBy(tx[s].id, tx[s].account) /\ Proceed(s, "lookup", {})
     \/ /\ Gov!IsHeldBy(tx[s].id, tx[s].account)
        /\ AllocationRowFree(s)
        /\ Proceed(s, "credit", {"alloc"})

(* The row may have changed since the compare-and-set missed it. *)
LookupStatus(s) ==
  LET row == alloc[tx[s].id] IN
  /\ tx[s].pc = "lookup"
  /\ \/ row.account # tx[s].account /\ Rollback(s, "AllocationNotFound")
     \/ /\ row.account = tx[s].account /\ row.status = "RELEASED"
        /\ tx' = [tx EXCEPT ![s].op = "Noop", ![s].pc = "commit"]
        /\ UNCHANGED <<quota, alloc, idem>>
     \/ /\ row.account = tx[s].account /\ row.status # "RELEASED"
        /\ Rollback(s, "AllocationState")

CanCredit(a) == quota[a].row = "present" /\ quota[a].count > 0

Credit(s) ==
  /\ tx[s].pc = "credit"
  /\ \/ ~CanCredit(tx[s].account) /\ Rollback(s, "QuotaCorrupt")
     \/ /\ CanCredit(tx[s].account)
        /\ QuotaRowFree(s)
        /\ tx' = [tx EXCEPT ![s].pc = "commit", ![s].locks = @ \cup {"quota"},
                            ![s].count = quota[tx[s].account].count - 1]
        /\ UNCHANGED <<quota, alloc, idem>>
----------------------------------------------------------------------------
(* tx.Commit(): the buffered writes appear in one step.  The caller may    *)
(* still see an error if the acknowledgement is lost.                      *)
CommittedQuota(s) ==
  LET a == tx[s].account IN
  CASE tx[s].op = "SetQuota" ->
         [quota EXCEPT ![a].row = "present", ![a].limit = tx[s].limit]
    [] tx[s].op \in {"Reserve", "Release"} ->
         [quota EXCEPT ![a].count = tx[s].count]
    [] OTHER -> quota

CommittedAlloc(s) ==
  CASE tx[s].op = "Reserve" ->
         [alloc EXCEPT ![tx[s].id] =
            [status |-> "RESERVED", account |-> tx[s].account]]
    [] tx[s].op = "Release" -> [alloc EXCEPT ![tx[s].id].status = "RELEASED"]
    [] OTHER -> alloc

Commit(s) ==
  /\ tx[s].pc = "commit"
  /\ quota' = CommittedQuota(s)
  /\ alloc' = CommittedAlloc(s)
  /\ UNCHANGED idem
  /\ \E reply \in {"ok", "DriverError"} :
       tx' = [tx EXCEPT ![s] = Returned(reply)]

(* Any statement may fail, and the process or its connection may be lost:  *)
(* the database rolls back.                                                *)
StatementFails(s) == tx[s].pc # "idle" /\ Rollback(s, "DriverError")

(* InsertIdempotencyPending is a single statement outside a transaction.   *)
InsertIdempotencyPending(s, k, c) ==
  /\ tx[s].pc = "idle"
  /\ idem' = [idem EXCEPT ![k] = IF @ = NoClaim THEN c ELSE @]
  /\ \E reply \in {"ok", "DriverError"} :
       tx' = [tx EXCEPT ![s] = Returned(reply)]
  /\ UNCHANGED <<quota, alloc>>
----------------------------------------------------------------------------
(* s cannot run its next statement before r ends. *)
WaitsForQuota(s, r) ==
  /\ HoldsQuota(r, tx[s].account)
  /\ \/ tx[s].pc = "ensure" /\ quota[tx[s].account].row = "absent"
     \/ tx[s].pc \in {"select", "update"}
     \/ tx[s].pc = "debit" /\ Gov!HasRoom(tx[s].account)
     \/ tx[s].pc = "credit" /\ CanCredit(tx[s].account)

WaitsForAllocation(s, r) ==
  /\ HoldsAllocation(r, tx[s].id)
  /\ \/ tx[s].pc = "insert"
     \/ tx[s].pc = "cas" /\ Gov!IsHeldBy(tx[s].id, tx[s].account)

WaitsFor(s, r) == s # r /\ (WaitsForQuota(s, r) \/ WaitsForAllocation(s, r))

(* Nobody in C can go on before somebody else in C ends. *)
WaitOnEachOther(C) == \A c \in C : \E d \in C : WaitsFor(c, d)

Deadlocked(s) == \E C \in SUBSET Sessions : s \in C /\ WaitOnEachOther(C)

(* The database's deadlock detector picks a victim. *)
DeadlockVictim(s) == Deadlocked(s) /\ Rollback(s, "DriverError")

Statement(s) ==
  \/ EnsureRow(s) \/ SelectForUpdate(s) \/ UpdateLimit(s)
  \/ Debit(s) \/ InsertAllocation(s)
  \/ CasReleased(s) \/ LookupStatus(s) \/ Credit(s)
  \/ Commit(s)

Next ==
  \E s \in Sessions :
    \/ \E a \in Accounts, limit \in Limits : SetQuota(s, a, limit)
    \/ \E a \in Accounts, id \in Allocations : ReserveAllocation(s, a, id)
    \/ \E a \in Accounts, id \in Allocations : ReleaseAllocation(s, a, id)
    \/ \E k \in IdemKeys, c \in Claims : InsertIdempotencyPending(s, k, c)
    \/ Statement(s)
    \/ StatementFails(s)
    \/ DeadlockVictim(s)

Spec == Init /\ [][Next]_vars

(* Nobody has to call the store, but a call under way goes on: databases   *)
(* grant row locks in the order of arrival, hence strong fairness, and     *)
(* their deadlock detector does not sleep.  Failures are never owed.       *)
Fairness == \A s \in Sessions : SF_vars(Statement(s)) /\ WF_vars(DeadlockVictim(s))

FairSpec == Spec /\ Fairness
----------------------------------------------------------------------------
(* Every interleaving of the statements of concurrent transactions, with   *)
(* any of them failing at any point and any commit acknowledged or not, is *)
(* a sequence of the indivisible operations of GovernanceStore.            *)
Serializable == Gov!Spec

(* "quota ledger is inconsistent" (sql.go:171) cannot happen: when a       *)
(* release is about to decrement, the counter has something to give back.  *)
CreditNeverMisses ==
  \A s \in Sessions : tx[s].pc = "credit" => CanCredit(tx[s].account)

(* Among transactions that wait on each other, however many they are, two  *)
(* are about the same allocation id, which SetQuota calls never are.       *)
(* Reserve locks quota before allocation (sql.go:101, 113) and release the *)
(* other way round (134, 161); what keeps them from deadlocking in normal  *)
(* operation is that the id a reserve inserts is new.                      *)
DeadlockNeedsSharedId ==
  \A C \in SUBSET Sessions : C # {} /\ WaitOnEachOther(C) =>
    \E c, d \in C : c # d /\ tx[c].id = tx[d].id /\ tx[c].id \in Allocations

(* No two open transactions hold the lock of the same row. *)
LocksExclusive ==
  \A s, r \in Sessions : s # r =>
    /\ \A a \in Accounts : ~(HoldsQuota(s, a) /\ HoldsQuota(r, a))
    /\ \A id \in Allocations : ~(HoldsAllocation(s, id) /\ HoldsAllocation(r, id))

(* What a transaction has established about its rows so far, and holds the *)
(* locks for.                                                              *)
Established(s) ==
  LET t == tx[s] IN
  /\ t.pc # "idle" => t.account \in Accounts
  /\ t.pc \in {"ensure", "select", "update"} => t.op = "SetQuota"
  /\ t.pc \in {"debit", "insert"} => t.op = "Reserve"
  /\ t.pc \in {"cas", "lookup", "credit"} => t.op = "Release"
  /\ t.op = "SetQuota" => t.limit \in Limits
  /\ t.op \in {"Reserve", "Release"} => t.id \in Allocations
  /\ t.op = "SetQuota" /\ t.pc \in {"update", "commit"} =>
       "quota" \in t.locks /\ Gov!FitsUsage(t.account, t.limit)
  /\ t.op = "Reserve" /\ t.pc \in {"insert", "commit"} =>
       /\ "quota" \in t.locks
       /\ Gov!HasRoom(t.account) /\ t.count = quota[t.account].count + 1
  /\ t.op = "Reserve" /\ t.pc = "commit" =>
       "alloc" \in t.locks /\ Gov!IsUnused(t.id)
  /\ t.op = "Release" /\ t.pc \in {"credit", "commit"} =>
       "alloc" \in t.locks /\ Gov!IsHeldBy(t.id, t.account)
  /\ t.op = "Release" /\ t.pc = "commit" =>
       /\ "quota" \in t.locks
       /\ CanCredit(t.account) /\ t.count = quota[t.account].count - 1

(* What a transaction read or checked in one statement still holds in the  *)
(* later ones, up to its commit: no other transaction can make it stale.   *)
ChecksStayTrue == LocksExclusive /\ \A s \in Sessions : Established(s)

(* Every call returns: no early return leaves a transaction, and with it a *)
(* row lock, behind that other callers would wait for forever.             *)
CallsReturn == \A s \in Sessions : tx[s].pc # "idle" ~> tx[s].pc = "idle"
=============================================================================
