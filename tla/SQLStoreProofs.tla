--------------------------- MODULE SQLStoreProofs ---------------------------
(***************************************************************************)
(* For any number of sessions, accounts, allocations and limits, the SQL   *)
(* transactions implement the governance contract.  The inductive          *)
(* invariant says that locks are exclusive and that what a transaction has *)
(* checked stays true while it holds the lock of the row it checked; at a  *)
(* commit it is exactly the guard of the contract's operation.             *)
(***************************************************************************)
EXTENDS SQLStore, FiniteSetTheorems, TLAPS

Inv == TypeOK /\ ChecksStayTrue

(* A step that leaves the tables and r's transaction alone leaves what r   *)
(* has established true.                                                   *)
LEMMA Bystander ==
  ASSUME NEW r \in Sessions, Established(r),
         tx'[r] = tx[r], UNCHANGED <<quota, alloc>>
  PROVE  Established(r)'
BY DEF Established, CanCredit, Gov!FitsUsage, Gov!HasRoom, Gov!IsUnused,
       Gov!IsHeldBy

(* A step of s that takes no row lock it may not have keeps locks          *)
(* exclusive: others' locks do not change, and a row s comes to hold was   *)
(* free.                                                                   *)
LEMMA LocksKept ==
  ASSUME TypeOK, LocksExclusive, NEW s \in Sessions,
         \A r \in Sessions \ {s} : tx'[r] = tx[r],
         \A a \in Accounts : HoldsQuota(s, a)' =>
           \A r \in Sessions \ {s} : ~HoldsQuota(r, a),
         \A id \in Allocations : HoldsAllocation(s, id)' =>
           \A r \in Sessions \ {s} : ~HoldsAllocation(r, id)
  PROVE  LocksExclusive'
BY DEF LocksExclusive, HoldsQuota, HoldsAllocation

(* Returning, with any reply, gives up all locks. *)
LEMMA ReturnKeeps ==
  ASSUME Inv, NEW s \in Sessions, NEW reply \in Replies,
         tx' = [tx EXCEPT ![s] = Returned(reply)]
  PROVE  /\ tx' \in [Sessions -> Transactions]
         /\ LocksExclusive'
         /\ Established(s)'
<1> USE DEF Inv, TypeOK
<1>1. tx'[s] = Returned(reply) /\ \A r \in Sessions \ {s} : tx'[r] = tx[r]
  OBVIOUS
<1>2. Returned(reply) \in Transactions
  BY DEF Returned, Transactions, Ops, PCs
<1>3. tx' \in [Sessions -> Transactions]
  BY <1>2
<1>4. LocksExclusive'
  BY <1>1, LocksKept DEF ChecksStayTrue, HoldsQuota, HoldsAllocation, Returned
<1>5. Established(s)'
  BY <1>1 DEF Established, Returned
<1> QED
  BY <1>3, <1>4, <1>5

(* A rollback keeps the invariant. *)
LEMMA RollbackKeeps ==
  ASSUME Inv, NEW s \in Sessions, NEW reply \in Replies, Rollback(s, reply)
  PROVE  Inv'
<1>1. /\ tx' = [tx EXCEPT ![s] = Returned(reply)]
      /\ UNCHANGED <<quota, alloc, idem>>
      /\ \A r \in Sessions \ {s} : tx'[r] = tx[r]
  BY DEF Rollback, Inv, TypeOK
<1>2. /\ tx' \in [Sessions -> Transactions]
      /\ LocksExclusive'
      /\ Established(s)'
  BY <1>1, ReturnKeeps
<1>3. Gov!TypeOK'
  BY <1>1 DEF Inv, TypeOK, Gov!TypeOK
<1>4. \A r \in Sessions : Established(r)'
  BY <1>1, <1>2, Bystander DEF Inv, ChecksStayTrue
<1> QED
  BY <1>2, <1>3, <1>4 DEF Inv, TypeOK, ChecksStayTrue

(* A step of s that leaves the tables alone keeps the invariant if it      *)
(* keeps s's transaction typed, takes only free rows and establishes what  *)
(* its next statement relies on.                                           *)
LEMMA StatementKeeps ==
  ASSUME Inv, NEW s \in Sessions, NEW t \in Transactions,
         tx' = [tx EXCEPT ![s] = t], UNCHANGED <<quota, alloc, idem>>,
         t.account = tx[s].account \/ t.locks = {},
         t.id = tx[s].id \/ t.locks = {},
         "quota" \in t.locks => "quota" \in tx[s].locks \/ QuotaRowFree(s),
         "alloc" \in t.locks => "alloc" \in tx[s].locks \/ AllocationRowFree(s),
         Established(s)'
  PROVE  Inv'
<1>1. tx'[s] = t /\ \A r \in Sessions \ {s} : tx'[r] = tx[r]
  BY DEF Inv, TypeOK
<1>2. TypeOK'
  BY DEF Inv, TypeOK, Gov!TypeOK
<1>3. ASSUME NEW a \in Accounts, HoldsQuota(s, a)', NEW r \in Sessions \ {s}
      PROVE  ~HoldsQuota(r, a)
  <2>1. tx[s].account = a /\ "quota" \in t.locks
    BY <1>1, <1>3 DEF HoldsQuota
  <2>2. CASE "quota" \in tx[s].locks
    BY <2>1, <2>2 DEF Inv, ChecksStayTrue, LocksExclusive, HoldsQuota
  <2>3. CASE QuotaRowFree(s)
    BY <2>1, <2>3 DEF QuotaRowFree
  <2> QED
    BY <2>1, <2>2, <2>3
<1>4. ASSUME NEW id \in Allocations, HoldsAllocation(s, id)',
             NEW r \in Sessions \ {s}
      PROVE  ~HoldsAllocation(r, id)
  <2>1. tx[s].id = id /\ "alloc" \in t.locks
    BY <1>1, <1>4 DEF HoldsAllocation
  <2>2. CASE "alloc" \in tx[s].locks
    BY <2>1, <2>2 DEF Inv, ChecksStayTrue, LocksExclusive, HoldsAllocation
  <2>3. CASE AllocationRowFree(s)
    BY <2>1, <2>3 DEF AllocationRowFree
  <2> QED
    BY <2>1, <2>2, <2>3
<1>5. LocksExclusive'
  BY <1>1, <1>3, <1>4, LocksKept DEF Inv, ChecksStayTrue
<1>6. \A r \in Sessions : Established(r)'
  BY <1>1, Bystander DEF Inv, ChecksStayTrue
<1> QED
  BY <1>2, <1>5, <1>6 DEF Inv, ChecksStayTrue

(* Beginning a transaction: it has checked nothing and holds nothing. *)
LEMMA BeginKeeps ==
  ASSUME Inv, NEW s \in Sessions, NEW a \in Accounts,
         NEW id \in Allocations \cup {NoAllocation}, NEW limit \in Nat,
         NEW op \in Ops, NEW pc \in PCs,
         \/ op = "SetQuota" /\ pc = "ensure" /\ limit \in Limits
         \/ op = "Reserve" /\ pc = "debit" /\ id \in Allocations
         \/ op = "Release" /\ pc = "cas" /\ id \in Allocations,
         Begin(s, op, pc, a, id, limit)
  PROVE  Inv'
<1> DEFINE t == [op |-> op, pc |-> pc, account |-> a, id |-> id,
                 limit |-> limit, count |-> 0, locks |-> {}, reply |-> "none"]
<1>1. t \in Transactions
  BY DEF Transactions, Replies
<1>2. tx' = [tx EXCEPT ![s] = t] /\ UNCHANGED <<quota, alloc, idem>>
  BY DEF Begin
<1>3. tx'[s] = t
  BY <1>2 DEF Inv, TypeOK
<1>4. Established(s)'
  BY <1>3 DEF Established
<1>5. t.locks = {}
  OBVIOUS
<1> HIDE DEF t
<1> QED
  BY <1>1, <1>2, <1>4, <1>5, StatementKeeps

(* What a statement that goes on changes in its session's transaction. *)
LEMMA ProceedFields ==
  ASSUME Inv, NEW s \in Sessions, NEW pc \in PCs,
         NEW lock \in SUBSET {"quota", "alloc"}, Proceed(s, pc, lock)
  PROVE  /\ tx' = [tx EXCEPT ![s] = tx'[s]]
         /\ tx'[s] \in Transactions
         /\ tx'[s].op = tx[s].op /\ tx'[s].pc = pc
         /\ tx'[s].account = tx[s].account /\ tx'[s].id = tx[s].id
         /\ tx'[s].limit = tx[s].limit /\ tx'[s].count = tx[s].count
         /\ tx'[s].locks = tx[s].locks \cup lock
         /\ UNCHANGED <<quota, alloc, idem>>
<1> DEFINE t == [tx[s] EXCEPT !.pc = pc, !.locks = @ \cup lock]
<1>1. tx' = [tx EXCEPT ![s] = t] /\ UNCHANGED <<quota, alloc, idem>>
  BY DEF Proceed
<1>2. tx \in [Sessions -> Transactions] /\ tx[s] \in Transactions
  BY DEF Inv, TypeOK
<1>3. tx[s].locks \cup lock \in SUBSET {"quota", "alloc"}
  BY <1>2 DEF Transactions
<1>4. /\ t \in Transactions
      /\ t.op = tx[s].op /\ t.pc = pc
      /\ t.account = tx[s].account /\ t.id = tx[s].id
      /\ t.limit = tx[s].limit /\ t.count = tx[s].count
      /\ t.locks = tx[s].locks \cup lock
  BY <1>2, <1>3 DEF Transactions
<1> HIDE DEF t
<1> QED
  BY <1>1, <1>2, <1>4

(* A statement that goes on keeps the invariant if the rows it locks are   *)
(* free and it establishes what its successor relies on.                   *)
LEMMA ProceedKeeps ==
  ASSUME Inv, NEW s \in Sessions, NEW pc \in PCs,
         NEW lock \in SUBSET {"quota", "alloc"}, Proceed(s, pc, lock),
         "quota" \in lock => QuotaRowFree(s),
         "alloc" \in lock => AllocationRowFree(s),
         Established(s)'
  PROVE  Inv'
BY ProceedFields, StatementKeeps

(* Each statement of SetQuota keeps the invariant. *)
LEMMA SetQuotaStatements ==
  ASSUME Inv, NEW s \in Sessions,
         EnsureRow(s) \/ SelectForUpdate(s) \/ UpdateLimit(s)
  PROVE  Inv'
<1> USE DEF PCs
<1>0. Established(s) /\ tx[s] \in Transactions
  BY DEF Inv, ChecksStayTrue, TypeOK
<1>1. CASE EnsureRow(s)
  <2>1. CASE Proceed(s, "select", {})
    <3>1. Established(s)'
      BY <1>0, <1>1, <2>1, ProceedFields DEF EnsureRow, Established
    <3> QED
      BY <2>1, <3>1, ProceedKeeps
  <2>2. CASE QuotaRowFree(s) /\ Proceed(s, "select", {"quota"})
    <3>1. Established(s)'
      BY <1>0, <1>1, <2>2, ProceedFields DEF EnsureRow, Established
    <3> QED
      BY <2>2, <3>1, ProceedKeeps
  <2> QED
    BY <1>1, <2>1, <2>2 DEF EnsureRow
<1>2. CASE SelectForUpdate(s)
  <2>1. CASE Rollback(s, "QuotaBelowUsage")
    BY <2>1, RollbackKeeps DEF Replies
  <2>2. CASE quota[tx[s].account].count <= tx[s].limit /\ Proceed(s, "update", {"quota"})
    <3>1. /\ tx'[s].op = tx[s].op /\ tx'[s].pc = "update"
          /\ tx'[s].account = tx[s].account /\ tx'[s].id = tx[s].id
          /\ tx'[s].limit = tx[s].limit /\ tx'[s].count = tx[s].count
          /\ tx'[s].locks = tx[s].locks \cup {"quota"}
          /\ UNCHANGED <<quota, alloc, idem>>
      BY <2>2, ProceedFields
    <3>2. /\ tx[s].op = "SetQuota" /\ tx[s].account \in Accounts
          /\ tx[s].limit \in Limits
      BY <1>0, <1>2 DEF SelectForUpdate, Established
    <3>3. Gov!FitsUsage(tx[s].account, tx[s].limit)
      BY <2>2 DEF Gov!FitsUsage
    <3>4. Established(s)'
      BY <3>1, <3>2, <3>3 DEF Established, Gov!FitsUsage
    <3> QED
      BY <1>2, <2>2, <3>4, ProceedKeeps DEF SelectForUpdate
  <2> QED
    BY <1>2, <2>1, <2>2 DEF SelectForUpdate
<1>3. CASE UpdateLimit(s)
  <2>1. /\ tx'[s].op = tx[s].op /\ tx'[s].pc = "commit"
        /\ tx'[s].account = tx[s].account /\ tx'[s].id = tx[s].id
        /\ tx'[s].limit = tx[s].limit /\ tx'[s].count = tx[s].count
        /\ tx'[s].locks = tx[s].locks \cup {"quota"}
        /\ UNCHANGED <<quota, alloc, idem>>
    BY <1>3, ProceedFields DEF UpdateLimit
  <2>2. /\ tx[s].op = "SetQuota" /\ tx[s].account \in Accounts
        /\ tx[s].limit \in Limits /\ Gov!FitsUsage(tx[s].account, tx[s].limit)
    BY <1>0, <1>3 DEF UpdateLimit, Established
  <2>3. Established(s)'
    BY <2>1, <2>2 DEF Established, Gov!FitsUsage
  <2> QED
    BY <1>3, <2>3, ProceedKeeps DEF UpdateLimit
<1> QED
  BY <1>1, <1>2, <1>3

(* Each statement of ReserveAllocation keeps the invariant. *)
LEMMA ReserveStatements ==
  ASSUME Inv, NEW s \in Sessions, Debit(s) \/ InsertAllocation(s)
  PROVE  Inv'
<1> USE DEF PCs
<1>0. Established(s) /\ tx[s] \in Transactions
  BY DEF Inv, ChecksStayTrue, TypeOK
<1>1. CASE Debit(s)
  <2>1. CASE Rollback(s, "QuotaExceeded")
    BY <2>1, RollbackKeeps DEF Replies
  <2>2. CASE ~Rollback(s, "QuotaExceeded")
    <3> DEFINE t == [tx[s] EXCEPT !.pc = "insert", !.locks = @ \cup {"quota"},
                                  !.count = quota[tx[s].account].count + 1]
    <3>1. tx[s].account \in Accounts /\ quota[tx[s].account].count \in Nat
      BY <1>0, <1>1 DEF Debit, Established, Inv, TypeOK, Gov!TypeOK, Gov!QuotaRows
    <3>2. t \in Transactions
      <4>1. tx[s].locks \cup {"quota"} \in SUBSET {"quota", "alloc"}
        BY <1>0 DEF Transactions
      <4>2. quota[tx[s].account].count + 1 \in Nat
        BY <3>1
      <4> QED
        BY <1>0, <4>1, <4>2 DEF Transactions
    <3>3. tx' = [tx EXCEPT ![s] = t] /\ UNCHANGED <<quota, alloc, idem>>
      BY <1>1, <2>2 DEF Debit, Inv, TypeOK
    <3>4. Gov!HasRoom(tx[s].account) /\ QuotaRowFree(s) /\ tx[s].op = "Reserve"
            /\ tx[s].id \in Allocations
      BY <1>0, <1>1, <2>2 DEF Debit, Established
    <3>5. /\ tx'[s] = t
          /\ t.op = tx[s].op /\ t.account = tx[s].account /\ t.id = tx[s].id
          /\ t.limit = tx[s].limit /\ t.pc = "insert"
          /\ t.locks = tx[s].locks \cup {"quota"}
          /\ t.count = quota[tx[s].account].count + 1
      BY <1>0, <3>3 DEF Inv, TypeOK, Transactions
    <3> HIDE DEF t
    <3>6. Established(s)'
      BY <3>1, <3>3, <3>4, <3>5 DEF Established, Gov!HasRoom
    <3> QED
      BY <3>2, <3>3, <3>4, <3>5, <3>6, StatementKeeps
  <2> QED
    BY <2>1, <2>2
<1>2. CASE InsertAllocation(s)
  <2>1. CASE Rollback(s, "DriverError")
    BY <2>1, RollbackKeeps DEF Replies
  <2>2. CASE Gov!IsUnused(tx[s].id) /\ Proceed(s, "commit", {"alloc"})
    <3>1. /\ tx'[s].op = tx[s].op /\ tx'[s].pc = "commit"
          /\ tx'[s].account = tx[s].account /\ tx'[s].id = tx[s].id
          /\ tx'[s].limit = tx[s].limit /\ tx'[s].count = tx[s].count
          /\ tx'[s].locks = tx[s].locks \cup {"alloc"}
          /\ UNCHANGED <<quota, alloc, idem>>
      BY <2>2, ProceedFields
    <3>2. /\ tx[s].op = "Reserve" /\ tx[s].account \in Accounts
          /\ tx[s].id \in Allocations /\ "quota" \in tx[s].locks
          /\ Gov!HasRoom(tx[s].account)
          /\ tx[s].count = quota[tx[s].account].count + 1
      BY <1>0, <1>2 DEF InsertAllocation, Established
    <3>3. Established(s)'
      BY <2>2, <3>1, <3>2 DEF Established, Gov!HasRoom, Gov!IsUnused
    <3> QED
      BY <1>2, <2>2, <3>3, ProceedKeeps DEF InsertAllocation
  <2> QED
    BY <1>2, <2>1, <2>2 DEF InsertAllocation
<1> QED
  BY <1>1, <1>2

(* Each statement of ReleaseAllocation keeps the invariant. *)
LEMMA ReleaseStatements ==
  ASSUME Inv, NEW s \in Sessions,
         CasReleased(s) \/ LookupStatus(s) \/ Credit(s)
  PROVE  Inv'
<1> USE DEF PCs
<1>0. Established(s) /\ tx[s] \in Transactions
  BY DEF Inv, ChecksStayTrue, TypeOK
<1>1. CASE CasReleased(s)
  <2>1. CASE Proceed(s, "lookup", {})
    <3>1. /\ tx'[s].op = tx[s].op /\ tx'[s].pc = "lookup"
          /\ tx'[s].account = tx[s].account /\ tx'[s].id = tx[s].id
          /\ tx'[s].limit = tx[s].limit /\ tx'[s].count = tx[s].count
          /\ UNCHANGED <<quota, alloc, idem>>
      BY <2>1, ProceedFields
    <3>2. /\ tx[s].op = "Release" /\ tx[s].account \in Accounts
          /\ tx[s].id \in Allocations
      BY <1>0, <1>1 DEF CasReleased, Established
    <3>3. Established(s)'
      BY <3>1, <3>2 DEF Established
    <3> QED
      BY <2>1, <3>3, ProceedKeeps
  <2>2. CASE /\ Gov!IsHeldBy(tx[s].id, tx[s].account)
             /\ AllocationRowFree(s) /\ Proceed(s, "credit", {"alloc"})
    <3>1. /\ tx'[s].op = tx[s].op /\ tx'[s].pc = "credit"
          /\ tx'[s].account = tx[s].account /\ tx'[s].id = tx[s].id
          /\ tx'[s].limit = tx[s].limit /\ tx'[s].count = tx[s].count
          /\ tx'[s].locks = tx[s].locks \cup {"alloc"}
          /\ UNCHANGED <<quota, alloc, idem>>
      BY <2>2, ProceedFields
    <3>2. /\ tx[s].op = "Release" /\ tx[s].account \in Accounts
          /\ tx[s].id \in Allocations
      BY <1>0, <1>1 DEF CasReleased, Established
    <3>3. Established(s)'
      BY <2>2, <3>1, <3>2 DEF Established, Gov!IsHeldBy
    <3> QED
      BY <2>2, <3>3, ProceedKeeps
  <2> QED
    BY <1>1, <2>1, <2>2 DEF CasReleased
<1>2. CASE LookupStatus(s)
  <2>1. CASE Rollback(s, "AllocationNotFound") \/ Rollback(s, "AllocationState")
    BY <2>1, RollbackKeeps DEF Replies
  <2>2. CASE ~(Rollback(s, "AllocationNotFound") \/ Rollback(s, "AllocationState"))
    <3> DEFINE t == [tx[s] EXCEPT !.op = "Noop", !.pc = "commit"]
    <3>1. t \in Transactions
      BY <1>0 DEF Transactions, Ops
    <3>2. tx' = [tx EXCEPT ![s] = t] /\ UNCHANGED <<quota, alloc, idem>>
      BY <1>2, <2>2 DEF LookupStatus, Inv, TypeOK
    <3>3. tx[s].account \in Accounts
      BY <1>0, <1>2 DEF LookupStatus, Established
    <3>4. /\ tx'[s] = t /\ t.op = "Noop" /\ t.pc = "commit"
          /\ t.account = tx[s].account /\ t.id = tx[s].id /\ t.locks = tx[s].locks
      BY <1>0, <3>2 DEF Inv, TypeOK, Transactions
    <3> HIDE DEF t
    <3>5. Established(s)'
      BY <3>3, <3>4 DEF Established
    <3> QED
      BY <3>1, <3>2, <3>4, <3>5, StatementKeeps
  <2> QED
    BY <2>1, <2>2
<1>3. CASE Credit(s)
  <2>1. CASE Rollback(s, "QuotaCorrupt")
    BY <2>1, RollbackKeeps DEF Replies
  <2>2. CASE ~Rollback(s, "QuotaCorrupt")
    <3> DEFINE t == [tx[s] EXCEPT !.pc = "commit", !.locks = @ \cup {"quota"},
                                  !.count = quota[tx[s].account].count - 1]
    <3>1. tx[s].account \in Accounts /\ quota[tx[s].account].count \in Nat
      BY <1>0, <1>3 DEF Credit, Established, Inv, TypeOK, Gov!TypeOK, Gov!QuotaRows
    <3>2. CanCredit(tx[s].account) /\ QuotaRowFree(s)
      BY <1>3, <2>2 DEF Credit
    <3>3. /\ tx[s].op = "Release" /\ tx[s].id \in Allocations
          /\ "alloc" \in tx[s].locks /\ Gov!IsHeldBy(tx[s].id, tx[s].account)
      BY <1>0, <1>3 DEF Credit, Established
    <3>4. t \in Transactions
      <4>1. tx[s].locks \cup {"quota"} \in SUBSET {"quota", "alloc"}
        BY <1>0 DEF Transactions
      <4>2. quota[tx[s].account].count - 1 \in Nat
        BY <3>1, <3>2 DEF CanCredit
      <4> QED
        BY <1>0, <4>1, <4>2 DEF Transactions
    <3>5. tx' = [tx EXCEPT ![s] = t] /\ UNCHANGED <<quota, alloc, idem>>
      BY <1>3, <2>2 DEF Credit, Inv, TypeOK
    <3>6. /\ tx'[s] = t
          /\ t.op = tx[s].op /\ t.account = tx[s].account /\ t.id = tx[s].id
          /\ t.pc = "commit" /\ t.locks = tx[s].locks \cup {"quota"}
          /\ t.count = quota[tx[s].account].count - 1
      BY <1>0, <3>5 DEF Inv, TypeOK, Transactions
    <3> HIDE DEF t
    <3>7. Established(s)'
      BY <3>1, <3>2, <3>3, <3>5, <3>6 DEF Established, CanCredit, Gov!IsHeldBy
    <3> QED
      BY <3>2, <3>4, <3>5, <3>6, <3>7, StatementKeeps
  <2> QED
    BY <2>1, <2>2
<1> QED
  BY <1>1, <1>2, <1>3

(* At its commit a transaction performs the contract's operation: what it  *)
(* has established is that operation's guard.                              *)
LEMMA CommitIsOperation ==
  ASSUME Inv, NEW s \in Sessions, Commit(s)
  PROVE  [Gov!Next]_(Gov!vars)
<1> DEFINE a == tx[s].account
           id == tx[s].id
<1>0. Established(s) /\ a \in Accounts /\ quota[a].count \in Nat
  BY DEF Inv, ChecksStayTrue, Commit, Established, TypeOK, Gov!TypeOK, Gov!QuotaRows
<1>1. CASE tx[s].op = "SetQuota"
  <2>1. tx[s].limit \in Limits /\ Gov!SetQuota(a, tx[s].limit)
    BY <1>0, <1>1
    DEF Commit, CommittedQuota, CommittedAlloc, Established, Gov!SetQuota
  <2> QED
    BY <1>0, <2>1 DEF Gov!Next
<1>2. CASE tx[s].op = "Reserve"
  <2>1. id \in Allocations /\ Gov!ReserveAllocation(a, id)
    BY <1>0, <1>2
    DEF Commit, CommittedQuota, CommittedAlloc, Established, Gov!ReserveAllocation
  <2> QED
    BY <1>0, <2>1 DEF Gov!Next
<1>3. CASE tx[s].op = "Release"
  <2>1. id \in Allocations /\ Gov!ReleaseAllocation(a, id)
    BY <1>0, <1>3
    DEF Commit, CommittedQuota, CommittedAlloc, Established, CanCredit,
        Gov!ReleaseAllocation
  <2> QED
    BY <1>0, <2>1 DEF Gov!Next
<1>4. CASE tx[s].op \notin {"SetQuota", "Reserve", "Release"}
  BY <1>4 DEF Commit, CommittedQuota, CommittedAlloc, Gov!vars
<1> QED
  BY <1>1, <1>2, <1>3, <1>4

(* A commit writes only rows that no other transaction has locked. *)
LEMMA CommitSparesLockedRows ==
  ASSUME Inv, NEW s \in Sessions, Commit(s), NEW r \in Sessions \ {s}
  PROVE  /\ "quota" \in tx[r].locks /\ tx[r].account \in Accounts
              => quota'[tx[r].account] = quota[tx[r].account]
         /\ "alloc" \in tx[r].locks /\ tx[r].id \in Allocations
              => alloc'[tx[r].id] = alloc[tx[r].id]
<1>0. Established(s)
  BY DEF Inv, ChecksStayTrue
<1>1. tx[s].op \in {"SetQuota", "Reserve", "Release"} => "quota" \in tx[s].locks
  BY <1>0 DEF Commit, Established
<1>2. tx[s].op \in {"Reserve", "Release"} => "alloc" \in tx[s].locks
  BY <1>0 DEF Commit, Established
<1>3. ASSUME "quota" \in tx[r].locks, tx[r].account \in Accounts
      PROVE  quota'[tx[r].account] = quota[tx[r].account]
  <2>1. CASE tx[s].account = tx[r].account
    <3>1. "quota" \notin tx[s].locks
      BY <1>3, <2>1 DEF Inv, ChecksStayTrue, LocksExclusive, HoldsQuota
    <3> QED
      BY <1>1, <3>1 DEF Commit, CommittedQuota
  <2>2. CASE tx[s].account # tx[r].account
    BY <1>3, <2>2 DEF Commit, CommittedQuota, Inv, TypeOK, Gov!TypeOK
  <2> QED
    BY <2>1, <2>2
<1>4. ASSUME "alloc" \in tx[r].locks, tx[r].id \in Allocations
      PROVE  alloc'[tx[r].id] = alloc[tx[r].id]
  <2>1. CASE tx[s].id = tx[r].id
    <3>1. "alloc" \notin tx[s].locks
      BY <1>4, <2>1 DEF Inv, ChecksStayTrue, LocksExclusive, HoldsAllocation
    <3> QED
      BY <1>2, <3>1 DEF Commit, CommittedAlloc
  <2>2. CASE tx[s].id # tx[r].id
    BY <1>4, <2>2 DEF Commit, CommittedAlloc, Inv, TypeOK, Gov!TypeOK
  <2> QED
    BY <2>1, <2>2
<1> QED
  BY <1>3, <1>4

(* A commit keeps the invariant. *)
LEMMA CommitKeeps ==
  ASSUME Inv, NEW s \in Sessions, Commit(s)
  PROVE  Inv'
<1>1. PICK reply \in Replies : tx' = [tx EXCEPT ![s] = Returned(reply)]
  BY DEF Commit, Replies
<1>2. /\ tx' \in [Sessions -> Transactions]
      /\ LocksExclusive'
      /\ Established(s)'
  BY <1>1, ReturnKeeps
<1>3. Gov!TypeOK'
  <2>0. tx[s] \in Transactions
    BY DEF Inv, TypeOK
  <2>a. /\ quota \in [Accounts -> Gov!QuotaRows]
        /\ alloc \in [Allocations -> Gov!AllocationRows]
        /\ tx[s].limit \in Nat /\ tx[s].count \in Nat
        /\ tx[s].account \in Accounts \cup {NoAccount}
    BY <2>0 DEF Inv, TypeOK, Gov!TypeOK, Transactions
  <2>1. quota' \in [Accounts -> Gov!QuotaRows]
    <3>1. CASE tx[s].op = "SetQuota"
      <4> DEFINE a == tx[s].account
                 row == [quota[a] EXCEPT !.row = "present", !.limit = tx[s].limit]
      <4>1. quota' = [quota EXCEPT ![a] = row]
        BY <3>1 DEF Commit, CommittedQuota
      <4>2. a \in Accounts => row \in Gov!QuotaRows
        BY <2>a DEF Gov!QuotaRows
      <4> HIDE DEF row
      <4> QED
        BY <2>a, <4>1, <4>2
    <3>2. CASE tx[s].op \in {"Reserve", "Release"}
      <4>1. quota' = [quota EXCEPT ![tx[s].account].count = tx[s].count]
        BY <3>2 DEF Commit, CommittedQuota
      <4> QED
        BY <2>a, <4>1 DEF Gov!QuotaRows
    <3>3. CASE tx[s].op \notin {"SetQuota", "Reserve", "Release"}
      BY <2>a, <3>3 DEF Commit, CommittedQuota
    <3> QED
      BY <3>1, <3>2, <3>3
  <2>2. alloc' \in [Allocations -> Gov!AllocationRows]
    <3>1. CASE tx[s].op = "Reserve"
      BY <2>a, <3>1 DEF Commit, CommittedAlloc, Gov!AllocationRows
    <3>2. CASE tx[s].op = "Release"
      <4> DEFINE id == tx[s].id
                 row == [alloc[id] EXCEPT !.status = "RELEASED"]
      <4>1. alloc' = [alloc EXCEPT ![id] = row]
        BY <3>2 DEF Commit, CommittedAlloc
      <4>2. id \in Allocations => row \in Gov!AllocationRows
        BY <2>a DEF Gov!AllocationRows
      <4> HIDE DEF row
      <4> QED
        BY <2>a, <4>1, <4>2
    <3>3. CASE tx[s].op \notin {"Reserve", "Release"}
      BY <2>a, <3>3 DEF Commit, CommittedAlloc
    <3> QED
      BY <3>1, <3>2, <3>3
  <2> QED
    BY <2>1, <2>2 DEF Inv, TypeOK, Gov!TypeOK, Commit
<1>4. ASSUME NEW r \in Sessions \ {s}
      PROVE  Established(r)'
  <2>1. tx'[r] = tx[r] /\ Established(r)
    BY <1>1 DEF Inv, TypeOK, ChecksStayTrue
  <2>2. /\ "quota" \in tx[r].locks /\ tx[r].account \in Accounts
              => quota'[tx[r].account] = quota[tx[r].account]
        /\ "alloc" \in tx[r].locks /\ tx[r].id \in Allocations
              => alloc'[tx[r].id] = alloc[tx[r].id]
    BY CommitSparesLockedRows
  <2>3. CASE tx[r].op = "SetQuota"
    BY <2>1, <2>2, <2>3 DEF Established, Gov!FitsUsage
  <2>4. CASE tx[r].op = "Reserve"
    BY <2>1, <2>2, <2>4 DEF Established, Gov!HasRoom, Gov!IsUnused
  <2>5. CASE tx[r].op = "Release"
    <3>1. ASSUME tx[r].pc \in {"credit", "commit"}
          PROVE  "alloc" \in tx[r].locks /\ Gov!IsHeldBy(tx[r].id, tx[r].account)'
      BY <2>1, <2>2, <2>5, <3>1 DEF Established, Gov!IsHeldBy
    <3>2. ASSUME tx[r].pc = "commit"
          PROVE  /\ "quota" \in tx[r].locks
                 /\ CanCredit(tx[r].account)'
                 /\ tx[r].count = quota'[tx[r].account].count - 1
      BY <2>1, <2>2, <2>5, <3>2 DEF Established, CanCredit
    <3> QED
      BY SMTT(30), <2>1, <2>5, <3>1, <3>2 DEF Established, CanCredit, Gov!IsHeldBy
  <2>6. CASE tx[r].op \notin {"SetQuota", "Reserve", "Release"}
    BY <2>1, <2>6 DEF Established
  <2> QED
    BY <2>3, <2>4, <2>5, <2>6
<1> QED
  BY <1>2, <1>3, <1>4 DEF Inv, TypeOK, ChecksStayTrue

(* The single-statement idempotency insert keeps the invariant. *)
LEMMA InsertIdempotencyKeeps ==
  ASSUME Inv, NEW s \in Sessions, NEW k \in IdemKeys, NEW c \in Claims,
         InsertIdempotencyPending(s, k, c)
  PROVE  Inv'
<1>1. PICK reply \in Replies : tx' = [tx EXCEPT ![s] = Returned(reply)]
  BY DEF InsertIdempotencyPending, Replies
<1>2. /\ tx' \in [Sessions -> Transactions]
      /\ LocksExclusive'
      /\ Established(s)'
  BY <1>1, ReturnKeeps
<1>3. Gov!TypeOK'
  BY DEF InsertIdempotencyPending, Inv, TypeOK, Gov!TypeOK
<1>4. \A r \in Sessions \ {s} : tx'[r] = tx[r]
  BY <1>1 DEF Inv, TypeOK
<1>5. \A r \in Sessions : Established(r)'
  BY <1>2, <1>4, Bystander DEF Inv, ChecksStayTrue, InsertIdempotencyPending
<1> QED
  BY <1>2, <1>3, <1>5 DEF Inv, TypeOK, ChecksStayTrue

(* Every step keeps the invariant. *)
LEMMA InvInductive == Inv /\ [Next]_vars => Inv'
<1> SUFFICES ASSUME Inv, [Next]_vars PROVE Inv'
  OBVIOUS
<1>1. ASSUME NEW s \in Sessions, NEW a \in Accounts, NEW limit \in Limits,
             SetQuota(s, a, limit)
      PROVE  Inv'
  BY <1>1, BeginKeeps, LimitsAreNaturals DEF SetQuota, Ops, PCs
<1>2. ASSUME NEW s \in Sessions, NEW a \in Accounts, NEW id \in Allocations,
             ReserveAllocation(s, a, id)
      PROVE  Inv'
  BY <1>2, BeginKeeps DEF ReserveAllocation, Ops, PCs
<1>3. ASSUME NEW s \in Sessions, NEW a \in Accounts, NEW id \in Allocations,
             ReleaseAllocation(s, a, id)
      PROVE  Inv'
  BY <1>3, BeginKeeps DEF ReleaseAllocation, Ops, PCs
<1>4. ASSUME NEW s \in Sessions, Statement(s)
      PROVE  Inv'
  BY <1>4, SetQuotaStatements, ReserveStatements, ReleaseStatements, CommitKeeps
  DEF Statement
<1>5. ASSUME NEW s \in Sessions, StatementFails(s) \/ DeadlockVictim(s)
      PROVE  Inv'
  BY <1>5, RollbackKeeps DEF StatementFails, DeadlockVictim, Replies
<1>6. CASE UNCHANGED vars
  <2>1. TypeOK'
    BY <1>6 DEF vars, Inv, TypeOK, Gov!TypeOK
  <2>2. LocksExclusive'
    BY <1>6 DEF vars, Inv, ChecksStayTrue, LocksExclusive, HoldsQuota, HoldsAllocation
  <2>3. \A r \in Sessions : Established(r)'
    BY <1>6, Bystander DEF vars, Inv, ChecksStayTrue
  <2> QED
    BY <2>1, <2>2, <2>3 DEF Inv, ChecksStayTrue
<1> QED
  BY <1>1, <1>2, <1>3, <1>4, <1>5, <1>6, InsertIdempotencyKeeps DEF Next

(* Empty tables and idle sessions satisfy the invariant. *)
LEMMA InvInitially == Init => Inv
<1> SUFFICES ASSUME Init PROVE Inv
  OBVIOUS
<1>1. TypeOK
  BY DEF Init, TypeOK, Gov!Init, Gov!TypeOK, Gov!QuotaRows, Gov!AllocationRows,
         Returned, Transactions, Ops, PCs, Replies
<1>2. ChecksStayTrue
  BY DEF Init, Returned, ChecksStayTrue, LocksExclusive, HoldsQuota,
         HoldsAllocation, Established
<1> QED
  BY <1>1, <1>2 DEF Inv

(* In every behaviour locks are exclusive and no check a transaction made  *)
(* is stale when the transaction acts on it.                               *)
THEOREM ChecksAreNeverStale == Spec => []ChecksStayTrue
<1>1. Inv => ChecksStayTrue
  BY DEF Inv
<1> QED
  BY InvInitially, InvInductive, <1>1, PTL DEF Spec

(* A session that waits for a quota row holds no lock of that row, so it   *)
(* cannot be what another session waits for over the same row: somebody in *)
(* a circle of waiting sessions waits for a ledger row.                    *)
LEMMA QuotaWaitsDoNotChain ==
  ASSUME Inv, NEW c \in Sessions, NEW d \in Sessions, NEW e \in Sessions,
         WaitsFor(c, d), WaitsForQuota(c, d), WaitsFor(d, e)
  PROVE  WaitsForAllocation(d, e)
<1> SUFFICES ASSUME WaitsForQuota(d, e), d # e PROVE FALSE
  BY DEF WaitsFor
<1>1. tx[d].pc # "idle"
  BY DEF WaitsForQuota
<1>2. tx[d].account \in Accounts
  BY <1>1 DEF Inv, ChecksStayTrue, Established
<1>3. HoldsQuota(d, tx[d].account) /\ HoldsQuota(e, tx[d].account)
  BY DEF WaitsForQuota, HoldsQuota
<1> QED
  BY <1>2, <1>3 DEF Inv, ChecksStayTrue, LocksExclusive

(* Waiting for a ledger row means being about the id of its holder. *)
LEMMA AllocationWaitSharesId ==
  ASSUME Inv, NEW c \in Sessions, NEW d \in Sessions, WaitsForAllocation(c, d)
  PROVE  tx[c].id = tx[d].id /\ tx[c].id \in Allocations
<1>1. tx[c].pc \in {"insert", "cas"} /\ tx[d].id = tx[c].id
  BY DEF WaitsForAllocation, HoldsAllocation
<1>2. tx[c].op \in {"Reserve", "Release"}
  BY <1>1 DEF Inv, ChecksStayTrue, Established
<1> QED
  BY <1>1, <1>2 DEF Inv, ChecksStayTrue, Established

(* A circle of transactions that wait on each other, of any length, has    *)
(* two that are about the same allocation id: statements of SetQuota, and  *)
(* reserves and releases of distinct ids, never deadlock.                  *)
THEOREM DeadlocksShareAnId == Spec => []DeadlockNeedsSharedId
<1>1. Inv => DeadlockNeedsSharedId
  <2> SUFFICES ASSUME Inv, NEW C \in SUBSET Sessions, C # {}, WaitOnEachOther(C)
               PROVE  \E c, d \in C : /\ c # d /\ tx[c].id = tx[d].id
                                      /\ tx[c].id \in Allocations
    BY DEF DeadlockNeedsSharedId
  <2>1. PICK c \in C, d \in C : WaitsFor(c, d)
    BY DEF WaitOnEachOther
  <2>2. PICK e \in C : WaitsFor(d, e)
    BY DEF WaitOnEachOther
  <2>3. CASE WaitsForAllocation(c, d)
    BY <2>1, <2>3, AllocationWaitSharesId DEF WaitsFor
  <2>4. CASE WaitsForQuota(c, d)
    <3>1. WaitsForAllocation(d, e)
      BY <2>1, <2>2, <2>4, QuotaWaitsDoNotChain
    <3> QED
      BY <2>2, <3>1, AllocationWaitSharesId DEF WaitsFor
  <2> QED
    BY <2>1, <2>3, <2>4 DEF WaitsFor
<1> QED
  BY InvInitially, InvInductive, <1>1, PTL DEF Spec

(* A step of any session is a step of the contract or leaves its tables.   *)
LEMMA StepRefines == Inv /\ [Next]_vars => [Gov!Next]_(Gov!vars)
<1> SUFFICES ASSUME Inv, [Next]_vars PROVE [Gov!Next]_(Gov!vars)
  OBVIOUS
<1>1. ASSUME NEW s \in Sessions, NEW k \in IdemKeys, NEW c \in Claims,
             InsertIdempotencyPending(s, k, c)
      PROVE  [Gov!Next]_(Gov!vars)
  <2>1. CASE idem[k] = NoClaim
    <3>1. Gov!InsertIdempotencyPending(k, c)
      BY <1>1, <2>1 DEF InsertIdempotencyPending, Gov!InsertIdempotencyPending
    <3> QED
      BY <3>1 DEF Gov!Next
  <2>2. CASE idem[k] # NoClaim
    BY <1>1, <2>2 DEF InsertIdempotencyPending, Gov!vars, Inv, TypeOK, Gov!TypeOK
  <2> QED
    BY <2>1, <2>2
<1>2. ASSUME NEW s \in Sessions, Commit(s)
      PROVE  [Gov!Next]_(Gov!vars)
  BY <1>2, CommitIsOperation
<1>3. CASE UNCHANGED <<quota, alloc, idem>>
  BY <1>3 DEF Gov!vars
<1>4. ASSUME NEW s \in Sessions, Statement(s), ~Commit(s)
      PROVE  UNCHANGED <<quota, alloc, idem>>
  BY <1>4 DEF Statement, EnsureRow, SelectForUpdate, UpdateLimit, Debit,
     InsertAllocation, CasReleased, LookupStatus, Credit, Proceed, Rollback
<1>5. ASSUME NEW s \in Sessions,
             \/ \E a \in Accounts, limit \in Limits : SetQuota(s, a, limit)
             \/ \E a \in Accounts, id \in Allocations :
                   ReserveAllocation(s, a, id) \/ ReleaseAllocation(s, a, id)
             \/ StatementFails(s) \/ DeadlockVictim(s)
      PROVE  UNCHANGED <<quota, alloc, idem>>
  BY <1>5 DEF SetQuota, ReserveAllocation, ReleaseAllocation, Begin,
     StatementFails, DeadlockVictim, Rollback
<1>6. CASE UNCHANGED vars
  BY <1>6 DEF vars, Gov!vars
<1> QED
  BY <1>1, <1>2, <1>3, <1>4, <1>5, <1>6 DEF Next

(* The SQL transactions implement the governance contract. *)
THEOREM TransactionsAreSerializable == Spec => Serializable
<1>1. Init => Gov!Init
  BY DEF Init
<1> QED
  BY <1>1, InvInitially, InvInductive, StepRefines, PTL
  DEF Spec, Serializable, Gov!Spec

(* The committed counter counts the committed RESERVED rows. *)
Balance == \A a \in Accounts : quota[a].count = Cardinality(Gov!Held(a))

(* An operation of the contract keeps the balance of the tables: a reserve *)
(* adds, and a release removes, one element of one account's held set.     *)
LEMMA BalanceKept ==
  Gov!TypeOK /\ Balance /\ [Gov!Next]_(Gov!vars) => Balance'
<1> SUFFICES ASSUME Gov!TypeOK, Balance, [Gov!Next]_(Gov!vars), NEW b \in Accounts
             PROVE  quota'[b].count = Cardinality(Gov!Held(b)')
  BY DEF Balance, Gov!Held
<1>0. /\ quota[b].count = Cardinality(Gov!Held(b))
      /\ quota[b].count \in Nat
      /\ IsFiniteSet(Gov!Held(b))
  BY AllocationsFinite, FS_Subset DEF Balance, Gov!TypeOK, Gov!QuotaRows, Gov!Held
<1>1. ASSUME NEW a \in Accounts, NEW id \in Allocations,
             Gov!ReserveAllocation(a, id)
      PROVE  quota'[b].count = Cardinality(Gov!Held(b)')
  <2>1. quota'[b].count = IF b = a THEN quota[b].count + 1 ELSE quota[b].count
    BY <1>1 DEF Gov!ReserveAllocation, Gov!TypeOK, Gov!QuotaRows
  <2>2. /\ id \notin Gov!Held(a)
        /\ Gov!Held(b)' = IF b = a THEN Gov!Held(b) \cup {id} ELSE Gov!Held(b)
    BY <1>1 DEF Gov!ReserveAllocation, Gov!IsUnused, Gov!Held, Gov!TypeOK,
                Gov!AllocationRows
  <2>3. b = a => Cardinality(Gov!Held(b) \cup {id}) = Cardinality(Gov!Held(b)) + 1
    BY <1>0, <2>2, FS_AddElement
  <2> QED
    BY <1>0, <2>1, <2>2, <2>3
<1>2. ASSUME NEW a \in Accounts, NEW id \in Allocations,
             Gov!ReleaseAllocation(a, id)
      PROVE  quota'[b].count = Cardinality(Gov!Held(b)')
  <2>1. quota'[b].count = IF b = a THEN quota[b].count - 1 ELSE quota[b].count
    BY <1>2 DEF Gov!ReleaseAllocation, Gov!TypeOK, Gov!QuotaRows
  <2>2. /\ id \in Gov!Held(a)
        /\ Gov!Held(b)' = IF b = a THEN Gov!Held(b) \ {id} ELSE Gov!Held(b)
    BY <1>2 DEF Gov!ReleaseAllocation, Gov!IsHeldBy, Gov!Held, Gov!TypeOK,
                Gov!AllocationRows
  <2>3. b = a => Cardinality(Gov!Held(b) \ {id}) = Cardinality(Gov!Held(b)) - 1
    BY <1>0, <2>2, FS_RemoveElement
  <2> QED
    BY <1>0, <2>1, <2>2, <2>3
<1>3. ASSUME NEW a \in Accounts, NEW limit \in Limits, Gov!SetQuota(a, limit)
      PROVE  quota'[b].count = Cardinality(Gov!Held(b)')
  <2>1. quota'[b].count = quota[b].count
    BY <1>3 DEF Gov!SetQuota, Gov!TypeOK, Gov!QuotaRows
  <2>2. Gov!Held(b)' = Gov!Held(b)
    BY <1>3 DEF Gov!SetQuota, Gov!Held
  <2> QED
    BY <1>0, <2>1, <2>2
<1>4. CASE UNCHANGED <<quota, alloc>>
  BY <1>0, <1>4 DEF Gov!Held
<1> QED
  BY <1>1, <1>2, <1>3, <1>4
  DEF Gov!Next, Gov!vars, Gov!InsertIdempotencyPending

(* A committed RESERVED row, which a release has locked when it comes to   *)
(* its decrement, is counted, so there is something to decrement.          *)
LEMMA HeldIsCounted ==
  ASSUME Gov!TypeOK, Balance, NEW a \in Accounts, NEW id \in Allocations,
         Gov!IsHeldBy(id, a)
  PROVE  quota[a].count > 0
<1>1. id \in Gov!Held(a)
  BY DEF Gov!IsHeldBy, Gov!Held
<1>2. IsFiniteSet(Gov!Held(a))
  BY AllocationsFinite, FS_Subset DEF Gov!Held
<1>3. Cardinality(Gov!Held(a)) # 0
  BY <1>1, <1>2, FS_EmptySet
<1> QED
  BY <1>3 DEF Balance, Gov!TypeOK, Gov!QuotaRows

(* Only an account with a quota row has anything in use. *)
AbsentIsUnused == \A a \in Accounts : quota[a].row = "absent" => quota[a].count = 0

(* The contract creates no usage without a quota row. *)
LEMMA AbsentKept ==
  Gov!TypeOK /\ AbsentIsUnused /\ [Gov!Next]_(Gov!vars) => AbsentIsUnused'
<1> SUFFICES ASSUME Gov!TypeOK, AbsentIsUnused, [Gov!Next]_(Gov!vars)
             PROVE  AbsentIsUnused'
  OBVIOUS
<1> USE DEF AbsentIsUnused, Gov!TypeOK, Gov!QuotaRows
<1>1. ASSUME NEW a \in Accounts, NEW limit \in Limits, Gov!SetQuota(a, limit)
      PROVE  AbsentIsUnused'
  BY <1>1 DEF Gov!SetQuota
<1>2. ASSUME NEW a \in Accounts, NEW id \in Allocations,
             Gov!ReserveAllocation(a, id)
      PROVE  AbsentIsUnused'
  BY <1>2 DEF Gov!ReserveAllocation, Gov!HasRoom
<1>3. ASSUME NEW a \in Accounts, NEW id \in Allocations,
             Gov!ReleaseAllocation(a, id)
      PROVE  AbsentIsUnused'
  BY <1>3 DEF Gov!ReleaseAllocation
<1>4. CASE UNCHANGED <<quota, alloc>>
  BY <1>4
<1> QED
  BY <1>1, <1>2, <1>3, <1>4
  DEF Gov!Next, Gov!vars, Gov!InsertIdempotencyPending

(* The SQL store never finds its ledger inconsistent: ErrQuotaCorrupt is   *)
(* unreachable whatever calls run concurrently, fail or lose their reply.  *)
THEOREM LedgerIsNeverCorrupt == Spec => []CreditNeverMisses
<1> DEFINE J == Inv /\ Balance /\ AbsentIsUnused
<1>1. Init => J
  <2> SUFFICES ASSUME Init PROVE J
    OBVIOUS
  <2>1. \A a \in Accounts : Gov!Held(a) = {} /\ quota[a].count = 0
    BY DEF Init, Gov!Init, Gov!Held
  <2>2. Balance /\ AbsentIsUnused
    BY <2>1, FS_EmptySet DEF Balance, AbsentIsUnused
  <2> QED
    BY <2>2, InvInitially
<1>2. J /\ [Next]_vars => J'
  <2> SUFFICES ASSUME J, [Next]_vars PROVE J'
    OBVIOUS
  <2>1. Gov!TypeOK
    BY DEF Inv, TypeOK
  <2> QED
    BY <2>1, InvInductive, StepRefines, BalanceKept, AbsentKept
<1>3. J => CreditNeverMisses
  <2> SUFFICES ASSUME J, NEW s \in Sessions, tx[s].pc = "credit"
               PROVE  CanCredit(tx[s].account)
    BY DEF CreditNeverMisses
  <2>1. /\ tx[s].account \in Accounts /\ tx[s].id \in Allocations
        /\ Gov!IsHeldBy(tx[s].id, tx[s].account)
    BY DEF Inv, ChecksStayTrue, Established
  <2>2. Gov!TypeOK
    BY DEF Inv, TypeOK
  <2>3. quota[tx[s].account].count > 0
    BY <2>1, <2>2, HeldIsCounted
  <2> QED
    BY <2>1, <2>2, <2>3 DEF AbsentIsUnused, CanCredit, Gov!TypeOK, Gov!QuotaRows
<1> QED
  BY <1>1, <1>2, <1>3, PTL DEF Spec
=============================================================================
