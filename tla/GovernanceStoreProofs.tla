----------------------- MODULE GovernanceStoreProofs -----------------------
(***************************************************************************)
(* The governance contract keeps the ledger balanced and within the limit  *)
(* for any number of accounts, allocations and limits.  The balance is     *)
(* inductive together with the types; the limit needs no more than types.  *)
(*                                                                         *)
(* The second part is about the in-memory store, which mirrors the SQL     *)
(* store for any accounts, allocations and limits.  The tables agree only  *)
(* because the contract keeps the ledger balanced: a reserved row is what  *)
(* makes the counter positive, so neither store ever finds it corrupt.     *)
(***************************************************************************)
EXTENDS MirroredStores, FiniteSetTheorems, TLAPS

(* Types, the balance of counter and ledger, and the limit, together.      *)
LedgerInv == TypeOK /\ LedgerBalanced /\ WithinLimit

(* The allocations of an account are finitely many, so they can be counted *)
LEMMA HeldFinite ==
  ASSUME NEW a \in Accounts
  PROVE  IsFiniteSet(Held(a))
BY AllocationsFinite, FS_Subset DEF Held

(* A step of SetQuota, reserve, release or the idempotency insert keeps    *)
(* every column of the three tables in its type.                           *)
LEMMA TypeInductive ==
  TypeOK /\ [Next]_vars => TypeOK'
<1> USE DEF TypeOK, QuotaRows, AllocationRows
<1> SUFFICES ASSUME TypeOK, [Next]_vars PROVE TypeOK'
  OBVIOUS
<1>1. ASSUME NEW a \in Accounts, NEW limit \in Limits, SetQuota(a, limit)
      PROVE  TypeOK'
  <2> DEFINE row == [quota[a] EXCEPT !.row = "present", !.limit = limit]
  <2>1. row \in QuotaRows
    BY LimitsAreNaturals
  <2>2. quota' = [quota EXCEPT ![a] = row] /\ UNCHANGED <<alloc, idem>>
    BY <1>1 DEF SetQuota
  <2> HIDE DEF row, QuotaRows, AllocationRows
  <2> QED
    BY <2>1, <2>2
<1>2. ASSUME NEW a \in Accounts, NEW id \in Allocations, ReserveAllocation(a, id)
      PROVE  TypeOK'
  BY <1>2 DEF ReserveAllocation
<1>3. ASSUME NEW a \in Accounts, NEW id \in Allocations, ReleaseAllocation(a, id)
      PROVE  TypeOK'
  BY <1>3 DEF ReleaseAllocation
<1>4. ASSUME NEW k \in IdemKeys, NEW c \in Claims, InsertIdempotencyPending(k, c)
      PROVE  TypeOK'
  BY <1>4 DEF InsertIdempotencyPending
<1>5. CASE UNCHANGED vars
  BY <1>5 DEF vars
<1> QED
  BY <1>1, <1>2, <1>3, <1>4, <1>5 DEF Next

(* A reserve adds its id to the account's held set and to no other one.    *)
LEMMA ReserveAddsOne ==
  ASSUME TypeOK, NEW a \in Accounts, NEW id \in Allocations,
         ReserveAllocation(a, id), NEW b \in Accounts
  PROVE  /\ id \notin Held(a)
         /\ Held(b)' = IF b = a THEN Held(b) \cup {id} ELSE Held(b)
BY DEF ReserveAllocation, IsUnused, Held, TypeOK, AllocationRows

(* A release takes its id out of the account's held set and of no other.   *)
LEMMA ReleaseRemovesOne ==
  ASSUME TypeOK, NEW a \in Accounts, NEW id \in Allocations,
         ReleaseAllocation(a, id), NEW b \in Accounts
  PROVE  /\ id \in Held(a)
         /\ Held(b)' = IF b = a THEN Held(b) \ {id} ELSE Held(b)
BY DEF ReleaseAllocation, IsHeldBy, Held, TypeOK, AllocationRows

(* Whatever operation commits, the counter of every account still counts   *)
(* the RESERVED rows of that account.                                      *)
LEMMA BalanceInductive ==
  TypeOK /\ LedgerBalanced /\ [Next]_vars => LedgerBalanced'
<1> SUFFICES ASSUME TypeOK, LedgerBalanced, [Next]_vars, NEW b \in Accounts
             PROVE  quota'[b].count = Cardinality(Held(b)')
  BY DEF LedgerBalanced, Held
<1>0. /\ quota[b].count = Cardinality(Held(b))
      /\ quota[b].count \in Nat
      /\ IsFiniteSet(Held(b))
  BY HeldFinite DEF LedgerBalanced, TypeOK, QuotaRows
<1>1. ASSUME NEW a \in Accounts, NEW limit \in Limits, SetQuota(a, limit)
      PROVE  quota'[b].count = Cardinality(Held(b)')
  <2>1. quota'[b].count = quota[b].count
    BY <1>1 DEF SetQuota, TypeOK, QuotaRows
  <2>2. Held(b)' = Held(b)
    BY <1>1 DEF SetQuota, Held
  <2> QED
    BY <1>0, <2>1, <2>2
<1>2. ASSUME NEW a \in Accounts, NEW id \in Allocations, ReserveAllocation(a, id)
      PROVE  quota'[b].count = Cardinality(Held(b)')
  <2>1. quota'[b].count = IF b = a THEN quota[b].count + 1 ELSE quota[b].count
    BY <1>2 DEF ReserveAllocation, TypeOK, QuotaRows
  <2>2. /\ id \notin Held(a)
        /\ Held(b)' = IF b = a THEN Held(b) \cup {id} ELSE Held(b)
    BY <1>2, ReserveAddsOne
  <2>3. b = a => Cardinality(Held(b) \cup {id}) = Cardinality(Held(b)) + 1
    BY <1>0, <2>2, FS_AddElement
  <2> QED
    BY <1>0, <2>1, <2>2, <2>3
<1>3. ASSUME NEW a \in Accounts, NEW id \in Allocations, ReleaseAllocation(a, id)
      PROVE  quota'[b].count = Cardinality(Held(b)')
  <2>1. quota'[b].count = IF b = a THEN quota[b].count - 1 ELSE quota[b].count
    BY <1>3 DEF ReleaseAllocation, TypeOK, QuotaRows
  <2>2. /\ id \in Held(a)
        /\ Held(b)' = IF b = a THEN Held(b) \ {id} ELSE Held(b)
    BY <1>3, ReleaseRemovesOne
  <2>3. b = a => Cardinality(Held(b) \ {id}) = Cardinality(Held(b)) - 1
    BY <1>0, <2>2, FS_RemoveElement
  <2> QED
    BY <1>0, <2>1, <2>2, <2>3
<1>4. ASSUME NEW k \in IdemKeys, NEW c \in Claims, InsertIdempotencyPending(k, c)
      PROVE  quota'[b].count = Cardinality(Held(b)')
  BY <1>0, <1>4 DEF InsertIdempotencyPending, Held
<1>5. CASE UNCHANGED vars
  BY <1>0, <1>5 DEF vars, Held
<1> QED
  BY <1>1, <1>2, <1>3, <1>4, <1>5 DEF Next

(* The limit holds after a lowered limit (FitsUsage) and after the last    *)
(* free slot is taken (HasRoom).                                           *)
LEMMA LimitInductive ==
  TypeOK /\ WithinLimit /\ [Next]_vars => WithinLimit'
<1> USE DEF TypeOK, QuotaRows, WithinLimit
<1> SUFFICES ASSUME TypeOK, WithinLimit, [Next]_vars PROVE WithinLimit'
  OBVIOUS
<1>1. ASSUME NEW a \in Accounts, NEW limit \in Limits, SetQuota(a, limit)
      PROVE  WithinLimit'
  BY <1>1, LimitsAreNaturals DEF SetQuota, FitsUsage
<1>2. ASSUME NEW a \in Accounts, NEW id \in Allocations, ReserveAllocation(a, id)
      PROVE  WithinLimit'
  BY <1>2 DEF ReserveAllocation, HasRoom
<1>3. ASSUME NEW a \in Accounts, NEW id \in Allocations, ReleaseAllocation(a, id)
      PROVE  WithinLimit'
  BY <1>3 DEF ReleaseAllocation
<1>4. CASE \E k \in IdemKeys, c \in Claims : InsertIdempotencyPending(k, c)
  BY <1>4 DEF InsertIdempotencyPending
<1>5. CASE UNCHANGED vars
  BY <1>5 DEF vars
<1> QED
  BY <1>1, <1>2, <1>3, <1>4, <1>5 DEF Next

(* The empty tables are typed, balanced and within every limit. *)
LEMMA InitLedger == Init => LedgerInv
<1> SUFFICES ASSUME Init PROVE LedgerInv
  OBVIOUS
<1>1. TypeOK /\ WithinLimit
  BY DEF Init, TypeOK, QuotaRows, AllocationRows, WithinLimit
<1>2. \A a \in Accounts : Held(a) = {}
  BY DEF Init, Held
<1>3. LedgerBalanced
  BY <1>2, FS_EmptySet DEF Init, LedgerBalanced
<1> QED
  BY <1>1, <1>3 DEF LedgerInv

(* In every behaviour of the governance store current_count equals the     *)
(* number of RESERVED rows of its account.                                 *)
THEOREM LedgerStaysBalanced == Spec => []LedgerBalanced
<1>1. LedgerInv /\ [Next]_vars => LedgerInv'
  BY TypeInductive, BalanceInductive, LimitInductive DEF LedgerInv
<1>2. LedgerInv => LedgerBalanced
  BY DEF LedgerInv
<1> QED
  BY InitLedger, <1>1, <1>2, PTL DEF Spec

(* In every behaviour no account uses more slots than its limit.           *)
THEOREM LimitIsNeverExceeded == Spec => []WithinLimit
<1>1. LedgerInv /\ [Next]_vars => LedgerInv'
  BY TypeInductive, BalanceInductive, LimitInductive DEF LedgerInv
<1>2. LedgerInv => WithinLimit
  BY DEF LedgerInv
<1> QED
  BY InitLedger, <1>1, <1>2, PTL DEF Spec

(* In every behaviour the tables hold values of their types.               *)
THEOREM TypeCorrect == Spec => []TypeOK
<1>1. Init => TypeOK
  BY InitLedger DEF LedgerInv
<1> QED
  BY <1>1, TypeInductive, PTL DEF Spec

(* An allocation row is reserved once, for one account, and released once. *)
THEOREM AllocationsAreOneShot == Spec => AllocationIsOneShot
<1> DEFINE OneShot ==
      \A id \in Allocations :
        \/ alloc'[id] = alloc[id]
        \/ alloc[id].status = "ABSENT" /\ alloc'[id].status = "RESERVED"
        \/ /\ alloc[id].status = "RESERVED" /\ alloc'[id].status = "RELEASED"
           /\ alloc'[id].account = alloc[id].account
<1>1. TypeOK /\ [Next]_vars => [OneShot]_vars
  <2> SUFFICES ASSUME TypeOK, Next PROVE OneShot
    OBVIOUS
  <2> USE DEF TypeOK, AllocationRows
  <2>1. ASSUME NEW a \in Accounts, NEW limit \in Limits, SetQuota(a, limit)
        PROVE  OneShot
    BY <2>1 DEF SetQuota
  <2>2. ASSUME NEW a \in Accounts, NEW x \in Allocations, ReserveAllocation(a, x)
        PROVE  OneShot
    BY <2>2 DEF ReserveAllocation, IsUnused
  <2>3. ASSUME NEW a \in Accounts, NEW x \in Allocations, ReleaseAllocation(a, x)
        PROVE  OneShot
    BY <2>3 DEF ReleaseAllocation, IsHeldBy
  <2>4. ASSUME NEW k \in IdemKeys, NEW c \in Claims, InsertIdempotencyPending(k, c)
        PROVE  OneShot
    BY <2>4 DEF InsertIdempotencyPending
  <2> QED
    BY <2>1, <2>2, <2>3, <2>4 DEF Next
<1> QED
  BY <1>1, TypeCorrect, PTL DEF Spec, AllocationIsOneShot
----------------------------------------------------------------------------
(* The in-memory store. *)

(* An account without a quota row has neither a limit nor a usage. *)
UnconfiguredIsEmpty ==
  \A a \in Accounts :
    quota[a].row = "absent" => quota[a].limit = 0 /\ quota[a].count = 0

(* Exactly the rows that exist name an account. *)
RowsAreOwned ==
  \A id \in Allocations : alloc[id].account \in Accounts <=> ~IsUnused(id)

MirrorInv ==
  /\ LedgerInv /\ UnconfiguredIsEmpty /\ RowsAreOwned
  /\ TablesAgree /\ RepliesAgreeOnceConfigured

(* What LedgerInv says of one account: its row is typed, and a reserved    *)
(* allocation is counted.                                                  *)
LEMMA HeldIsPaid ==
  ASSUME LedgerInv, NEW a \in Accounts, NEW id \in Allocations, IsHeldBy(id, a)
  PROVE  quota[a].count > 0
<1>1. id \in Held(a) /\ IsFiniteSet(Held(a))
  BY HeldFinite DEF IsHeldBy, Held
<1>2. Held(a) # {} /\ quota[a].count = Cardinality(Held(a)) /\ quota[a].count \in Nat
  BY <1>1 DEF LedgerInv, LedgerBalanced, TypeOK, QuotaRows
<1> QED
  BY <1>1, <1>2, FS_EmptySet

(* SetQuota: refused by both stores, or the same limit in both.  A refused *)
(* call inserts no row in memory either: without a row nothing is in use.  *)
LEMMA SetQuotaMirrors ==
  ASSUME MirrorInv, NEW a \in Accounts, NEW limit \in Limits, BothSetQuota(a, limit)
  PROVE  /\ [Next]_vars /\ UnconfiguredIsEmpty' /\ RowsAreOwned'
         /\ TablesAgree' /\ RepliesAgreeOnceConfigured'
<1> USE DEF MirrorInv, LedgerInv, TypeOK, QuotaRows
<1>1. /\ limit \in Nat /\ quota[a] \in QuotaRows
      /\ quotas = quota
      /\ quota[a].row = "absent" => quota[a].count = 0
  BY LimitsAreNaturals DEF TablesAgree, UnconfiguredIsEmpty
<1>2. CASE FitsUsage(a, limit)
  <2>1. SetQuota(a, limit) /\ sqlReply' = "ok"
    BY <1>2 DEF BothSetQuota, SQLSetQuota
  <2>2. /\ quotas' = [quotas EXCEPT ![a].row = "present", ![a].limit = limit]
        /\ reply' = "ok" /\ UNCHANGED <<allocations, idempotency>>
    <3>1. ~(limit < quotas[a].count)
      BY <1>1, <1>2 DEF FitsUsage
    <3> HIDE DEF MirrorInv, LedgerInv, TypeOK, QuotaRows
    <3> QED
      BY <3>1 DEF BothSetQuota, Mem!SetQuota
  <2>3. TablesAgree'
    BY <1>1, <2>1, <2>2 DEF SetQuota, TablesAgree
  <2>4. UnconfiguredIsEmpty' /\ RowsAreOwned'
    BY <2>1 DEF SetQuota, UnconfiguredIsEmpty, RowsAreOwned, IsUnused
  <2> QED
    BY <2>1, <2>2, <2>3, <2>4 DEF Next, RepliesAgreeOnceConfigured
<1>3. CASE ~FitsUsage(a, limit)
  <2>1. sqlReply' = "QuotaBelowUsage" /\ UNCHANGED vars
    BY <1>3 DEF BothSetQuota, SQLSetQuota, SetQuota
  <2>2. limit < quotas[a].count /\ quotas[a].row = "present"
    BY <1>1, <1>3 DEF FitsUsage
  <2>3. quotas' = quotas /\ reply' = "QuotaBelowUsage" /\ UNCHANGED <<allocations, idempotency>>
    BY <1>1, <2>2 DEF BothSetQuota, Mem!SetQuota
  <2> QED
    BY <2>1, <2>3 DEF vars, TablesAgree, UnconfiguredIsEmpty, RowsAreOwned, IsUnused,
                      RepliesAgreeOnceConfigured
<1> QED
  BY <1>2, <1>3

(* ReserveAllocation of an unused id: room in one store is room in both.   *)
LEMMA ReserveMirrors ==
  ASSUME MirrorInv, NEW a \in Accounts, NEW id \in Allocations,
         IsUnused(id), BothReserve(a, id)
  PROVE  /\ [Next]_vars /\ UnconfiguredIsEmpty' /\ RowsAreOwned'
         /\ TablesAgree' /\ RepliesAgreeOnceConfigured'
<1> USE DEF MirrorInv, LedgerInv, TypeOK, QuotaRows
<1>1. quota[a] \in QuotaRows /\ quotas = quota
  BY DEF TablesAgree
<1>2. CASE HasRoom(a)
  <2>1. ReserveAllocation(a, id) /\ sqlReply' = "ok"
    BY <1>2 DEF BothReserve, SQLReserve
  <2>2. Mem!ReserveReply(a) = "ok"
    BY <1>1, <1>2 DEF Mem!ReserveReply, HasRoom
  <2>3. /\ quotas' = [quotas EXCEPT ![a].count = @ + 1]
        /\ allocations' = [allocations EXCEPT ![id] = "RESERVED"]
        /\ reply' = "ok" /\ idempotency' = idempotency
    BY <2>2 DEF BothReserve, Mem!ReserveAllocation
  <2>4. TablesAgree'
    BY <2>1, <2>3 DEF ReserveAllocation, TablesAgree, AllocationRows
  <2>5. UnconfiguredIsEmpty' /\ RowsAreOwned'
    BY <1>2, <2>1 DEF ReserveAllocation, UnconfiguredIsEmpty, RowsAreOwned, IsUnused,
                      HasRoom, AllocationRows
  <2> QED
    BY <2>1, <2>3, <2>4, <2>5 DEF Next, RepliesAgreeOnceConfigured
<1>3. CASE ~HasRoom(a)
  <2>1. sqlReply' = "QuotaExceeded" /\ UNCHANGED vars
    BY <1>3 DEF BothReserve, SQLReserve, ReserveAllocation
  <2>2. /\ Mem!ReserveReply(a) # "ok"
        /\ quota[a].row = "present" => Mem!ReserveReply(a) = "QuotaExceeded"
    BY <1>1, <1>3 DEF Mem!ReserveReply, HasRoom
  <2>3. /\ reply' = Mem!ReserveReply(a) /\ account' = a
        /\ UNCHANGED <<quotas, allocations, idempotency>>
    BY <2>2 DEF BothReserve, Mem!ReserveAllocation
  <2> QED
    BY <2>1, <2>2, <2>3 DEF vars, TablesAgree, UnconfiguredIsEmpty, RowsAreOwned,
                            IsUnused, RepliesAgreeOnceConfigured
<1> QED
  BY <1>2, <1>3

(* ReleaseAllocation for the account of the row: a reserved row is given   *)
(* back by both, a released one is left alone by both, and both say ok.    *)
(* Neither finds an id that has no row.                                    *)
LEMMA ReleaseMirrors ==
  ASSUME MirrorInv, NEW a \in Accounts, NEW id \in Allocations,
         IsNotForeign(id, a), BothRelease(a, id)
  PROVE  /\ [Next]_vars /\ UnconfiguredIsEmpty' /\ RowsAreOwned'
         /\ TablesAgree' /\ RepliesAgreeOnceConfigured'
<1> USE DEF MirrorInv, LedgerInv, TypeOK, QuotaRows
<1>1. /\ quota[a] \in QuotaRows /\ quotas = quota
      /\ alloc[id] \in AllocationRows
      /\ allocations[id] = alloc[id].status
      /\ alloc[id].account = IF alloc[id].status = "ABSENT" THEN NoAccount ELSE a
  BY NullsAreDistinct DEF TablesAgree, RowsAreOwned, IsUnused, IsNotForeign
<1>2. CASE alloc[id].status = "RESERVED"
  <2>1. quota[a].count > 0 /\ quota[a].row = "present"
    BY <1>1, <1>2, HeldIsPaid DEF IsHeldBy, UnconfiguredIsEmpty
  <2>2. ReleaseAllocation(a, id) /\ sqlReply' = "ok"
    BY <1>1, <1>2 DEF BothRelease, SQLRelease, IsHeldBy
  <2>3. Mem!ReleaseReply(a, id) = "ok"
    BY <1>1, <1>2, <2>1 DEF Mem!ReleaseReply
  <2>4. /\ quotas' = [quotas EXCEPT ![a].count = @ - 1]
        /\ allocations' = [allocations EXCEPT ![id] = "RELEASED"]
        /\ reply' = "ok" /\ idempotency' = idempotency
    BY <2>3 DEF BothRelease, Mem!ReleaseAllocation
  <2>5. TablesAgree'
    BY <2>2, <2>4 DEF ReleaseAllocation, TablesAgree, AllocationRows
  <2>6. UnconfiguredIsEmpty' /\ RowsAreOwned'
    <3>1. /\ alloc'[id].account = alloc[id].account /\ alloc'[id].status = "RELEASED"
          /\ \A other \in Allocations \ {id} : alloc'[other] = alloc[other]
      BY <2>2 DEF ReleaseAllocation, AllocationRows
    <3>2. RowsAreOwned'
      BY <1>2, <3>1 DEF RowsAreOwned, IsUnused
    <3>3. UnconfiguredIsEmpty'
      BY <2>1, <2>2 DEF ReleaseAllocation, UnconfiguredIsEmpty
    <3> QED
      BY <3>2, <3>3
  <2> QED
    BY <2>2, <2>4, <2>5, <2>6 DEF Next, RepliesAgreeOnceConfigured
<1>3. CASE alloc[id].status = "RELEASED"
  <2>1. sqlReply' = "ok" /\ UNCHANGED vars
    BY <1>1, <1>3 DEF BothRelease, SQLRelease, ReleaseAllocation, IsHeldBy
  <2>2. Mem!ReleaseReply(a, id) = "already"
    BY <1>1, <1>3 DEF Mem!ReleaseReply
  <2>3. reply' = "ok" /\ UNCHANGED <<quotas, allocations, idempotency>>
    BY <2>2 DEF BothRelease, Mem!ReleaseAllocation
  <2> QED
    BY <2>1, <2>3 DEF vars, TablesAgree, UnconfiguredIsEmpty, RowsAreOwned, IsUnused,
                      RepliesAgreeOnceConfigured
<1>4. CASE alloc[id].status = "ABSENT"
  <2>1. sqlReply' = "AllocationNotFound" /\ UNCHANGED vars
    BY <1>1, <1>4, NullsAreDistinct
    DEF BothRelease, SQLRelease, ReleaseAllocation, IsHeldBy
  <2>2. Mem!ReleaseReply(a, id) = "AllocationNotFound"
    BY <1>1, <1>4 DEF Mem!ReleaseReply
  <2>3. reply' = "AllocationNotFound" /\ UNCHANGED <<quotas, allocations, idempotency>>
    BY <2>2 DEF BothRelease, Mem!ReleaseAllocation
  <2> QED
    BY <2>1, <2>3 DEF vars, TablesAgree, UnconfiguredIsEmpty, RowsAreOwned, IsUnused,
                      RepliesAgreeOnceConfigured
<1> QED
  BY <1>1, <1>2, <1>3, <1>4 DEF AllocationRows

(* InsertIdempotencyPending: the first claim on a key stays in both.       *)
LEMMA InsertMirrors ==
  ASSUME MirrorInv, NEW k \in IdemKeys, NEW c \in Claims, BothInsert(k, c)
  PROVE  /\ [Next]_vars /\ UnconfiguredIsEmpty' /\ RowsAreOwned'
         /\ TablesAgree' /\ RepliesAgreeOnceConfigured'
<1> USE DEF MirrorInv, LedgerInv, TypeOK
<1>1. /\ idempotency' = [idempotency EXCEPT ![k] = IF @ = NoClaim THEN c ELSE @]
      /\ UNCHANGED <<quotas, allocations>> /\ account' = NoAccount
  BY DEF BothInsert, Mem!InsertIdempotencyPending
<1>2. RepliesAgreeOnceConfigured'
  BY <1>1, NullsAreDistinct DEF RepliesAgreeOnceConfigured
<1>3. CASE InsertIdempotencyPending(k, c)
  <2>1. TablesAgree'
    BY <1>1, <1>3 DEF InsertIdempotencyPending, TablesAgree
  <2>2. UnconfiguredIsEmpty' /\ RowsAreOwned'
    BY <1>3 DEF InsertIdempotencyPending, UnconfiguredIsEmpty, RowsAreOwned, IsUnused
  <2>3. Next
    BY <1>3 DEF Next
  <2> QED
    BY <1>2, <2>1, <2>2, <2>3
<1>4. CASE idem[k] # NoClaim /\ UNCHANGED vars
  BY <1>1, <1>2, <1>4 DEF vars, TablesAgree, UnconfiguredIsEmpty, RowsAreOwned, IsUnused
<1> QED
  BY <1>3, <1>4 DEF BothInsert, SQLInsert

(* Every call takes both stores from agreeing tables to agreeing tables,   *)
(* and the SQL store through a step of the contract or none.               *)
LEMMA MirrorInductive ==
  MirrorInv /\ [MirrorNext]_mirrorVars => MirrorInv' /\ [Next]_vars
<1> SUFFICES ASSUME MirrorInv, [MirrorNext]_mirrorVars
             PROVE  /\ [Next]_vars /\ UnconfiguredIsEmpty' /\ RowsAreOwned'
                    /\ TablesAgree' /\ RepliesAgreeOnceConfigured'
  BY TypeInductive, BalanceInductive, LimitInductive DEF MirrorInv, LedgerInv
<1>1. CASE UNCHANGED mirrorVars
  BY <1>1 DEF mirrorVars, vars, MirrorInv, TablesAgree, UnconfiguredIsEmpty,
       RowsAreOwned, IsUnused, RepliesAgreeOnceConfigured
<1>2. CASE MirrorNext
  BY <1>2, SetQuotaMirrors, ReserveMirrors, ReleaseMirrors, InsertMirrors DEF MirrorNext
<1> QED
  BY <1>1, <1>2

(* Both stores start empty. *)
LEMMA MirrorInitially == MirrorInit => MirrorInv
<1> SUFFICES ASSUME MirrorInit PROVE MirrorInv
  OBVIOUS
<1>1. LedgerInv
  BY InitLedger DEF MirrorInit
<1>2. TablesAgree /\ UnconfiguredIsEmpty /\ RowsAreOwned /\ RepliesAgreeOnceConfigured
  BY NullsAreDistinct DEF MirrorInit, Init, Mem!Init, TablesAgree,
       UnconfiguredIsEmpty, RowsAreOwned, IsUnused, RepliesAgreeOnceConfigured
<1> QED
  BY <1>1, <1>2 DEF MirrorInv

(* memory.go:22: after any sequence of the calls a control plane makes, no *)
(* id reserved twice and none released for a foreign account, the maps of  *)
(* the in-memory store hold what the tables of the SQL store hold.         *)
THEOREM StoresHoldTheSame == MirrorSpec => []TablesAgree
<1>1. MirrorInv => TablesAgree
  BY DEF MirrorInv
<1> QED
  BY MirrorInitially, MirrorInductive, <1>1, PTL DEF MirrorSpec

(* After any sequence of those calls both stores have given the same last  *)
(* reply, if it was for an account with a quota row.                       *)
THEOREM StoresReplyTheSame == MirrorSpec => []RepliesAgreeOnceConfigured
<1>1. MirrorInv => RepliesAgreeOnceConfigured
  BY DEF MirrorInv
<1> QED
  BY MirrorInitially, MirrorInductive, <1>1, PTL DEF MirrorSpec
=============================================================================
