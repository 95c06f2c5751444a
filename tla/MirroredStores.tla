--------------------------- MODULE MirroredStores ---------------------------
(***************************************************************************)
(* The two governance stores side by side: every call is applied to the    *)
(* in-memory store and to the SQL store.  The SQL store is the contract,   *)
(* which SQLStore implements; its replies are those of a transaction that  *)
(* runs alone, so ErrQuotaCorrupt is not among them (CreditNeverMisses).   *)
(*                                                                         *)
(* The calls are those a control plane whose store is in its own memory    *)
(* makes: it reserves only ids its sequence has not given out before       *)
(* (service.go:200) and releases an allocation for the account it reserved *)
(* it for (service.go:301).  Other calls part the stores: memory.go:98     *)
(* replaces an id in use and counts it again where sql.go:113 fails on the *)
(* primary key, and memory.go:112 does not compare the account.            *)
(***************************************************************************)
EXTENDS GovernanceStore

VARIABLES
  quotas, allocations, idempotency, reply,   \* MemoryGovernanceStore
  sqlReply,
  account                                    \* whom the last call was for

mirrorVars == <<vars, quotas, allocations, idempotency, reply, sqlReply, account>>

Mem == INSTANCE MemoryGovernanceStore

MirrorInit == Init /\ Mem!Init /\ sqlReply = "none" /\ account = NoAccount

SQLSetQuota(a, limit) ==
  \/ SetQuota(a, limit) /\ sqlReply' = "ok"
  \/ ~FitsUsage(a, limit) /\ sqlReply' = "QuotaBelowUsage" /\ UNCHANGED vars

SQLReserve(a, id) ==
  \/ ReserveAllocation(a, id) /\ sqlReply' = "ok"
  \/ /\ ~(HasRoom(a) /\ IsUnused(id))
     /\ sqlReply' = IF HasRoom(a) THEN "duplicate id" ELSE "QuotaExceeded"
     /\ UNCHANGED vars

SQLRelease(a, id) ==
  \/ ReleaseAllocation(a, id) /\ sqlReply' = "ok"
  \/ /\ ~IsHeldBy(id, a)
     /\ sqlReply' = IF alloc[id].account = a THEN "ok" ELSE "AllocationNotFound"
     /\ UNCHANGED vars

SQLInsert(k, c) ==
  /\ InsertIdempotencyPending(k, c) \/ (idem[k] # NoClaim /\ UNCHANGED vars)
  /\ sqlReply' = "ok"

BothSetQuota(a, limit) ==
  Mem!SetQuota(a, limit) /\ SQLSetQuota(a, limit) /\ account' = a

BothReserve(a, id) ==
  Mem!ReserveAllocation(a, id) /\ SQLReserve(a, id) /\ account' = a

BothRelease(a, id) ==
  Mem!ReleaseAllocation(a, id) /\ SQLRelease(a, id) /\ account' = a

BothInsert(k, c) ==
  Mem!InsertIdempotencyPending(k, c) /\ SQLInsert(k, c) /\ account' = NoAccount

(* The id is in no other account's row: it is a's, or it has none. *)
IsNotForeign(id, a) == alloc[id].account \in {a, NoAccount}

MirrorNext ==
  \/ \E a \in Accounts, limit \in Limits : BothSetQuota(a, limit)
  \/ \E a \in Accounts, id \in Allocations : IsUnused(id) /\ BothReserve(a, id)
  \/ \E a \in Accounts, id \in Allocations : IsNotForeign(id, a) /\ BothRelease(a, id)
  \/ \E k \in IdemKeys, c \in Claims : BothInsert(k, c)

MirrorSpec == MirrorInit /\ [][MirrorNext]_mirrorVars
----------------------------------------------------------------------------
(* memory.go:22 "It mirrors the SQLStore transaction semantics": after the *)
(* same calls both stores hold the same quota rows, allocation states and  *)
(* claims, refused calls and repeated releases included.  The calls are    *)
(* the control plane's: no id is reserved twice (memory.go:98 would count  *)
(* it twice) and none is released for a foreign account (memory.go:112     *)
(* would take the slot from the caller).                                   *)
TablesAgree ==
  /\ quotas = quota
  /\ allocations = [id \in Allocations |-> alloc[id].status]
  /\ idempotency = idem

(* They give the same replies to these calls for every account that has a  *)
(* quota.  Without one, memory.go:92 says QuotaNotConfigured and           *)
(* sql.go:111 QuotaExceeded.  A reserve of an id in use, or a release for  *)
(* a foreign account, is outside: the stores answer those differently.     *)
RepliesAgreeOnceConfigured ==
  account \in Accounts /\ quota[account].row = "present" => reply = sqlReply
=============================================================================
