-------------------------- MODULE GovernanceStore --------------------------
(***************************************************************************)
(* What the durable governance boundary promises to the control plane      *)
(* (internal/persistence/store.go): three tables, and operations that each *)
(* take effect in one indivisible step or not at all.  An operation that   *)
(* returns an error changes nothing, so only the effects are actions here; *)
(* SQLStore shows how transactions of several statements implement them.   *)
(***************************************************************************)
EXTENDS Naturals, FiniteSets

CONSTANTS
  Accounts,     \* (tenant, owner) pairs, the key of t_owner_quota
  Allocations,  \* allocation ids, the key of t_quota_allocation
  Limits,       \* concurrent limits that SetQuota may be asked for
  IdemKeys,     \* (tenant, key) pairs, the key of t_idempotency_key
  Claims,       \* (owner, request hash) pairs a caller claims a key with
  NoAccount,    \* account column of a row that does not exist
  NoClaim       \* t_idempotency_key has no row for the key

(* Allocation ids are VARCHAR(128): there are finitely many. *)
ASSUME AllocationsFinite == IsFiniteSet(Allocations)

(* SetQuota refuses a negative limit. *)
ASSUME LimitsAreNaturals == Limits \subseteq Nat

ASSUME NullsAreDistinct == NoAccount \notin Accounts /\ NoClaim \notin Claims

VARIABLES
  quota,   \* t_owner_quota: concurrent_limit and current_count per account
  alloc,   \* t_quota_allocation: the account and the status of each id
  idem     \* t_idempotency_key: the first claim on each key

vars == <<quota, alloc, idem>>

QuotaRows == [row : {"absent", "present"}, limit : Nat, count : Nat]

AllocationRows == [status : {"ABSENT", "RESERVED", "RELEASED"},
                   account : Accounts \cup {NoAccount}]

TypeOK ==
  /\ quota \in [Accounts -> QuotaRows]
  /\ alloc \in [Allocations -> AllocationRows]
  /\ idem \in [IdemKeys -> Claims \cup {NoClaim}]

Init ==
  /\ quota = [a \in Accounts |-> [row |-> "absent", limit |-> 0, count |-> 0]]
  /\ alloc = [id \in Allocations |->
                [status |-> "ABSENT", account |-> NoAccount]]
  /\ idem = [k \in IdemKeys |-> NoClaim]
----------------------------------------------------------------------------
(* Mutated forms of the guards and effects below. *)
FitsUsageDropped(a, limit) == limit \in Limits
IsUnusedDropped(id) == id \in Allocations
IsHeldByDropped(id, a) == alloc[id].account = a

(* The limit covers what the account has in use. *)
FitsUsage(a, limit) == quota[a].count <= limit

HasRoom(a) == quota[a].row = "present" /\ quota[a].count < quota[a].limit

(* The primary key of t_quota_allocation: no row with this id yet. *)
IsUnused(id) == alloc[id].status = "ABSENT"

IsHeldBy(id, a) == alloc[id].status = "RESERVED" /\ alloc[id].account = a
----------------------------------------------------------------------------
SetQuota(a, limit) ==
  /\ FitsUsage(a, limit)
  /\ quota' = [quota EXCEPT ![a].row = "present", ![a].limit = limit]
  /\ UNCHANGED <<alloc, idem>>

ReserveAllocation(a, id) ==
  /\ HasRoom(a)
  /\ IsUnused(id)
  /\ quota' = [quota EXCEPT ![a].count = @ + 1]
  /\ alloc' = [alloc EXCEPT ![id] = [status |-> "RESERVED", account |-> a]]
  /\ UNCHANGED idem

(* Only the RESERVED -> RELEASED transition gives a slot back; releasing a *)
(* released allocation succeeds and changes nothing.                       *)
ReleaseAllocation(a, id) ==
  /\ IsHeldBy(id, a)
  /\ quota[a].count > 0
  /\ quota' = [quota EXCEPT ![a].count = @ - 1]
  /\ alloc' = [alloc EXCEPT ![id].status = "RELEASED"]
  /\ UNCHANGED idem

(* A duplicate key is left as it is (ON CONFLICT DO NOTHING). *)
InsertIdempotencyPending(k, c) ==
  /\ idem[k] = NoClaim
  /\ idem' = [idem EXCEPT ![k] = c]
  /\ UNCHANGED <<quota, alloc>>

Next ==
  \/ \E a \in Accounts, limit \in Limits : SetQuota(a, limit)
  \/ \E a \in Accounts, id \in Allocations : ReserveAllocation(a, id)
  \/ \E a \in Accounts, id \in Allocations : ReleaseAllocation(a, id)
  \/ \E k \in IdemKeys, c \in Claims : InsertIdempotencyPending(k, c)

Spec == Init /\ [][Next]_vars
----------------------------------------------------------------------------
(* The allocations that hold a slot of account a. *)
Held(a) == {id \in Allocations : alloc[id].status = "RESERVED"
                                   /\ alloc[id].account = a}

(* The aggregate current_count of an account is exactly the number of its  *)
(* RESERVED allocation rows: the counter and the ledger, which the code    *)
(* keeps in two tables (sql.go:101 and 113, 134 and 161), never drift.     *)
LedgerBalanced == \A a \in Accounts : quota[a].count = Cardinality(Held(a))

(* An account never has more slots in use than its concurrent limit,       *)
(* whether a reserve takes the last one or SetQuota lowers the limit.      *)
WithinLimit == \A a \in Accounts : quota[a].count <= quota[a].limit

(* An allocation row is written once for one account and released once: no *)
(* step moves it to another account, removes it or reserves it again, so   *)
(* no slot can be given back twice.                                        *)
AllocationIsOneShot ==
  [][\A id \in Allocations :
       \/ alloc'[id] = alloc[id]
       \/ alloc[id].status = "ABSENT" /\ alloc'[id].status = "RESERVED"
       \/ /\ alloc[id].status = "RESERVED" /\ alloc'[id].status = "RELEASED"
          /\ alloc'[id].account = alloc[id].account]_vars
============================================================================
