----------------------- MODULE MemoryGovernanceStore -----------------------
(***************************************************************************)
(* internal/persistence/memory.go: the governance store without a          *)
(* database.  Every method runs under the store's mutex, so each is one    *)
(* step; reply is what the last call returned.                             *)
(***************************************************************************)
EXTENDS Naturals

CONSTANTS Accounts, Allocations, IdemKeys, NoClaim

VARIABLES quotas, allocations, idempotency, reply

memVars == <<quotas, allocations, idempotency, reply>>

Init ==
  /\ quotas = [a \in Accounts |-> [row |-> "absent", limit |-> 0, count |-> 0]]
  /\ allocations = [id \in Allocations |-> "ABSENT"]
  /\ idempotency = [k \in IdemKeys |-> NoClaim]
  /\ reply = "none"

(* The row is created before the limit is compared with the usage. *)
SetQuota(a, limit) ==
  LET rejected == limit < quotas[a].count IN
  /\ quotas' = [quotas EXCEPT ![a].row = "present",
                              ![a].limit = IF rejected THEN @ ELSE limit]
  /\ reply' = IF rejected THEN "QuotaBelowUsage" ELSE "ok"
  /\ UNCHANGED <<allocations, idempotency>>

ReserveReply(a) ==
  IF quotas[a].row = "absent" THEN "QuotaNotConfigured"
  ELSE IF quotas[a].count >= quotas[a].limit THEN "QuotaExceeded"
  ELSE "ok"

(* Unlike the table, the map has no primary key: an id in use is replaced. *)
ReserveAllocation(a, id) ==
  /\ reply' = ReserveReply(a)
  /\ IF ReserveReply(a) = "ok"
       THEN /\ quotas' = [quotas EXCEPT ![a].count = @ + 1]
            /\ allocations' = [allocations EXCEPT ![id] = "RESERVED"]
       ELSE UNCHANGED <<quotas, allocations>>
  /\ UNCHANGED idempotency

(* Mutated: a released allocation is released again. *)
ReleaseReplyTwice(a, id) ==
  IF allocations[id] = "ABSENT" THEN "AllocationNotFound"
  ELSE IF quotas[a].row = "absent" \/ quotas[a].count = 0 THEN "QuotaCorrupt"
  ELSE "ok"
(* Mutated: releasing a released allocation is refused. *)
ReleaseReplyStrict(a, id) ==
  IF allocations[id] # "RESERVED" THEN "AllocationNotFound"
  ELSE IF quotas[a].row = "absent" \/ quotas[a].count = 0 THEN "QuotaCorrupt"
  ELSE "ok"

ReleaseReply(a, id) ==
  IF allocations[id] = "ABSENT" THEN "AllocationNotFound"
  ELSE IF allocations[id] = "RELEASED" THEN "already"
  ELSE IF quotas[a].row = "absent" \/ quotas[a].count = 0 THEN "QuotaCorrupt"
  ELSE "ok"

(* The row carries no account: the caller's is believed. *)
ReleaseAllocation(a, id) ==
  LET outcome == ReleaseReply(a, id) IN
  /\ reply' = IF outcome = "already" THEN "ok" ELSE outcome
  /\ IF outcome = "ok"
       THEN /\ quotas' = [quotas EXCEPT ![a].count = @ - 1]
            /\ allocations' = [allocations EXCEPT ![id] = "RELEASED"]
       ELSE UNCHANGED <<quotas, allocations>>
  /\ UNCHANGED idempotency

InsertIdempotencyPending(k, c) ==
  /\ idempotency' = [idempotency EXCEPT ![k] = IF @ = NoClaim THEN c ELSE @]
  /\ reply' = "ok"
  /\ UNCHANGED <<quotas, allocations>>
============================================================================
