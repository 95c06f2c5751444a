----------------------- MODULE SandboxStoreInvariant -----------------------
(***************************************************************************)
(* The control plane's Store, for any number of replicas, accounts, keys   *)
(* and ids and with any of the faults.  What a caller sees rests on facts  *)
(* about one process's maps (its numbers are new to it, its records name   *)
(* the sandboxes they led to) and about the maps and the ledger (every     *)
(* sandbox has a row of its own there, which no other process can take).   *)
(* This module states those facts as an invariant and shows that every     *)
(* operation keeps it.                                                     *)
(***************************************************************************)
EXTENDS SandboxStore, TLAPS

QuotaRows == [row : {"absent", "present"}, limit : Nat, count : Nat]
AllocationRows == [status : {"ABSENT", "RESERVED", "RELEASED"},
                   account : Accounts \cup {NoAccount}]
SandboxRows ==
  {NoSandbox} \cup [phase : {"Ready", "Draining", "Deleted"},
                    account : Accounts, key : Keys]
Records ==
  {NoRecord} \cup [status : {"PENDING", "SUCCEEDED"}, owner : Owners,
                   hash : Hashes, resource : 0..MaxSeq]
----------------------------------------------------------------------------
(* The inductive invariant. *)

(* Processes without a database do not share a store. *)
OneProcess == backend # "sql" => \A q, r \in running : q = r

IdleIsEmpty == \A r \in Replicas \ running, n \in Ids : sandboxes[r][n] = NoSandbox

(* The governance store keeps its limits, and only rows that are there     *)
(* have anything in use.                                                   *)
LedgerOK ==
  \A a \in Accounts :
    /\ quota[a].count <= quota[a].limit
    /\ quota[a].count > 0 => quota[a].row = "present"

(* Numbers a process has not handed out yet are new to its maps. *)
SequenceIsAhead(r) ==
  \A n \in Ids : n > sequence[r] =>
    sandboxes[r][n] = NoSandbox /\ allocations[r][n] = NoAllocationRow

(* The parts of MapsAgree and OneSandboxPerKey about one process. *)
PhasesAgree(r) ==
  \A n \in Ids :
    /\ sandboxes[r][n].phase = "Ready" <=> allocations[r][n].status = "RESERVED"
    /\ sandboxes[r][n].account = allocations[r][n].account
SandboxesAreRecorded(r) ==
  \A k \in IdemKeys, n \in Ids :
    sandboxes[r][n].key = k[2] /\ sandboxes[r][n].account[1] = k[1]
      => /\ idempotency[r][k].status = "SUCCEEDED"
         /\ idempotency[r][k].resource = n
         /\ sandboxes[r][n].account = <<k[1], idempotency[r][k].owner>>

(* A record that says SUCCEEDED names a sandbox of its key and owner. *)
RecordsAreTrue(r) ==
  \A k \in IdemKeys :
    idempotency[r][k].status = "SUCCEEDED" =>
      /\ idempotency[r][k].resource \in Ids
      /\ sandboxes[r][idempotency[r][k].resource].key = k[2]
      /\ sandboxes[r][idempotency[r][k].resource].account
           = <<k[1], idempotency[r][k].owner>>

ReplicaOK(r) ==
  /\ SequenceIsAhead(r) /\ PhasesAgree(r) /\ SandboxesAreRecorded(r)
  /\ RecordsAreTrue(r)

MapsInv == \A r \in Replicas : ReplicaOK(r)

(* Sandbox n of process r has a row of its account in the ledger, in the   *)
(* state its phase and its failed drains tell.                             *)
Booked(r, n) ==
  sandboxes[r][n] # NoSandbox =>
    /\ alloc[n].status # "ABSENT" /\ alloc[n].account = sandboxes[r][n].account
    /\ sandboxes[r][n].phase = "Ready" /\ n \notin drainFailed[r]
         => alloc[n].status = "RESERVED"
    /\ sandboxes[r][n].phase # "Ready" => alloc[n].status = "RELEASED"

(* No two processes have a sandbox of the same number: its row can be      *)
(* inserted only once.                                                     *)
OneHolder ==
  \A q, r \in Replicas, n \in Ids :
    sandboxes[q][n] # NoSandbox /\ sandboxes[r][n] # NoSandbox => q = r

DrainsFailInSql == backend # "sql" => \A r \in Replicas : drainFailed[r] = {}

(* Without a governance store a process keeps its own limits. *)
LocalLimit ==
  backend = "none" =>
    \A r \in Replicas, a \in Accounts : quotas[r][a].count <= quotas[r][a].limit

(* About the maps and the ledger. *)
BookInv ==
  /\ OneProcess /\ IdleIsEmpty /\ DrainsFailInSql /\ OneHolder
  /\ backend # "none" => \A r \in Replicas, n \in Ids : Booked(r, n)

IInv ==
  /\ TypeOK /\ LedgerOK /\ MapsInv /\ BookInv
  /\ NoStuckKey /\ ProjectionInSync /\ LocalLimit
----------------------------------------------------------------------------
(* What the operations do to the maps, entry by entry. *)

(* A row of a table of allocations is reserved or released. *)
Reserved(table, n, a) == [table EXCEPT ![n] = [status |-> "RESERVED", account |-> a]]
Released(table, n) == [table EXCEPT ![n].status = "RELEASED"]

(* The entries of a step of r, and of the other processes. *)
OthersKept(r) ==
  \A q \in Replicas \ {r} :
    /\ sandboxes'[q] = sandboxes[q] /\ allocations'[q] = allocations[q]
    /\ idempotency'[q] = idempotency[q] /\ quotas'[q] = quotas[q]
SandboxWritten(r, n, sandbox) ==
  /\ \A m \in Ids \ {n} : sandboxes'[r][m] = sandboxes[r][m]
  /\ sandboxes'[r][n] = sandbox
RecordWritten(r, k, record) ==
  /\ \A j \in IdemKeys \ {k} : idempotency'[r][j] = idempotency[r][j]
  /\ idempotency'[r][k] = record

FulfilEffect(r, k, owner, req, n, a) ==
  /\ OthersKept(r)
  /\ SandboxWritten(r, n, [phase |-> "Ready", account |-> a, key |-> k[2]])
  /\ allocations'[r] = Reserved(allocations[r], n, a)
  /\ RecordWritten(r, k, [status |-> "SUCCEEDED", owner |-> owner,
                          hash |-> Normalize(req), resource |-> n])
  /\ quotas'[r] = [quotas[r] EXCEPT ![a] =
       [row |-> "present", limit |-> quotas[r][a].limit,
        count |-> quotas[r][a].count + 1]]
ReleaseEffect(r, n, a) ==
  /\ \A q \in Replicas \ {r} :
       /\ sandboxes'[q] = sandboxes[q] /\ allocations'[q] = allocations[q]
       /\ quotas'[q] = quotas[q]
  /\ SandboxWritten(r, n, [phase |-> "Draining", account |-> sandboxes[r][n].account,
                           key |-> sandboxes[r][n].key])
  /\ allocations'[r] = Released(allocations[r], n)
  /\ quotas'[r] = [quotas[r] EXCEPT ![a].count = IF @ > 0 THEN @ - 1 ELSE @]
  /\ UNCHANGED drainFailed

(* The types of the maps, by the names used below. *)
LEMMA Typed ==
  TypeOK <=>
    /\ backend \in Backends /\ running \subseteq Replicas
    /\ quota \in [Accounts -> QuotaRows]
    /\ alloc \in [Ids -> AllocationRows]
    /\ sequence \in [Replicas -> 0..MaxSeq]
    /\ sandboxes \in [Replicas -> [Ids -> SandboxRows]]
    /\ allocations \in [Replicas -> [Ids -> AllocationRows]]
    /\ idempotency \in [Replicas -> [IdemKeys -> Records]]
    /\ quotas \in [Replicas -> [Accounts -> QuotaRows]]
    /\ drainFailed \in [Replicas -> SUBSET Ids]
BY DEF TypeOK, QuotaRows, AllocationRows, SandboxRows, Records

(* The same, read the other way, for the state after a step. *)
LEMMA TypedNext ==
  ASSUME backend' \in Backends, running' \subseteq Replicas,
         quota' \in [Accounts -> QuotaRows],
         alloc' \in [Ids -> AllocationRows],
         sequence' \in [Replicas -> 0..MaxSeq],
         sandboxes' \in [Replicas -> [Ids -> SandboxRows]],
         allocations' \in [Replicas -> [Ids -> AllocationRows]],
         idempotency' \in [Replicas -> [IdemKeys -> Records]],
         quotas' \in [Replicas -> [Accounts -> QuotaRows]],
         drainFailed' \in [Replicas -> SUBSET Ids]
  PROVE  TypeOK'
BY DEF TypeOK, QuotaRows, AllocationRows, SandboxRows, Records

(* The fields of a sandbox are typed whether or not it is there. *)
LEMMA SandboxFields ==
  ASSUME NEW s \in SandboxRows
  PROVE  /\ s # NoSandbox => /\ s \in [phase : {"Ready", "Draining", "Deleted"},
                                       account : Accounts, key : Keys]
                             /\ s.phase \in {"Ready", "Draining", "Deleted"}
                             /\ s.account \in Accounts /\ s.key \in Keys
         /\ s = NoSandbox <=> s.phase = "Absent"
         /\ s = NoSandbox => s.account = NoAccount /\ s.key = NoKey
BY DEF SandboxRows, NoSandbox

(* The fields of a sandbox that is written out. *)
LEMMA WrittenFields ==
  ASSUME NEW s, NEW p, NEW a, NEW k, s = [phase |-> p, account |-> a, key |-> k]
  PROVE  s.phase = p /\ s.account = a /\ s.key = k
OBVIOUS

(* The fields of a ledger row as written. *)
LEMMA RowFields ==
  ASSUME NEW row, NEW status, NEW a, row = [status |-> status, account |-> a]
  PROVE  row.status = status /\ row.account = a
OBVIOUS

(* The fields of an idempotency record as written. *)
LEMMA RecordFields ==
  ASSUME NEW record, NEW status, NEW owner, NEW hash, NEW n,
         record = [status |-> status, owner |-> owner, hash |-> hash, resource |-> n]
  PROVE  /\ record.status = status /\ record.owner = owner
         /\ record.hash = hash /\ record.resource = n
OBVIOUS

(* A count below a limit stays within it with one more. *)
LEMMA OneMoreFits ==
  ASSUME NEW c \in Nat, NEW l \in Nat, c < l
  PROVE  c + 1 <= l
OBVIOUS

(* A count within a limit stays within it with one less, if there is one. *)
LEMMA OneLessFits ==
  ASSUME NEW c \in Nat, NEW l \in Nat, c <= l
  PROVE  (IF c > 0 THEN c - 1 ELSE c) <= l
OBVIOUS

(* A sandbox number is within the bound on the sequence. *)
LEMMA IdsAreBounded ==
  ASSUME NEW n \in Ids
  PROVE  n \in 0..MaxSeq
BY BoundsAssumption DEF Ids

(* The account a key and an owner stand for. *)
LEMMA AccountOf ==
  ASSUME NEW k \in IdemKeys, NEW owner \in Owners
  PROVE  <<k[1], owner>> \in Accounts /\ k[1] \in Tenants /\ k[2] \in Keys
BY DEF IdemKeys, Accounts

(* What a create does to the row of its account. *)
LEMMA SlotTaken ==
  ASSUME NEW q \in QuotaRows, NEW new,
         new = [q EXCEPT !.row = "present", !.count = @ + 1]
  PROVE  /\ new \in QuotaRows
         /\ new = [row |-> "present", limit |-> q.limit, count |-> q.count + 1]
<1> DEFINE mid == [q EXCEPT !.row = "present"]
<1>1. mid \in QuotaRows /\ mid.limit = q.limit /\ mid.count = q.count
        /\ mid.row = "present"
  BY DEF QuotaRows
<1>2. new = [mid EXCEPT !.count = q.count + 1] /\ q.count + 1 \in Nat
  BY <1>1 DEF QuotaRows
<1> HIDE DEF mid
<1>3. new \in QuotaRows /\ new.row = "present" /\ new.limit = q.limit
        /\ new.count = q.count + 1
  BY <1>1, <1>2 DEF QuotaRows
<1> QED BY <1>3, Zenon DEF QuotaRows

(* The terminal form of the record of a create. *)
LEMMA RecordOf ==
  ASSUME NEW owner, NEW req, NEW n
  PROVE  [Pending(owner, req) EXCEPT !.status = "SUCCEEDED", !.resource = n]
           = [status |-> "SUCCEEDED", owner |-> owner, hash |-> Normalize(req),
              resource |-> n]
<1> DEFINE h == Normalize(req)
<1> HIDE DEF h
<1>1. [[status |-> "PENDING", owner |-> owner, hash |-> h, resource |-> 0]
         EXCEPT !.status = "SUCCEEDED"]
        = [status |-> "SUCCEEDED", owner |-> owner, hash |-> h, resource |-> 0]
  OBVIOUS
<1>2. [[status |-> "SUCCEEDED", owner |-> owner, hash |-> h, resource |-> 0]
         EXCEPT !.resource = n]
        = [status |-> "SUCCEEDED", owner |-> owner, hash |-> h, resource |-> n]
  OBVIOUS
<1> QED BY <1>1, <1>2, Zenon DEF Pending, h

(* What a release does to the row of its account. *)
LEMMA SlotReturned ==
  ASSUME NEW q \in QuotaRows, NEW new,
         new = [q EXCEPT !.count = IF @ > 0 THEN @ - 1 ELSE @]
  PROVE  /\ new \in QuotaRows
         /\ new.row = q.row /\ new.limit = q.limit
         /\ new.count = IF q.count > 0 THEN q.count - 1 ELSE q.count
<1>1. (IF q.count > 0 THEN q.count - 1 ELSE q.count) \in Nat
  BY DEF QuotaRows
<1> QED BY <1>1 DEF QuotaRows

(* A sandbox in another phase is the same sandbox. *)
LEMMA PhaseOf ==
  ASSUME NEW s \in [phase : {"Ready", "Draining", "Deleted"}, account : Accounts,
                    key : Keys],
         NEW p \in {"Draining", "Deleted"}, NEW new, new = [s EXCEPT !.phase = p]
  PROVE  /\ new = [phase |-> p, account |-> s.account, key |-> s.key]
         /\ new \in SandboxRows
<1>1. new = [phase |-> p, account |-> s.account, key |-> s.key]
  OBVIOUS
<1>2. s.account \in Accounts /\ s.key \in Keys
  OBVIOUS
<1> QED BY <1>1, <1>2 DEF SandboxRows

(* Setting the phase of a sandbox that is there leaves its other fields    *)
(* and all other sandboxes as they are.                                    *)
LEMMA PhaseWrites ==
  ASSUME TypeOK, NEW r \in Replicas, NEW n \in Ids, sandboxes[r][n] # NoSandbox,
         NEW p \in {"Draining", "Deleted"},
         sandboxes' = [sandboxes EXCEPT ![r][n].phase = p]
  PROVE  /\ \A q \in Replicas \ {r} : sandboxes'[q] = sandboxes[q]
         /\ SandboxWritten(r, n, [phase |-> p, account |-> sandboxes[r][n].account,
                                  key |-> sandboxes[r][n].key])
         /\ sandboxes' \in [Replicas -> [Ids -> SandboxRows]]
<1> DEFINE s == sandboxes[r][n]
           new == [s EXCEPT !.phase = p]
<1> USE Typed
<1>1. s \in [phase : {"Ready", "Draining", "Deleted"}, account : Accounts, key : Keys]
  <2>1. s \in SandboxRows
    OBVIOUS
  <2> QED BY <2>1, SandboxFields
<1>2. new = [phase |-> p, account |-> s.account, key |-> s.key]
  BY <1>1, PhaseOf
<1>3. new \in SandboxRows
  BY <1>1, PhaseOf
<1>4. sandboxes' = [sandboxes EXCEPT ![r] = [sandboxes[r] EXCEPT ![n] = new]]
  OBVIOUS
<1> HIDE DEF new
<1> QED BY <1>2, <1>3, <1>4 DEF SandboxWritten

(* A fulfilled create writes one entry of each of its process's maps. *)
LEMMA FulfilWrites ==
  ASSUME TypeOK, NEW r \in Replicas, NEW k \in IdemKeys, NEW owner \in Owners,
         NEW req \in Requests, NEW n \in Ids, n = sequence[r] + 1,
         NEW a \in Accounts, a = <<k[1], owner>>, Fulfil(r, k, owner, req)
  PROVE  FulfilEffect(r, k, owner, req, n, a)
<1> USE Typed
<1>1. /\ allocations' = [allocations EXCEPT ![r][n] =
                           [status |-> "RESERVED", account |-> a]]
      /\ sandboxes' = [sandboxes EXCEPT ![r][n] =
                         [phase |-> "Ready", account |-> a, key |-> k[2]]]
      /\ idempotency' = [idempotency EXCEPT ![r][k] =
                           [Pending(owner, req) EXCEPT !.status = "SUCCEEDED",
                                                       !.resource = n]]
      /\ quotas' = [quotas EXCEPT ![r][a].row = "present", ![r][a].count = @ + 1]
  BY DEF Fulfil
<1>2. [Pending(owner, req) EXCEPT !.status = "SUCCEEDED", !.resource = n]
        = [status |-> "SUCCEEDED", owner |-> owner, hash |-> Normalize(req),
           resource |-> n]
  BY RecordOf
<1>3. /\ \A q \in Replicas \ {r} : quotas'[q] = quotas[q]
      /\ quotas'[r] = [quotas[r] EXCEPT ![a] =
              [row |-> "present", limit |-> quotas[r][a].limit,
               count |-> quotas[r][a].count + 1]]
  <2> DEFINE budget == [quotas[r][a] EXCEPT !.row = "present", !.count = @ + 1]
  <2>1. quotas[r][a] \in QuotaRows
    OBVIOUS
  <2>2. quotas' = [quotas EXCEPT ![r] = [quotas[r] EXCEPT ![a] = budget]]
    BY <1>1, Zenon
  <2>3. budget = [row |-> "present", limit |-> quotas[r][a].limit,
                  count |-> quotas[r][a].count + 1]
    BY <2>1, SlotTaken
  <2> HIDE DEF budget
  <2>4. quotas'[r] = [quotas[r] EXCEPT ![a] = budget]
    BY <2>2
  <2> QED BY <2>2, <2>3, <2>4
<1>4. /\ \A q \in Replicas \ {r} : sandboxes'[q] = sandboxes[q]
      /\ \A m \in Ids \ {n} : sandboxes'[r][m] = sandboxes[r][m]
      /\ sandboxes'[r][n] = [phase |-> "Ready", account |-> a, key |-> k[2]]
  BY <1>1
<1>5. /\ \A q \in Replicas \ {r} : allocations'[q] = allocations[q]
      /\ allocations'[r] = [allocations[r] EXCEPT ![n] =
                              [status |-> "RESERVED", account |-> a]]
  BY <1>1
<1>6. /\ \A q \in Replicas \ {r} : idempotency'[q] = idempotency[q]
      /\ \A j \in IdemKeys \ {k} : idempotency'[r][j] = idempotency[r][j]
      /\ idempotency'[r][k] =
           [status |-> "SUCCEEDED", owner |-> owner, hash |-> Normalize(req),
            resource |-> n]
  BY <1>1, <1>2
<1> QED BY <1>3, <1>4, <1>5, <1>6
  DEF FulfilEffect, OthersKept, SandboxWritten, RecordWritten, Reserved

(* A fulfilled create keeps the types of the maps. *)
LEMMA FulfilTyped ==
  ASSUME TypeOK, NEW r \in Replicas, NEW k \in IdemKeys, NEW owner \in Owners,
         NEW req \in Requests, sequence[r] + 1 \in Ids, Fulfil(r, k, owner, req)
  PROVE  /\ sandboxes' \in [Replicas -> [Ids -> SandboxRows]]
         /\ allocations' \in [Replicas -> [Ids -> AllocationRows]]
         /\ idempotency' \in [Replicas -> [IdemKeys -> Records]]
         /\ quotas' \in [Replicas -> [Accounts -> QuotaRows]]
<1> DEFINE n == sequence[r] + 1
           a == <<k[1], owner>>
           sandbox == [phase |-> "Ready", account |-> a, key |-> k[2]]
           row == [status |-> "RESERVED", account |-> a]
           record == [Pending(owner, req) EXCEPT !.status = "SUCCEEDED",
                                                 !.resource = n]
           budget == [quotas[r][a] EXCEPT !.row = "present", !.count = @ + 1]
<1> USE Typed
<1>1. a \in Accounts /\ k[2] \in Keys /\ n \in Ids /\ n \in 0..MaxSeq
  BY AccountOf, BoundsAssumption DEF Ids
<1>2. sandbox \in SandboxRows /\ row \in AllocationRows
  BY <1>1 DEF SandboxRows, AllocationRows
<1>3. record \in Records
  <2>1. record = [status |-> "SUCCEEDED", owner |-> owner,
                  hash |-> Normalize(req), resource |-> n]
    BY RecordOf
  <2>2. Normalize(req) \in Hashes
    BY Zenon DEF Hashes
  <2> HIDE DEF record, n
  <2> QED BY <1>1, <2>1, <2>2 DEF Records
<1>4. budget \in QuotaRows
  <2>1. quotas[r][a] \in QuotaRows
    BY <1>1
  <2> QED BY <2>1, SlotTaken
<1>5. /\ allocations' = [allocations EXCEPT ![r][n] = row]
      /\ sandboxes' = [sandboxes EXCEPT ![r][n] = sandbox]
      /\ idempotency' = [idempotency EXCEPT ![r][k] = record]
      /\ quotas' = [quotas EXCEPT ![r][a].row = "present", ![r][a].count = @ + 1]
  BY DEF Fulfil
<1> HIDE DEF n, a, sandbox, row, record
<1>6. quotas' = [quotas EXCEPT ![r] = [quotas[r] EXCEPT ![a] = budget]]
  BY <1>1, <1>5, Zenon
<1> HIDE DEF budget
<1>7. quotas' \in [Replicas -> [Accounts -> QuotaRows]]
  BY <1>1, <1>4, <1>6
<1>8. sandboxes' \in [Replicas -> [Ids -> SandboxRows]]
  BY <1>1, <1>2, <1>5
<1>9. allocations' \in [Replicas -> [Ids -> AllocationRows]]
  BY <1>1, <1>2, <1>5
<1>10. idempotency' \in [Replicas -> [IdemKeys -> Records]]
  BY <1>3, <1>5
<1> QED BY <1>7, <1>8, <1>9, <1>10

(* A release writes one entry of its process's maps, and takes one off the *)
(* count of the account.                                                   *)
LEMMA ReleaseWrites ==
  ASSUME TypeOK, NEW r \in Replicas, NEW n \in Ids, sandboxes[r][n] # NoSandbox,
         NEW a \in Accounts, a = allocations[r][n].account, ReleaseLocally(r, n)
  PROVE  /\ ReleaseEffect(r, n, a)
         /\ sandboxes' \in [Replicas -> [Ids -> SandboxRows]]
         /\ allocations' \in [Replicas -> [Ids -> AllocationRows]]
         /\ quotas' \in [Replicas -> [Accounts -> QuotaRows]]
<1> USE Typed
<1>1. /\ allocations' = [allocations EXCEPT ![r][n].status = "RELEASED"]
      /\ quotas' = [quotas EXCEPT ![r][a].count = IF @ > 0 THEN @ - 1 ELSE @]
      /\ sandboxes' = [sandboxes EXCEPT ![r][n].phase = "Draining"]
      /\ UNCHANGED drainFailed
  BY DEF ReleaseLocally
<1>2. /\ \A q \in Replicas \ {r} : allocations'[q] = allocations[q]
      /\ allocations'[r] = [allocations[r] EXCEPT ![n].status = "RELEASED"]
      /\ allocations' \in [Replicas -> [Ids -> AllocationRows]]
  <2> DEFINE row == [allocations[r][n] EXCEPT !.status = "RELEASED"]
  <2>1. row \in AllocationRows
    <3>1. allocations[r][n] \in AllocationRows
      OBVIOUS
    <3> QED BY <3>1, Zenon DEF AllocationRows
  <2>2. allocations' = [allocations EXCEPT ![r] = [allocations[r] EXCEPT ![n] = row]]
    BY <1>1
  <2>3. [allocations[r] EXCEPT ![n].status = "RELEASED"]
          = [allocations[r] EXCEPT ![n] = row]
    BY SMTT(20)
  <2> HIDE DEF row
  <2> QED BY <2>1, <2>2, <2>3
<1>3. /\ \A q \in Replicas \ {r} : quotas'[q] = quotas[q]
      /\ quotas'[r] = [quotas[r] EXCEPT ![a].count = IF @ > 0 THEN @ - 1 ELSE @]
      /\ quotas' \in [Replicas -> [Accounts -> QuotaRows]]
  <2> DEFINE budget == [quotas[r][a] EXCEPT !.count = IF @ > 0 THEN @ - 1 ELSE @]
  <2>1. budget \in QuotaRows
    <3>1. quotas[r][a] \in QuotaRows
      BY Zenon
    <3> QED BY <3>1, SlotReturned
  <2>2. quotas' = [quotas EXCEPT ![r] = [quotas[r] EXCEPT ![a] = budget]]
    BY <1>1
  <2>3. [quotas[r] EXCEPT ![a].count = IF @ > 0 THEN @ - 1 ELSE @]
          = [quotas[r] EXCEPT ![a] = budget]
    OBVIOUS
  <2> HIDE DEF budget
  <2>4. /\ \A q \in Replicas \ {r} : quotas'[q] = quotas[q]
        /\ quotas'[r] = [quotas[r] EXCEPT ![a] = budget]
    BY <2>2
  <2>5. quotas' \in [Replicas -> [Accounts -> QuotaRows]]
    BY <2>1, <2>2, Zenon
  <2> QED BY <2>3, <2>4, <2>5
<1>4. /\ \A q \in Replicas \ {r} : sandboxes'[q] = sandboxes[q]
      /\ SandboxWritten(r, n, [phase |-> "Draining",
                               account |-> sandboxes[r][n].account,
                               key |-> sandboxes[r][n].key])
      /\ sandboxes' \in [Replicas -> [Ids -> SandboxRows]]
  BY <1>1, PhaseWrites, Zenon
<1> QED BY <1>1, <1>2, <1>3, <1>4, Zenon DEF ReleaseEffect, Released
----------------------------------------------------------------------------
(* The maps of one process. *)

(* What holds of a process's maps still holds if it sees no more than a    *)
(* new limit, a number that is used up, or a record that stays PENDING.    *)
LEMMA QuietReplica ==
  ASSUME NEW q \in Replicas, ReplicaOK(q),
         sequence[q] \in Nat, sequence'[q] \in Nat, sequence'[q] >= sequence[q],
         sandboxes'[q] = sandboxes[q], allocations'[q] = allocations[q],
         \A k \in IdemKeys :
           \/ idempotency'[q][k] = idempotency[q][k]
           \/ /\ idempotency[q][k].status # "SUCCEEDED"
              /\ idempotency'[q][k].status # "SUCCEEDED"
  PROVE  ReplicaOK(q)'
<1>1. SequenceIsAhead(q)'
  BY BoundsAssumption DEF ReplicaOK, SequenceIsAhead, Ids
<1>3. PhasesAgree(q)'
  BY DEF ReplicaOK, PhasesAgree
<1>4. SandboxesAreRecorded(q)'
  BY DEF ReplicaOK, SandboxesAreRecorded
<1>5. RecordsAreTrue(q)'
  BY Zenon DEF ReplicaOK, RecordsAreTrue
<1> QED BY <1>1, <1>3, <1>4, <1>5 DEF ReplicaOK

(* A process that does not take the step. *)
LEMMA OtherReplica ==
  ASSUME TypeOK, NEW q \in Replicas, ReplicaOK(q), sequence'[q] = sequence[q],
         sandboxes'[q] = sandboxes[q], allocations'[q] = allocations[q],
         idempotency'[q] = idempotency[q], quotas'[q] = quotas[q]
  PROVE  ReplicaOK(q)'
<1>1. sequence[q] \in Nat /\ sequence'[q] >= sequence[q]
  BY Typed, BoundsAssumption
<1> QED BY <1>1, QuietReplica

(* A sandbox that is there has a number the process has handed out. *)
LEMMA SandboxIsNumbered ==
  ASSUME TypeOK, NEW r \in Replicas, ReplicaOK(r), NEW n \in Ids,
         sandboxes[r][n] # NoSandbox
  PROVE  n <= sequence[r]
<1>1. n \in Nat /\ sequence[r] \in Nat
  BY Typed, BoundsAssumption DEF Ids
<1> QED BY <1>1 DEF ReplicaOK, SequenceIsAhead

(* A fulfilled create leaves the maps of its process in agreement: its     *)
(* number is new, and no sandbox has its key.                              *)
LEMMA FulfilKeepsMaps ==
  ASSUME TypeOK, NEW r \in Replicas, ReplicaOK(r), NEW k \in IdemKeys,
         NEW owner \in Owners, NEW req \in Requests, ~Prior(r, k),
         NEW n \in Ids, n = sequence[r] + 1, sequence'[r] = n,
         NEW a \in Accounts, a = <<k[1], owner>>, Fulfil(r, k, owner, req)
  PROVE  ReplicaOK(r)'
<1>0. FulfilEffect(r, k, owner, req, n, a)
  BY FulfilWrites
<1>1. /\ \A m \in Ids \ {n} : sandboxes'[r][m] = sandboxes[r][m]
      /\ sandboxes'[r][n].phase = "Ready" /\ sandboxes'[r][n].account = a
      /\ sandboxes'[r][n].key = k[2]
  BY <1>0 DEF FulfilEffect, SandboxWritten
<1>a. /\ \A j \in IdemKeys \ {k} : idempotency'[r][j] = idempotency[r][j]
      /\ idempotency'[r][k].status = "SUCCEEDED"
      /\ idempotency'[r][k].owner = owner /\ idempotency'[r][k].resource = n
  BY <1>0 DEF FulfilEffect, RecordWritten
<1>b. allocations'[r] = Reserved(allocations[r], n, a)
  BY <1>0 DEF FulfilEffect
<1>2. /\ sequence[r] \in Nat /\ Ids \subseteq Nat
      /\ allocations[r] \in [Ids -> AllocationRows]
  BY Typed, BoundsAssumption DEF Ids
<1>3. /\ allocations'[r][n] = [status |-> "RESERVED", account |-> a]
      /\ \A m \in Ids \ {n} : allocations'[r][m] = allocations[r][m]
  BY <1>b, <1>2, Zenon DEF Reserved
<1>p. SequenceIsAhead(r) /\ PhasesAgree(r) /\ SandboxesAreRecorded(r)
  BY Zenon DEF ReplicaOK
<1>4. sandboxes[r][n] = NoSandbox /\ allocations[r][n] = NoAllocationRow
  BY <1>2, <1>p, SMTT(20) DEF SequenceIsAhead
<1>5. SequenceIsAhead(r)'
  BY <1>1, <1>2, <1>3, <1>p, SMTT(20) DEF SequenceIsAhead
<1>7. PhasesAgree(r)'
  BY <1>1, <1>3, <1>p DEF PhasesAgree
<1>8. SandboxesAreRecorded(r)'
  <2> SUFFICES ASSUME NEW j \in IdemKeys, NEW m \in Ids,
                      sandboxes'[r][m].key = j[2],
                      sandboxes'[r][m].account[1] = j[1]
               PROVE  /\ idempotency'[r][j].status = "SUCCEEDED"
                      /\ idempotency'[r][j].resource = m
                      /\ sandboxes'[r][m].account = <<j[1], idempotency'[r][j].owner>>
    BY Zenon DEF SandboxesAreRecorded
  <2>1. CASE m = n
    <3>1. j[2] = k[2] /\ j[1] = k[1]
      BY <1>1, <2>1
    <3>2. j = k
      BY <3>1 DEF IdemKeys
    <3> QED BY <1>1, <1>a, <2>1, <3>2, Zenon
  <2>2. CASE m # n
    <3>1. /\ idempotency[r][j].status = "SUCCEEDED"
          /\ idempotency[r][j].resource = m
          /\ sandboxes[r][m].account = <<j[1], idempotency[r][j].owner>>
      BY <1>1, <1>p, <2>2 DEF SandboxesAreRecorded
    <3>2. j # k
      BY <3>1, Zenon DEF Prior
    <3> QED BY <1>1, <1>a, <2>2, <3>1, <3>2, Zenon
  <2> QED BY <2>1, <2>2, Zenon
<1>9. RecordsAreTrue(r)'
  <2> SUFFICES ASSUME NEW j \in IdemKeys, idempotency'[r][j].status = "SUCCEEDED"
               PROVE  /\ idempotency'[r][j].resource \in Ids
                      /\ sandboxes'[r][idempotency'[r][j].resource].key = j[2]
                      /\ sandboxes'[r][idempotency'[r][j].resource].account
                           = <<j[1], idempotency'[r][j].owner>>
    BY Zenon DEF RecordsAreTrue
  <2>1. CASE j = k
    BY <1>1, <1>a, <2>1, Zenon
  <2>2. CASE j # k
    <3>1. idempotency'[r][j] = idempotency[r][j]
      BY <1>a, <2>2
    <3>2. PICK m \in Ids : /\ m = idempotency[r][j].resource
                           /\ sandboxes[r][m].key = j[2]
                           /\ sandboxes[r][m].account = <<j[1], idempotency[r][j].owner>>
      BY <3>1, Zenon DEF ReplicaOK, RecordsAreTrue
    <3>3. m # n
      <4>1. j[2] \in Keys
        BY DEF IdemKeys
      <4>2. sandboxes[r][n].key = NoKey
        BY <1>4 DEF NoSandbox
      <4> QED BY <3>2, <4>1, <4>2, NullsAreDistinct, Zenon
    <3> QED BY <1>1, <3>1, <3>2, <3>3, Zenon
  <2> QED BY <2>1, <2>2, Zenon
<1> QED BY <1>5, <1>7, <1>8, <1>9 DEF ReplicaOK

(* A change of phase that goes with the allocation leaves the maps of its  *)
(* process in agreement.                                                   *)
LEMMA PhaseKeepsMaps ==
  ASSUME TypeOK, NEW r \in Replicas, ReplicaOK(r), NEW n \in Ids,
         sandboxes[r][n] # NoSandbox,
         \A m \in Ids \ {n} : /\ sandboxes'[r][m] = sandboxes[r][m]
                              /\ allocations'[r][m] = allocations[r][m],
         sandboxes'[r][n].phase # "Ready",
         sandboxes'[r][n].account = sandboxes[r][n].account,
         sandboxes'[r][n].key = sandboxes[r][n].key,
         allocations'[r][n].status # "RESERVED",
         allocations'[r][n].account = allocations[r][n].account,
         sequence'[r] = sequence[r], idempotency'[r] = idempotency[r]
  PROVE  ReplicaOK(r)'
<1>1. SequenceIsAhead(r)'
  <2>1. n <= sequence[r]
    BY SandboxIsNumbered
  <2>2. sequence[r] \in Nat /\ Ids \subseteq Nat
    BY Typed, BoundsAssumption DEF Ids
  <2> QED BY <2>1, <2>2 DEF ReplicaOK, SequenceIsAhead
<1>2. PhasesAgree(r)'
  BY SMTT(20) DEF ReplicaOK, PhasesAgree
<1>3. \A m \in Ids : /\ sandboxes'[r][m].account = sandboxes[r][m].account
                     /\ sandboxes'[r][m].key = sandboxes[r][m].key
  BY Zenon
<1>4. SandboxesAreRecorded(r)'
  BY <1>3 DEF ReplicaOK, SandboxesAreRecorded
<1>5. RecordsAreTrue(r)'
  <2> SUFFICES ASSUME NEW k \in IdemKeys, idempotency[r][k].status = "SUCCEEDED"
               PROVE  /\ idempotency[r][k].resource \in Ids
                      /\ sandboxes'[r][idempotency[r][k].resource].key = k[2]
                      /\ sandboxes'[r][idempotency[r][k].resource].account
                           = <<k[1], idempotency[r][k].owner>>
    BY Zenon DEF RecordsAreTrue
  <2>1. PICK m \in Ids : /\ m = idempotency[r][k].resource
                         /\ sandboxes[r][m].key = k[2]
                         /\ sandboxes[r][m].account = <<k[1], idempotency[r][k].owner>>
    BY Zenon DEF ReplicaOK, RecordsAreTrue
  <2> QED BY <1>3, <2>1, Zenon
<1> QED BY <1>1, <1>2, <1>4, <1>5 DEF ReplicaOK

(* A release leaves the maps of its process in agreement. *)
LEMMA ReleaseKeepsMaps ==
  ASSUME TypeOK, NEW r \in Replicas, ReplicaOK(r), NEW n \in Ids,
         sandboxes[r][n] # NoSandbox, allocations[r][n].status = "RESERVED",
         NEW a \in Accounts, a = allocations[r][n].account,
         ReleaseEffect(r, n, a), sequence' = sequence, idempotency' = idempotency
  PROVE  ReplicaOK(r)'
<1>1. /\ \A m \in Ids \ {n} : sandboxes'[r][m] = sandboxes[r][m]
      /\ sandboxes'[r][n].phase # "Ready"
      /\ sandboxes'[r][n].account = sandboxes[r][n].account
      /\ sandboxes'[r][n].key = sandboxes[r][n].key
  <2>1. SandboxWritten(r, n, [phase |-> "Draining",
                              account |-> sandboxes[r][n].account,
                              key |-> sandboxes[r][n].key])
    BY Zenon DEF ReleaseEffect
  <2> QED BY <2>1 DEF SandboxWritten
<1>2. allocations'[r] = Released(allocations[r], n)
  BY DEF ReleaseEffect
<1>3. allocations[r] \in [Ids -> AllocationRows]
  BY Typed
<1>4. /\ \A m \in Ids \ {n} : allocations'[r][m] = allocations[r][m]
      /\ allocations'[r][n].status = "RELEASED"
      /\ allocations'[r][n].account = allocations[r][n].account
  <2> DEFINE row == [allocations[r][n] EXCEPT !.status = "RELEASED"]
  <2>1. allocations[r][n] \in AllocationRows
    BY <1>3
  <2>2. row.status = "RELEASED" /\ row.account = allocations[r][n].account
    BY <2>1 DEF AllocationRows
  <2>3. allocations'[r] = [allocations[r] EXCEPT ![n] = row]
    BY <1>2 DEF Released
  <2> HIDE DEF row
  <2> QED BY <1>3, <2>2, <2>3
<1>6. sequence'[r] = sequence[r] /\ idempotency'[r] = idempotency[r]
  OBVIOUS
<1> QED BY <1>1, <1>4, <1>6, PhaseKeepsMaps, SMTT(20)

(* An empty process's maps agree. *)
LEMMA EmptyMapsAgree ==
  ASSUME NEW r \in Replicas, sequence'[r] = 0,
         sandboxes'[r] = [n \in Ids |-> NoSandbox],
         allocations'[r] = [n \in Ids |-> NoAllocationRow],
         idempotency'[r] = [k \in IdemKeys |-> NoRecord]
  PROVE  ReplicaOK(r)'
<1>1. SequenceIsAhead(r)'
  BY DEF SequenceIsAhead
<1>3. PhasesAgree(r)'
  BY DEF PhasesAgree, NoSandbox, NoAllocationRow
<1>4. SandboxesAreRecorded(r)'
  <2>1. \A k \in IdemKeys : k[2] # NoKey
    BY NullsAreDistinct DEF IdemKeys
  <2>2. \A n \in Ids : sandboxes'[r][n].key = NoKey
    BY DEF NoSandbox
  <2> QED BY <2>1, <2>2 DEF SandboxesAreRecorded
<1>5. RecordsAreTrue(r)'
  BY DEF RecordsAreTrue, NoRecord
<1> QED BY <1>1, <1>3, <1>4, <1>5 DEF ReplicaOK
----------------------------------------------------------------------------
(* The governance store. *)
Balanced ==
  /\ quota \in [Accounts -> QuotaRows] /\ alloc \in [Ids -> AllocationRows]
  /\ LedgerOK

(* A limit that covers the usage keeps the ledger balanced. *)
LEMMA GovSetQuota ==
  ASSUME Balanced, NEW a \in Accounts, NEW limit \in Nat, Gov!SetQuota(a, limit)
  PROVE  /\ Balanced' /\ alloc' = alloc
         /\ quota' = [quota EXCEPT ![a] = [row |-> "present", limit |-> limit,
                                           count |-> quota[a].count]]
<1> DEFINE row == [row |-> "present", limit |-> limit, count |-> quota[a].count]
<1>1. quota[a] \in QuotaRows
  BY DEF Balanced
<1>2. row \in QuotaRows
  BY <1>1 DEF QuotaRows
<1>3. [quota[a] EXCEPT !.row = "present", !.limit = limit] = row
  <2>1. [quota[a] EXCEPT !.row = "present"]
          = [row |-> "present", limit |-> quota[a].limit, count |-> quota[a].count]
    BY <1>1 DEF QuotaRows
  <2>2. [[row |-> "present", limit |-> quota[a].limit, count |-> quota[a].count]
          EXCEPT !.limit = limit] = row
    OBVIOUS
  <2> QED BY <2>1, <2>2, Zenon
<1>4. quota' = [quota EXCEPT ![a] = row] /\ alloc' = alloc /\ quota[a].count <= limit
  BY <1>3, Zenon DEF Gov!SetQuota, Gov!FitsUsage
<1>5. quota' \in [Accounts -> QuotaRows]
  BY <1>2, <1>4 DEF Balanced
<1>6. LedgerOK'
  <2>1. \A b \in Accounts :
          /\ quota[b].count <= quota[b].limit
          /\ quota[b].count > 0 => quota[b].row = "present"
    BY DEF Balanced, LedgerOK
  <2>2. \A b \in Accounts :
          /\ quota'[b].count = quota[b].count
          /\ quota'[b].count <= quota'[b].limit
          /\ quota'[b].count > 0 => quota'[b].row = "present"
    BY <1>4, <2>1 DEF Balanced
  <2> QED BY <2>2 DEF LedgerOK
<1> QED BY <1>4, <1>5, <1>6 DEF Balanced

(* A reserve takes a slot that was free and a row that was not there.      *)
LEMMA GovReserve ==
  ASSUME Balanced, NEW a \in Accounts, NEW n \in Ids, Gov!ReserveAllocation(a, n)
  PROVE  /\ Balanced' /\ alloc' = Reserved(alloc, n, a) /\ alloc[n].status = "ABSENT"
         /\ quota[a].row = "present" /\ quota[a].count < quota[a].limit
         /\ quota' = [quota EXCEPT ![a] = [row |-> "present", limit |-> quota[a].limit,
                                           count |-> quota[a].count + 1]]
<1> DEFINE row == [row |-> "present", limit |-> quota[a].limit,
                   count |-> quota[a].count + 1]
<1>1. quota[a] \in QuotaRows
  BY DEF Balanced
<1>2. /\ quota[a].row = "present" /\ quota[a].count < quota[a].limit
      /\ alloc[n].status = "ABSENT" /\ alloc' = Reserved(alloc, n, a)
      /\ quota' = [quota EXCEPT ![a].count = @ + 1]
  BY DEF Gov!ReserveAllocation, Gov!HasRoom, Gov!IsUnused, Reserved
<1>3. row \in QuotaRows /\ row = [quota[a] EXCEPT !.count = @ + 1]
  BY <1>1, <1>2 DEF QuotaRows
<1>4. quota' = [quota EXCEPT ![a] = row]
  BY <1>2, <1>3, Zenon
<1>5. quota' \in [Accounts -> QuotaRows] /\ alloc' \in [Ids -> AllocationRows]
  <2>1. [status |-> "RESERVED", account |-> a] \in AllocationRows
    BY DEF AllocationRows
  <2> QED BY <1>2, <1>3, <1>4, <2>1 DEF Balanced, Reserved
<1>6. LedgerOK'
  <2> SUFFICES ASSUME NEW b \in Accounts
               PROVE  /\ quota'[b].count <= quota'[b].limit
                      /\ quota'[b].count > 0 => quota'[b].row = "present"
    BY DEF LedgerOK
  <2>1. /\ quota[b].count <= quota[b].limit
        /\ quota[b].count > 0 => quota[b].row = "present"
    BY DEF Balanced, LedgerOK
  <2>3. CASE b = a
    <3>1. quota'[b] = row
      BY <1>4, <2>3 DEF Balanced
    <3>2. quota[a].count \in Nat /\ quota[a].limit \in Nat
      BY <1>1 DEF QuotaRows
    <3> QED BY <1>2, <2>1, <2>3, <3>1, <3>2
  <2>4. CASE b # a
    <3>1. quota'[b] = quota[b]
      BY <1>4, <2>4 DEF Balanced
    <3> QED BY <2>1, <2>4, <3>1
  <2> QED BY <2>3, <2>4
<1> QED BY <1>2, <1>4, <1>5, <1>6, Zenon DEF Balanced

(* A release of a row that is held gives a slot back. *)
LEMMA GovRelease ==
  ASSUME Balanced, NEW a \in Accounts, NEW n \in Ids, Gov!ReleaseAllocation(a, n)
  PROVE  /\ Balanced' /\ alloc' = Released(alloc, n)
         /\ alloc[n].status = "RESERVED" /\ alloc[n].account = a
         /\ quota[a].count > 0
         /\ quota' = [quota EXCEPT ![a].count = @ - 1]
<1> DEFINE row == [quota[a] EXCEPT !.count = @ - 1]
           entry == [alloc[n] EXCEPT !.status = "RELEASED"]
<1>1. quota[a] \in QuotaRows /\ alloc[n] \in AllocationRows
  BY DEF Balanced
<1>2. /\ alloc[n].status = "RESERVED" /\ alloc[n].account = a /\ quota[a].count > 0
      /\ quota' = [quota EXCEPT ![a].count = @ - 1]
      /\ alloc' = Released(alloc, n)
  BY DEF Gov!ReleaseAllocation, Gov!IsHeldBy, Released
<1>3. /\ row \in QuotaRows /\ row.row = quota[a].row /\ row.limit = quota[a].limit
      /\ row.count = quota[a].count - 1
  BY <1>1, <1>2 DEF QuotaRows
<1>4. entry \in AllocationRows
  BY <1>1 DEF AllocationRows
<1>5. quota' = [quota EXCEPT ![a] = row] /\ alloc' = [alloc EXCEPT ![n] = entry]
  BY <1>2 DEF Released
<1> HIDE DEF row, entry
<1>6. quota' \in [Accounts -> QuotaRows] /\ alloc' \in [Ids -> AllocationRows]
  BY <1>3, <1>4, <1>5 DEF Balanced
<1>7. LedgerOK'
  <2> SUFFICES ASSUME NEW b \in Accounts
               PROVE  /\ quota'[b].count <= quota'[b].limit
                      /\ quota'[b].count > 0 => quota'[b].row = "present"
    BY DEF LedgerOK
  <2>1. /\ quota[b].count <= quota[b].limit
        /\ quota[b].count > 0 => quota[b].row = "present"
    BY DEF Balanced, LedgerOK
  <2>3. CASE b = a
    <3>1. quota'[b] = row
      BY <1>5, <2>3 DEF Balanced
    <3>2. quota[a].count \in Nat /\ quota[a].limit \in Nat
      BY <1>1 DEF QuotaRows
    <3> QED BY <1>2, <1>3, <2>1, <2>3, <3>1, <3>2, SMTT(20)
  <2>4. CASE b # a
    <3>1. quota'[b] = quota[b]
      BY <1>5, <2>4 DEF Balanced
    <3> QED BY <2>1, <2>4, <3>1
  <2> QED BY <2>3, <2>4
<1> QED BY <1>2, <1>6, <1>7 DEF Balanced

(* Empty tables have nothing in use. *)
LEMMA GovEmpty ==
  ASSUME NEW q, NEW t, q = [a \in Accounts |-> NoRow],
         t = [n \in Ids |-> NoAllocationRow]
  PROVE  /\ q \in [Accounts -> QuotaRows] /\ t \in [Ids -> AllocationRows]
         /\ \A a \in Accounts : q[a].count = 0 /\ q[a].limit = 0
<1>1. NoRow \in QuotaRows /\ NoAllocationRow \in AllocationRows
  BY DEF NoRow, QuotaRows, NoAllocationRow, AllocationRows
<1>2. \A a \in Accounts : q[a].count = 0 /\ q[a].limit = 0
  BY DEF NoRow
<1> QED BY <1>1, <1>2
----------------------------------------------------------------------------
(* The maps and the ledger. *)

(* A step of r about number n leaves what holds of the maps and the ledger *)
(* in place if no other process has a sandbox of that number and its own   *)
(* is booked.                                                              *)
LEMMA BookStep ==
  ASSUME TypeOK, BookInv, UNCHANGED deployment, NEW r \in running, NEW n \in Ids,
         \A q \in Replicas, m \in Ids :
           q # r \/ m # n => sandboxes'[q][m] = sandboxes[q][m],
         \A q \in Replicas, m \in Ids :
           q # r \/ m # n => (m \in drainFailed'[q] <=> m \in drainFailed[q]),
         \A m \in Ids \ {n} : alloc'[m] = alloc[m],
         \A q \in Replicas \ {r} : sandboxes[q][n] = NoSandbox,
         backend # "none" => Booked(r, n)',
         backend # "sql" => drainFailed' = drainFailed
  PROVE  BookInv'
<1>0. /\ r \in Replicas /\ running' = running /\ backend' = backend
      /\ running \subseteq Replicas
  BY Typed, SMTT(20) DEF deployment
<1>1. OneProcess'
  BY <1>0 DEF BookInv, OneProcess
<1>2. IdleIsEmpty'
  BY <1>0, SMTT(20) DEF BookInv, IdleIsEmpty
<1>3. DrainsFailInSql'
  BY <1>0, SMTT(20) DEF BookInv, DrainsFailInSql
<1>4. OneHolder'
  BY <1>0, SMTT(20) DEF BookInv, OneHolder
<1>5. ASSUME backend # "none", NEW q \in Replicas, NEW m \in Ids
      PROVE  Booked(q, m)'
  <2>1. CASE q = r /\ m = n
    BY <1>5, <2>1, Zenon
  <2>2. CASE m # n
    <3>1. Booked(q, m)
      BY <1>5 DEF BookInv
    <3>2. /\ sandboxes'[q][m] = sandboxes[q][m] /\ alloc'[m] = alloc[m]
          /\ m \in drainFailed'[q] <=> m \in drainFailed[q]
      BY <2>2, Zenon
    <3> QED BY <3>1, <3>2 DEF Booked
  <2>3. CASE q # r /\ m = n
    <3>1. sandboxes'[q][m] = NoSandbox
      BY <2>3, SMTT(20)
    <3> QED BY <3>1 DEF Booked
  <2> QED BY <2>1, <2>2, <2>3
<1> QED BY <1>0, <1>1, <1>2, <1>3, <1>4, <1>5, Zenon DEF BookInv

(* So does a step that leaves sandboxes and allocation rows alone. *)
LEMMA BookFrame ==
  ASSUME BookInv, UNCHANGED deployment, UNCHANGED <<alloc, sandboxes, drainFailed>>
  PROVE  BookInv'
BY DEF BookInv, OneProcess, IdleIsEmpty, DrainsFailInSql, OneHolder, Booked, deployment

(* A number whose row is not in the ledger, or without a ledger a number   *)
(* that is new to the one process, has no sandbox anywhere.                *)
LEMMA NewNumber ==
  ASSUME TypeOK, BookInv, NEW r \in running, ReplicaOK(r), NEW n \in Ids,
         n > sequence[r], backend # "none" => alloc[n].status = "ABSENT"
  PROVE  \A q \in Replicas : sandboxes[q][n] = NoSandbox
<1>1. CASE backend # "none"
  BY <1>1 DEF BookInv, Booked
<1>2. CASE backend = "none"
  <2>1. sandboxes[r][n] = NoSandbox
    BY DEF ReplicaOK, SequenceIsAhead
  <2> QED BY <1>2, <2>1 DEF BookInv, OneProcess, IdleIsEmpty
<1> QED BY <1>1, <1>2
----------------------------------------------------------------------------
(* SetQuota. *)

(* A new limit is the only thing a process writes. *)
BudgetWritten(r, a, limit) ==
  /\ \A q \in Replicas \ {r} : quotas'[q] = quotas[q]
  /\ quotas'[r] = [quotas[r] EXCEPT ![a] =
       [row |-> "present", limit |-> limit, count |-> quotas[r][a].count]]

(* The row that SetQuota materializes, with the old limit or the new one. *)
LEMMA RowSet ==
  ASSUME NEW q \in QuotaRows, NEW limit \in Nat
  PROVE  /\ [q EXCEPT !.row = "present"]
              = [row |-> "present", limit |-> q.limit, count |-> q.count]
         /\ [q EXCEPT !.row = "present", !.limit = limit]
              = [row |-> "present", limit |-> limit, count |-> q.count]
<1>1. [q EXCEPT !.row = "present"]
        = [row |-> "present", limit |-> q.limit, count |-> q.count]
  BY DEF QuotaRows
<1>2. [[row |-> "present", limit |-> q.limit, count |-> q.count] EXCEPT !.limit = limit]
        = [row |-> "present", limit |-> limit, count |-> q.count]
  BY SMTT(20)
<1> QED BY <1>1, <1>2, Zenon

(* SetQuota writes one budget of the process it is called on. *)
LEMMA SetQuotaWrites ==
  ASSUME TypeOK, NEW r \in Replicas, NEW a \in Accounts, NEW limit \in Nat
  PROVE  /\ quotas' = WithRow(r, a) =>
              /\ BudgetWritten(r, a, quotas[r][a].limit)
              /\ quotas' \in [Replicas -> [Accounts -> QuotaRows]]
         /\ quotas' = WithLimit(r, a, limit) =>
              /\ BudgetWritten(r, a, limit)
              /\ quotas' \in [Replicas -> [Accounts -> QuotaRows]]
<1> USE Typed
<1> DEFINE q == quotas[r][a]
           kept == [row |-> "present", limit |-> q.limit, count |-> q.count]
           new == [row |-> "present", limit |-> limit, count |-> q.count]
<1>1. q \in QuotaRows
  OBVIOUS
<1>2. kept \in QuotaRows /\ new \in QuotaRows
  BY <1>1, SMTT(20) DEF QuotaRows
<1>3. /\ [q EXCEPT !.row = "present"] = kept
      /\ [q EXCEPT !.row = "present", !.limit = limit] = new
  BY <1>1, RowSet
<1>4. WithRow(r, a) = [quotas EXCEPT ![r] = [quotas[r] EXCEPT ![a] = kept]]
  BY <1>3, Zenon DEF WithRow
<1>5. WithLimit(r, a, limit) = [quotas EXCEPT ![r] = [quotas[r] EXCEPT ![a] = new]]
  <2>1. WithLimit(r, a, limit)
          = [quotas EXCEPT ![r] = [quotas[r] EXCEPT ![a] =
               [q EXCEPT !.row = "present", !.limit = limit]]]
    BY Zenon DEF WithLimit
  <2> QED BY <1>3, <2>1, Zenon
<1> HIDE DEF kept, new
<1>6. quotas' = WithRow(r, a) =>
        /\ \A p \in Replicas \ {r} : quotas'[p] = quotas[p]
        /\ quotas'[r] = [quotas[r] EXCEPT ![a] = kept]
        /\ quotas' \in [Replicas -> [Accounts -> QuotaRows]]
  BY <1>2, <1>4
<1>7. quotas' = WithLimit(r, a, limit) =>
        /\ \A p \in Replicas \ {r} : quotas'[p] = quotas[p]
        /\ quotas'[r] = [quotas[r] EXCEPT ![a] = new]
        /\ quotas' \in [Replicas -> [Accounts -> QuotaRows]]
  BY <1>2, <1>5
<1> QED BY <1>6, <1>7, SMTT(20) DEF BudgetWritten, kept, new

(* SetQuota keeps the invariant: a refused limit leaves a row that, where  *)
(* a memory store refused it, was there already.                           *)
LEMMA SetQuotaKeeps ==
  ASSUME IInv, UNCHANGED deployment, NEW r \in running, NEW a \in Accounts,
         NEW limit \in Nat, SetQuota(r, a, limit)
  PROVE  IInv'
<1>0. /\ TypeOK /\ MapsInv /\ BookInv /\ Balanced /\ r \in Replicas
      /\ UNCHANGED <<sequence, sandboxes, allocations, idempotency, drainFailed>>
      /\ running' = running /\ backend' = backend
  BY Typed, SMTT(20) DEF IInv, Balanced, SetQuota, deployment
<1>1. PICK l \in Nat :
        /\ BudgetWritten(r, a, l) /\ quotas' \in [Replicas -> [Accounts -> QuotaRows]]
        /\ Balanced' /\ alloc' = alloc
        /\ backend = "none" => quotas[r][a].count <= l
        /\ backend = "memory" =>
             \/ quota' = [quota EXCEPT ![a] = [row |-> "present", limit |-> l,
                                               count |-> quota[a].count]]
             \/ /\ quota' = quota /\ quota[a].row = "present"
                /\ l = quotas[r][a].limit
  <2>0. quotas[r][a] \in QuotaRows /\ quota[a] \in QuotaRows
    BY <1>0, Typed
  <2>1. /\ quotas[r][a].limit \in Nat /\ quotas[r][a].count \in Nat
        /\ quota[a].count \in Nat
    BY <2>0 DEF QuotaRows
  <2>2. UNCHANGED govVars => Balanced' /\ alloc' = alloc /\ quota' = quota
    BY <1>0 DEF govVars, Balanced, LedgerOK
  <2>3. Gov!SetQuota(a, limit) =>
          /\ Balanced' /\ alloc' = alloc
          /\ quota' = [quota EXCEPT ![a] = [row |-> "present", limit |-> limit,
                                            count |-> quota[a].count]]
    BY <1>0, GovSetQuota, Zenon
  <2>4. /\ quotas' = WithRow(r, a) =>
             /\ BudgetWritten(r, a, quotas[r][a].limit)
             /\ quotas' \in [Replicas -> [Accounts -> QuotaRows]]
        /\ quotas' = WithLimit(r, a, limit) =>
             /\ BudgetWritten(r, a, limit)
             /\ quotas' \in [Replicas -> [Accounts -> QuotaRows]]
    BY <1>0, SetQuotaWrites, Zenon
  <2>5. CASE SetQuotaLocal(r, a, limit)
    <3>1. backend = "none" /\ UNCHANGED govVars
      BY <2>5, Zenon DEF SetQuotaLocal
    <3>2. CASE limit < quotas[r][a].count
      <4>1. quotas' = WithRow(r, a)
        BY <2>5, <3>2 DEF SetQuotaLocal
      <4>2. quotas[r][a].count <= quotas[r][a].limit
        BY <1>0, <3>1, Zenon DEF IInv, LocalLimit
      <4> QED BY <2>1, <2>2, <2>4, <3>1, <4>1, <4>2, Zenon
    <3>3. CASE ~(limit < quotas[r][a].count)
      <4>1. quotas' = WithLimit(r, a, limit)
        BY <2>5, <3>3, Zenon DEF SetQuotaLocal
      <4> QED BY <2>1, <2>2, <2>4, <3>1, <3>3, <4>1
    <3> QED BY <3>2, <3>3
  <2>6. CASE SetQuotaGoverned(r, a, limit)
    <3>0. backend # "none"
      BY <2>6 DEF SetQuotaGoverned
    <3>1. CASE Gov!SetQuota(a, limit) /\ quotas' = WithLimit(r, a, limit)
      BY <2>3, <2>4, <3>0, <3>1, Zenon
    <3>2. CASE Fault("lostAck") /\ Gov!SetQuota(a, limit) /\ quotas' = WithRow(r, a)
      <4>1. backend = "sql"
        BY <3>2, Zenon DEF Fault
      <4> QED BY <2>1, <2>3, <2>4, <3>2, <4>1
    <3>3. CASE /\ ~Gov!FitsUsage(a, limit) \/ Fault("error")
               /\ UNCHANGED govVars /\ quotas' = WithRow(r, a)
      <4>1. backend = "memory" => quota[a].count > 0
        BY <2>1, <3>3 DEF Gov!FitsUsage, Fault
      <4>2. backend = "memory" => quota[a].row = "present"
        BY <1>0, <4>1, Zenon DEF Balanced, LedgerOK
      <4> QED BY <2>1, <2>2, <2>4, <3>0, <3>3, <4>2, Zenon
    <3> QED BY <2>6, <3>1, <3>2, <3>3 DEF SetQuotaGoverned
  <2> QED BY <2>5, <2>6 DEF SetQuota
<1>2. /\ quotas[r] \in [Accounts -> QuotaRows] /\ quota \in [Accounts -> QuotaRows]
      /\ \A q \in Replicas \ {r} : quotas'[q] = quotas[q]
      /\ quotas'[r] = [quotas[r] EXCEPT ![a] =
           [row |-> "present", limit |-> l, count |-> quotas[r][a].count]]
  BY <1>0, <1>1, Typed, Zenon DEF BudgetWritten
<1>3. TypeOK' /\ LedgerOK'
  BY <1>0, <1>1, Typed, TypedNext, Zenon DEF Balanced
<1>4. MapsInv'
  <2> SUFFICES ASSUME NEW q \in Replicas PROVE ReplicaOK(q)'
    BY DEF MapsInv
  <2>2. sequence[q] \in Nat /\ sequence'[q] = sequence[q] /\ sequence[q] >= sequence[q]
    BY <1>0, Typed, BoundsAssumption
  <2> QED BY <1>0, <2>2, QuietReplica DEF MapsInv
<1>5. BookInv'
  BY <1>0, <1>1, BookFrame, Zenon
<1>6. NoStuckKey'
  BY <1>0, Zenon DEF IInv, NoStuckKey
<1>7. ProjectionInSync'
  <2> SUFFICES ASSUME backend = "memory" PROVE \A q \in running : quotas'[q] = quota'
    BY <1>0 DEF ProjectionInSync
  <2>1. \A q \in running : q = r
    BY <1>0 DEF BookInv, OneProcess
  <2>2. quotas[r] = quota
    BY DEF IInv, ProjectionInSync
  <2>3. CASE quota' = [quota EXCEPT ![a] = [row |-> "present", limit |-> l,
                                            count |-> quota[a].count]]
    BY <1>2, <2>1, <2>2, <2>3, Zenon
  <2>4. CASE quota' = quota /\ quota[a].row = "present" /\ l = quotas[r][a].limit
    <3>1. quota[a] \in QuotaRows
      BY <1>2, Zenon
    <3>2. quota[a] = [row |-> "present", limit |-> l, count |-> quota[a].count]
      BY <2>2, <2>4, <3>1, Zenon DEF QuotaRows
    <3>3. quotas'[r] = [quota EXCEPT ![a] = quota[a]]
      BY <1>2, <2>2, <3>2, Zenon
    <3>4. quotas'[r] = quota
      BY <1>2, <3>3, SMTT(20)
    <3> QED BY <2>1, <2>4, <3>4, Zenon
  <2> QED BY <1>1, <2>3, <2>4
<1>8. LocalLimit'
  <2> SUFFICES ASSUME backend = "none", NEW q \in Replicas, NEW b \in Accounts
               PROVE  quotas'[q][b].count <= quotas'[q][b].limit
    BY <1>0, Zenon DEF LocalLimit
  <2>1. quotas[q][b].count <= quotas[q][b].limit
    BY Zenon DEF IInv, LocalLimit
  <2> QED BY <1>1, <1>2, <2>1
<1> QED BY <1>3, <1>4, <1>5, <1>6, <1>7, <1>8, SMTT(20) DEF IInv
----------------------------------------------------------------------------
(* Create. *)

(* A create that succeeds keeps the invariant: the row it reserved was not *)
(* there, so no process has a sandbox of its number.                       *)
LEMMA CreateFulfilled ==
  ASSUME IInv, UNCHANGED deployment, UNCHANGED drainFailed, NEW r \in running,
         NEW k \in IdemKeys, NEW owner \in Owners, NEW req \in Requests, ~Prior(r, k),
         NEW n \in Ids, n = sequence[r] + 1, sequence' = [sequence EXCEPT ![r] = n],
         NEW a \in Accounts, a = <<k[1], owner>>, Fulfil(r, k, owner, req),
         \/ /\ backend = "none" /\ UNCHANGED govVars
            /\ quotas[r][a].count < quotas[r][a].limit
         \/ backend # "none" /\ Gov!ReserveAllocation(a, n)
  PROVE  IInv'
<1>0. /\ TypeOK /\ MapsInv /\ BookInv /\ Balanced /\ r \in Replicas /\ ReplicaOK(r)
      /\ running' = running /\ backend' = backend
  BY Typed, Zenon DEF IInv, MapsInv, Balanced, deployment
<1>1. FulfilEffect(r, k, owner, req, n, a)
  BY <1>0, FulfilWrites, Zenon
<1>2. OthersKept(r)
  BY <1>1, Zenon DEF FulfilEffect
<1>3. SandboxWritten(r, n, [phase |-> "Ready", account |-> a, key |-> k[2]])
  BY <1>1, Zenon DEF FulfilEffect
<1>4. RecordWritten(r, k, [status |-> "SUCCEEDED", owner |-> owner,
                           hash |-> Normalize(req), resource |-> n])
  BY <1>1, Zenon DEF FulfilEffect
<1>5. quotas'[r] = [quotas[r] EXCEPT ![a] =
        [row |-> "present", limit |-> quotas[r][a].limit,
         count |-> quotas[r][a].count + 1]]
  BY <1>1, Zenon DEF FulfilEffect
<1>6. Balanced'
  <2>1. CASE UNCHANGED govVars
    BY <1>0, <2>1, Zenon DEF govVars, Balanced, LedgerOK
  <2>2. CASE Gov!ReserveAllocation(a, n)
    BY <1>0, <2>2, GovReserve, Zenon
  <2> QED BY <2>1, <2>2, Zenon
<1>7. backend # "none" =>
        /\ alloc[n].status = "ABSENT" /\ alloc' = Reserved(alloc, n, a)
        /\ quota' = [quota EXCEPT ![a] = [row |-> "present", limit |-> quota[a].limit,
                                          count |-> quota[a].count + 1]]
  BY <1>0, GovReserve, Zenon
<1>8. sequence[r] \in Nat /\ n > sequence[r] /\ sequence'[r] = n
  BY <1>0, Typed, BoundsAssumption
<1>9. \A q \in Replicas : sandboxes[q][n] = NoSandbox
  BY <1>0, <1>7, <1>8, NewNumber, Zenon
<1>10. TypeOK' /\ LedgerOK'
  <2>1. sequence' \in [Replicas -> 0..MaxSeq]
    <3>1. n \in 0..MaxSeq
      BY IdsAreBounded, Zenon
    <3> QED BY <1>0, <3>1, Typed, Zenon
  <2>2. /\ sandboxes' \in [Replicas -> [Ids -> SandboxRows]]
        /\ allocations' \in [Replicas -> [Ids -> AllocationRows]]
        /\ idempotency' \in [Replicas -> [IdemKeys -> Records]]
        /\ quotas' \in [Replicas -> [Accounts -> QuotaRows]]
    BY <1>0, FulfilTyped, Zenon
  <2> QED BY <1>0, <1>6, <2>1, <2>2, Typed, TypedNext, Zenon DEF Balanced
<1>11. MapsInv'
  <2> SUFFICES ASSUME NEW q \in Replicas PROVE ReplicaOK(q)'
    BY Zenon DEF MapsInv
  <2>1. CASE q = r
    BY <1>0, <1>8, <2>1, FulfilKeepsMaps, Zenon
  <2>2. CASE q # r
    <3>1. /\ sandboxes'[q] = sandboxes[q] /\ allocations'[q] = allocations[q]
          /\ idempotency'[q] = idempotency[q] /\ quotas'[q] = quotas[q]
      BY <1>2, <2>2, Zenon DEF OthersKept
    <3>2. sequence'[q] = sequence[q]
      BY <1>0, <2>2, Typed, Zenon
    <3>3. ReplicaOK(q)
      BY <1>0, Zenon DEF MapsInv
    <3> QED BY <1>0, <3>1, <3>2, <3>3, OtherReplica, Zenon
  <2> QED BY <2>1, <2>2, Zenon
<1>12. BookInv'
  <2>1. \A q \in Replicas, m \in Ids :
          q # r \/ m # n => sandboxes'[q][m] = sandboxes[q][m]
    BY <1>2, <1>3, Zenon DEF OthersKept, SandboxWritten
  <2>2. \A m \in Ids \ {n} : alloc'[m] = alloc[m]
    BY <1>0, <1>7, Zenon DEF govVars, Balanced, Reserved
  <2>3. backend # "none" => Booked(r, n)'
    <3>1. backend # "none" => alloc'[n] = [status |-> "RESERVED", account |-> a]
      BY <1>0, <1>7, Zenon DEF Balanced, Reserved
    <3>2. sandboxes'[r][n].phase = "Ready" /\ sandboxes'[r][n].account = a
      <4> DEFINE s == sandboxes'[r][n]
                 key == k[2]
      <4>1. s = [phase |-> "Ready", account |-> a, key |-> key]
        BY <1>3, Zenon DEF SandboxWritten
      <4> HIDE DEF s, key
      <4>2. s.phase = "Ready" /\ s.account = a
        BY <4>1, WrittenFields
      <4> QED BY <4>2, Zenon DEF s
    <3>3. backend # "none" =>
            alloc'[n].status = "RESERVED" /\ alloc'[n].account = a
      <4> DEFINE row == alloc'[n]
      <4> SUFFICES ASSUME backend # "none"
                   PROVE  row.status = "RESERVED" /\ row.account = a
        OBVIOUS
      <4>1. row = [status |-> "RESERVED", account |-> a]
        BY <3>1, Zenon
      <4> HIDE DEF row
      <4> QED BY <4>1, RowFields, Zenon
    <3>4. "RESERVED" # "ABSENT"
      OBVIOUS
    <3> QED BY <3>2, <3>3, <3>4, Zenon DEF Booked
  <2> QED BY <1>0, <1>9, <2>1, <2>2, <2>3, BookStep, Zenon
<1>13. NoStuckKey'
  <2> SUFFICES ASSUME backend # "none", NEW q \in Replicas, NEW j \in IdemKeys
               PROVE  idempotency'[q][j].status # "PENDING"
    BY <1>0, Zenon DEF NoStuckKey
  <2>1. idempotency[q][j].status # "PENDING"
    BY Zenon DEF IInv, NoStuckKey
  <2>2. CASE q = r /\ j = k
    <3> DEFINE record == idempotency'[r][k]
               hash == Normalize(req)
    <3>1. record = [status |-> "SUCCEEDED", owner |-> owner, hash |-> hash,
                    resource |-> n]
      BY <1>4, Zenon DEF RecordWritten
    <3> HIDE DEF record, hash
    <3>2. record.status = "SUCCEEDED"
      BY <3>1, RecordFields, Zenon
    <3> QED BY <2>2, <3>2, Zenon DEF record
  <2>3. CASE ~(q = r /\ j = k)
    <3>1. idempotency'[q][j] = idempotency[q][j]
      BY <1>2, <1>4, <2>3, Zenon DEF OthersKept, RecordWritten
    <3> QED BY <2>1, <3>1, Zenon
  <2> QED BY <2>2, <2>3, Zenon
<1>14. ProjectionInSync'
  <2> SUFFICES ASSUME backend = "memory" PROVE \A q \in running : quotas'[q] = quota'
    BY <1>0, Zenon DEF ProjectionInSync
  <2>1. \A q \in running : q = r
    BY <1>0, Zenon DEF BookInv, OneProcess
  <2>2. quotas[r] = quota
    BY Zenon DEF IInv, ProjectionInSync
  <2> QED BY <1>5, <1>7, <2>1, <2>2, Zenon
<1>15. LocalLimit'
  <2> SUFFICES ASSUME backend = "none", NEW q \in Replicas, NEW b \in Accounts
               PROVE  quotas'[q][b].count <= quotas'[q][b].limit
    BY <1>0, Zenon DEF LocalLimit
  <2>1. quotas[q][b].count <= quotas[q][b].limit
    BY Zenon DEF IInv, LocalLimit
  <2>2. CASE q = r /\ b = a
    <3>1. quotas[r] \in [Accounts -> QuotaRows]
      BY <1>0, Typed, Zenon
    <3>2. quotas[r][a].count \in Nat /\ quotas[r][a].limit \in Nat
      BY <3>1, Zenon DEF QuotaRows
    <3>3. /\ quotas'[r][a].count = quotas[r][a].count + 1
          /\ quotas'[r][a].limit = quotas[r][a].limit
      BY <1>5, <3>1, SMTT(20)
    <3>4. quotas[r][a].count < quotas[r][a].limit
      BY Zenon
    <3>5. quotas[r][a].count + 1 <= quotas[r][a].limit
      BY <3>2, <3>4, OneMoreFits, Zenon
    <3> QED BY <2>2, <3>3, <3>5, Zenon
  <2>3. CASE ~(q = r /\ b = a)
    <3>1. quotas'[q][b] = quotas[q][b]
      BY <1>0, <1>2, <1>5, <2>3, Typed DEF OthersKept
    <3> QED BY <2>1, <3>1, SMTT(20)
  <2> QED BY <2>2, <2>3, Zenon
<1> QED BY <1>10, <1>11, <1>12, <1>13, <1>14, <1>15, Zenon DEF IInv

(* A create that fails uses up its number.  Its row may be in the ledger   *)
(* all the same, and then belongs to no sandbox.                           *)
LEMMA CreateFailed ==
  ASSUME IInv, UNCHANGED deployment, UNCHANGED drainFailed, NEW r \in running,
         NEW n \in Ids, n = sequence[r] + 1, sequence' = [sequence EXCEPT ![r] = n],
         NEW a \in Accounts, UNCHANGED <<sandboxes, allocations, quotas>>,
         idempotency' \in [Replicas -> [IdemKeys -> Records]],
         backend # "none" => UNCHANGED idempotency,
         \A q \in Replicas, k \in IdemKeys :
           \/ idempotency'[q][k] = idempotency[q][k]
           \/ /\ idempotency[q][k].status # "SUCCEEDED"
              /\ idempotency'[q][k].status # "SUCCEEDED",
         \/ UNCHANGED govVars
         \/ backend = "sql" /\ Gov!ReserveAllocation(a, n)
  PROVE  IInv'
<1>0. /\ TypeOK /\ MapsInv /\ BookInv /\ Balanced /\ r \in Replicas /\ ReplicaOK(r)
      /\ running' = running /\ backend' = backend
  BY Typed, Zenon DEF IInv, MapsInv, Balanced, deployment
<1>1. Balanced'
  <2>1. CASE UNCHANGED govVars
    BY <1>0, <2>1, Zenon DEF govVars, Balanced, LedgerOK
  <2>2. CASE Gov!ReserveAllocation(a, n)
    BY <1>0, <2>2, GovReserve, Zenon
  <2> QED BY <2>1, <2>2, Zenon
<1>2. TypeOK' /\ LedgerOK'
  <2>1. sequence' \in [Replicas -> 0..MaxSeq]
    <3>1. n \in 0..MaxSeq
      BY IdsAreBounded, Zenon
    <3> QED BY <1>0, <3>1, Typed, Zenon
  <2> QED BY <1>0, <1>1, <2>1, Typed, TypedNext, Zenon DEF Balanced
<1>3. MapsInv'
  <2> SUFFICES ASSUME NEW q \in Replicas PROVE ReplicaOK(q)'
    BY Zenon DEF MapsInv
  <2>1. sequence[q] \in Nat /\ sequence'[q] \in Nat /\ sequence'[q] >= sequence[q]
    BY <1>0, Typed, BoundsAssumption DEF Ids
  <2>2. ReplicaOK(q)
    BY <1>0, Zenon DEF MapsInv
  <2> QED BY <2>1, <2>2, QuietReplica, Zenon
<1>4. BookInv'
  <2>1. CASE UNCHANGED govVars
    BY <1>0, <2>1, BookFrame, Zenon DEF govVars
  <2>2. CASE backend = "sql" /\ Gov!ReserveAllocation(a, n)
    <3>1. alloc[n].status = "ABSENT" /\ alloc' = Reserved(alloc, n, a)
      BY <1>0, <2>2, GovReserve, Zenon
    <3>2. n > sequence[r]
      BY <1>0, Typed, BoundsAssumption
    <3>3. \A q \in Replicas : sandboxes[q][n] = NoSandbox
      BY <1>0, <3>1, <3>2, NewNumber, Zenon
    <3>4. \A m \in Ids \ {n} : alloc'[m] = alloc[m]
      BY <1>0, <3>1, Zenon DEF Balanced, Reserved
    <3>5. Booked(r, n)'
      BY <1>0, <3>3, Zenon DEF Booked
    <3> QED BY <1>0, <3>3, <3>4, <3>5, BookStep, Zenon
  <2> QED BY <2>1, <2>2, Zenon
<1>5. NoStuckKey'
  BY <1>0, Zenon DEF IInv, NoStuckKey
<1>6. ProjectionInSync'
  <2>1. backend = "memory" => quota' = quota
    BY Zenon DEF govVars
  <2> QED BY <1>0, <2>1, Zenon DEF IInv, ProjectionInSync
<1>7. LocalLimit'
  BY <1>0, Zenon DEF IInv, LocalLimit
<1> QED BY <1>2, <1>3, <1>4, <1>5, <1>6, <1>7, Zenon DEF IInv

(* A PENDING record in the place of none. *)
LEMMA PendingTyped ==
  ASSUME TypeOK, NEW r \in Replicas, NEW k \in IdemKeys, NEW owner \in Owners,
         NEW req \in Requests, ~Prior(r, k),
         idempotency' = [idempotency EXCEPT ![r][k] = Pending(owner, req)]
  PROVE  /\ idempotency' \in [Replicas -> [IdemKeys -> Records]]
         /\ \A q \in Replicas, j \in IdemKeys :
              \/ idempotency'[q][j] = idempotency[q][j]
              \/ /\ idempotency[q][j].status # "SUCCEEDED"
                 /\ idempotency'[q][j].status # "SUCCEEDED"
<1> DEFINE record == Pending(owner, req)
<1>1. record \in Records /\ record.status = "PENDING"
  <2>1. Normalize(req) \in Hashes
    BY DEF Hashes
  <2>2. 0 \in 0..MaxSeq
    BY BoundsAssumption
  <2> HIDE DEF Normalize
  <2> QED BY <2>1, <2>2 DEF Records, Pending
<1>2. idempotency[r][k].status # "SUCCEEDED"
  <2>1. idempotency[r][k] \in Records
    BY Typed
  <2> QED BY <2>1 DEF Records, Prior
<1>3. idempotency' = [idempotency EXCEPT ![r][k] = record]
  OBVIOUS
<1> HIDE DEF record
<1>4. idempotency' \in [Replicas -> [IdemKeys -> Records]]
  BY <1>1, <1>3, Typed, SMTT(20)
<1>5. /\ idempotency'[r][k] = record
      /\ \A q \in Replicas, j \in IdemKeys :
           q # r \/ j # k => idempotency'[q][j] = idempotency[q][j]
  BY <1>3, Typed
<1> QED BY <1>1, <1>2, <1>4, <1>5, Zenon

(* Create keeps the invariant. *)
LEMMA CreateKeeps ==
  ASSUME IInv, UNCHANGED deployment, NEW r \in running, NEW k \in IdemKeys,
         NEW owner \in Owners, NEW req \in Requests, Create(r, k, owner, req)
  PROVE  IInv'
<1> DEFINE n == sequence[r] + 1
           a == <<k[1], owner>>
<1>0. TypeOK /\ r \in Replicas /\ a \in Accounts
  BY AccountOf, Typed, Zenon DEF IInv
<1>1. n \in Ids
  <2>1. backend \in Backends /\ sequence[r] \in Nat
    BY <1>0, Typed, BoundsAssumption
  <2>2. Load[backend].ids \in 0..MaxSeq
    BY <2>1, LoadAssumption, Zenon
  <2> QED BY <2>1, <2>2, BoundsAssumption, SMTT(20) DEF Create, Ids
<1>2. /\ ~Prior(r, k) /\ sequence' = [sequence EXCEPT ![r] = n] /\ UNCHANGED drainFailed
      /\ CreateLocal(r, k, owner, req) \/ CreateGoverned(r, k, owner, req)
  BY <1>0, Typed, Zenon DEF Create
<1>3. ASSUME Fulfil(r, k, owner, req),
             \/ /\ backend = "none" /\ UNCHANGED govVars
                /\ quotas[r][a].count < quotas[r][a].limit
             \/ backend # "none" /\ Gov!ReserveAllocation(a, n)
      PROVE  IInv'
  <2> HIDE DEF n, a
  <2>1. n = sequence[r] + 1 /\ a = <<k[1], owner>>
    BY Zenon DEF n, a
  <2> QED BY <1>0, <1>1, <1>2, <1>3, <2>1, CreateFulfilled, Zenon
<1>4. ASSUME UNCHANGED <<sandboxes, allocations, quotas>>,
             idempotency' \in [Replicas -> [IdemKeys -> Records]],
             backend # "none" => UNCHANGED idempotency,
             \A q \in Replicas, j \in IdemKeys :
               \/ idempotency'[q][j] = idempotency[q][j]
               \/ /\ idempotency[q][j].status # "SUCCEEDED"
                  /\ idempotency'[q][j].status # "SUCCEEDED",
             UNCHANGED govVars \/ (backend = "sql" /\ Gov!ReserveAllocation(a, n))
      PROVE  IInv'
  <2> HIDE DEF n, a
  <2>1. n = sequence[r] + 1
    BY SMTT(20) DEF n
  <2> QED BY <1>0, <1>1, <1>2, <1>4, <2>1, CreateFailed, Zenon
<1>5. CASE CreateLocal(r, k, owner, req)
  <2>1. backend = "none" /\ UNCHANGED govVars
    BY <1>5 DEF CreateLocal
  <2>2. CASE Fulfil(r, k, owner, req) /\ quotas[r][a].count < quotas[r][a].limit
    BY <1>3, <2>1, <2>2, Zenon
  <2>3. CASE /\ idempotency' = [idempotency EXCEPT ![r][k] = Pending(owner, req)]
             /\ UNCHANGED <<sandboxes, allocations, quotas>>
    <3>1. /\ idempotency' \in [Replicas -> [IdemKeys -> Records]]
          /\ \A q \in Replicas, j \in IdemKeys :
               \/ idempotency'[q][j] = idempotency[q][j]
               \/ /\ idempotency[q][j].status # "SUCCEEDED"
                  /\ idempotency'[q][j].status # "SUCCEEDED"
      BY <1>0, <1>2, <2>3, PendingTyped, Zenon
    <3> QED BY <1>4, <2>1, <2>3, <3>1, Zenon
  <2> QED BY <1>5, <2>2, <2>3, SMTT(20) DEF CreateLocal
<1>6. CASE CreateGoverned(r, k, owner, req)
  <2>0. backend # "none"
    BY <1>6, SMTT(20) DEF CreateGoverned
  <2>1. CASE Gov!ReserveAllocation(a, n) /\ Fulfil(r, k, owner, req)
    BY <1>3, <2>0, <2>1
  <2>2. CASE /\ CreateRefused(r, k, owner, req)
             /\ UNCHANGED govVars \/ (backend = "sql" /\ Gov!ReserveAllocation(a, n))
    <3>1. UNCHANGED <<sandboxes, allocations, idempotency, quotas>>
      BY <2>2 DEF CreateRefused
    <3>2. idempotency' \in [Replicas -> [IdemKeys -> Records]]
      BY <1>0, <3>1, Typed, SMTT(20)
    <3> QED BY <1>4, <2>2, <3>1, <3>2, Zenon
  <2> QED BY <1>6, <2>1, <2>2, SMTT(20) DEF CreateGoverned, Fault
<1> QED BY <1>2, <1>5, <1>6, Zenon
----------------------------------------------------------------------------
(* Drain and CompleteDeletion. *)

(* No other process has a sandbox of the number of a sandbox that is here. *)
LEMMA OnlyHere ==
  ASSUME BookInv, NEW r \in Replicas, NEW n \in Ids, sandboxes[r][n] # NoSandbox
  PROVE  \A q \in Replicas \ {r} : sandboxes[q][n] = NoSandbox
BY SMTT(20) DEF BookInv, OneHolder

(* The account of a Ready sandbox is that of its allocation. *)
LEMMA ReadyAccount ==
  ASSUME TypeOK, NEW r \in Replicas, ReplicaOK(r), NEW n \in Ids,
         sandboxes[r][n].phase = "Ready"
  PROVE  /\ sandboxes[r][n] # NoSandbox
         /\ allocations[r][n].account \in Accounts
         /\ allocations[r][n].account = sandboxes[r][n].account
<1>1. sandboxes[r][n] \in SandboxRows
  BY Typed
<1>2. sandboxes[r][n] # NoSandbox
  BY DEF NoSandbox
<1>3. sandboxes[r][n].account \in Accounts
  BY <1>1, <1>2, SandboxFields, Zenon
<1> QED BY <1>2, <1>3 DEF ReplicaOK, PhasesAgree

(* A release in the maps keeps the invariant if the ledger's row is, by    *)
(* this drain or by one whose answer was lost, RELEASED as well.           *)
LEMMA DrainReleases ==
  ASSUME IInv, UNCHANGED deployment, NEW r \in running, NEW n \in Ids,
         sandboxes[r][n].phase = "Ready", allocations[r][n].status = "RESERVED",
         NEW a, a = allocations[r][n].account, ReleaseLocally(r, n),
         UNCHANGED <<sequence, idempotency>>,
         \/ backend = "none" /\ UNCHANGED govVars
         \/ backend # "none" /\ Gov!ReleaseAllocation(a, n)
         \/ /\ backend # "none" /\ UNCHANGED govVars
            /\ alloc[n] = [status |-> "RELEASED", account |-> a]
  PROVE  IInv'
<1>0. /\ TypeOK /\ MapsInv /\ BookInv /\ Balanced /\ r \in Replicas /\ ReplicaOK(r)
      /\ running' = running /\ backend' = backend
  BY Typed DEF IInv, MapsInv, Balanced, deployment
<1>1. sandboxes[r][n] # NoSandbox /\ a \in Accounts /\ a = sandboxes[r][n].account
  BY <1>0, ReadyAccount, Zenon
<1>2. /\ ReleaseEffect(r, n, a)
      /\ sandboxes' \in [Replicas -> [Ids -> SandboxRows]]
      /\ allocations' \in [Replicas -> [Ids -> AllocationRows]]
      /\ quotas' \in [Replicas -> [Accounts -> QuotaRows]]
  BY <1>0, <1>1, ReleaseWrites, Zenon
<1>3. /\ \A q \in Replicas \ {r} :
           /\ sandboxes'[q] = sandboxes[q] /\ allocations'[q] = allocations[q]
           /\ quotas'[q] = quotas[q]
      /\ quotas'[r] = [quotas[r] EXCEPT ![a].count = IF @ > 0 THEN @ - 1 ELSE @]
      /\ UNCHANGED drainFailed
  BY <1>2, Zenon DEF ReleaseEffect
<1>4. SandboxWritten(r, n, [phase |-> "Draining", account |-> sandboxes[r][n].account,
                            key |-> sandboxes[r][n].key])
  BY <1>2, Zenon DEF ReleaseEffect
<1>5. /\ Balanced'
      /\ Gov!ReleaseAllocation(a, n) =>
           /\ alloc' = Released(alloc, n) /\ quota[a].count > 0
           /\ alloc[n].status = "RESERVED" /\ alloc[n].account = a
           /\ quota' = [quota EXCEPT ![a].count = @ - 1]
  <2>1. CASE UNCHANGED govVars /\ ~Gov!ReleaseAllocation(a, n)
    BY <1>0, <2>1, Zenon DEF govVars, Balanced, LedgerOK
  <2>2. CASE Gov!ReleaseAllocation(a, n)
    BY <1>0, <1>1, <2>2, GovRelease, Zenon
  <2> QED BY <2>1, <2>2, Zenon
<1>6. /\ backend # "none" => /\ alloc'[n].status = "RELEASED"
                             /\ alloc'[n].account = a
      /\ \A m \in Ids \ {n} : alloc'[m] = alloc[m]
  <2>1. CASE UNCHANGED govVars /\ ~Gov!ReleaseAllocation(a, n)
    <3>1. alloc' = alloc
      BY <2>1, SMTT(20) DEF govVars
    <3>2. backend # "none" => alloc[n] = [status |-> "RELEASED", account |-> a]
      BY <2>1
    <3> QED BY <3>1, <3>2, SMTT(20)
  <2>2. CASE Gov!ReleaseAllocation(a, n)
    <3> DEFINE entry == [alloc[n] EXCEPT !.status = "RELEASED"]
    <3>1. alloc \in [Ids -> AllocationRows] /\ alloc[n] \in AllocationRows
      BY <1>0, Zenon DEF Balanced
    <3>2. entry.status = "RELEASED" /\ entry.account = alloc[n].account
      BY <3>1, Zenon DEF AllocationRows
    <3>3. alloc' = [alloc EXCEPT ![n] = entry] /\ alloc[n].account = a
      BY <1>5, <2>2, Zenon DEF Released
    <3> HIDE DEF entry
    <3> QED BY <3>1, <3>2, <3>3, Zenon
  <2> QED BY <2>1, <2>2, Zenon
<1>7. TypeOK' /\ LedgerOK'
  BY <1>0, <1>2, <1>3, <1>5, Typed, TypedNext, Zenon DEF Balanced
<1>8. MapsInv'
  <2> SUFFICES ASSUME NEW q \in Replicas PROVE ReplicaOK(q)'
    BY Zenon DEF MapsInv
  <2>1. CASE q = r
    BY <1>0, <1>1, <1>2, <2>1, ReleaseKeepsMaps, Zenon
  <2>2. CASE q # r
    <3>1. /\ sandboxes'[q] = sandboxes[q] /\ allocations'[q] = allocations[q]
          /\ idempotency'[q] = idempotency[q] /\ quotas'[q] = quotas[q]
          /\ sequence'[q] = sequence[q]
      BY <1>3, <2>2, Zenon
    <3>2. ReplicaOK(q)
      BY <1>0, Zenon DEF MapsInv
    <3> QED BY <1>0, <3>1, <3>2, OtherReplica
  <2> QED BY <2>1, <2>2, Zenon
<1>9. BookInv'
  <2>1. \A q \in Replicas, m \in Ids :
          q # r \/ m # n => sandboxes'[q][m] = sandboxes[q][m]
    BY <1>3, <1>4, Zenon DEF SandboxWritten
  <2>2. backend # "none" => Booked(r, n)'
    <3>1. sandboxes'[r][n].phase = "Draining" /\ sandboxes'[r][n].account = a
      <4>1. sandboxes'[r][n] = [phase |-> "Draining", key |-> sandboxes[r][n].key,
                                account |-> sandboxes[r][n].account]
        BY <1>4, Zenon DEF SandboxWritten
      <4> DEFINE s == sandboxes'[r][n]
                 old == sandboxes[r][n].account
                 key == sandboxes[r][n].key
      <4>2. s = [phase |-> "Draining", account |-> old, key |-> key]
        BY <4>1, Zenon
      <4> HIDE DEF s, old, key
      <4>3. s.phase = "Draining" /\ s.account = old
        BY <4>2, WrittenFields
      <4> QED BY <1>1, <4>3, Zenon DEF s, old
    <3> QED BY <1>6, <3>1, Zenon DEF Booked
  <2>3. \A q \in Replicas \ {r} : sandboxes[q][n] = NoSandbox
    BY <1>0, <1>1, OnlyHere, Zenon
  <2> QED BY <1>0, <1>3, <1>6, <2>1, <2>2, <2>3, BookStep, Zenon
<1>10. NoStuckKey'
  BY <1>0, Zenon DEF IInv, NoStuckKey
<1>11. ProjectionInSync'
  <2> SUFFICES ASSUME backend = "memory" PROVE \A q \in running : quotas'[q] = quota'
    BY <1>0, Zenon DEF ProjectionInSync
  <2>1. \A q \in running : q = r
    BY <1>0, Zenon DEF BookInv, OneProcess
  <2>2. quotas[r] = quota
    BY Zenon DEF IInv, ProjectionInSync
  <2>3. alloc[n].status = "RESERVED"
    <3>1. n \notin drainFailed[r] /\ Booked(r, n)
      BY <1>0, Zenon DEF BookInv, DrainsFailInSql
    <3> QED BY <1>1, <3>1, Zenon DEF Booked
  <2>4. Gov!ReleaseAllocation(a, n)
    <3>1. ~(alloc[n] = [status |-> "RELEASED", account |-> a])
      BY <2>3, RowFields, Zenon
    <3> QED BY <3>1, Zenon
  <2>5. quota[a].count > 0 /\ quota' = [quota EXCEPT ![a].count = @ - 1]
    BY <1>5, <2>4, Zenon
  <2> QED BY <1>3, <2>1, <2>2, <2>5, Zenon
<1>12. LocalLimit'
  <2> SUFFICES ASSUME backend = "none", NEW q \in Replicas, NEW b \in Accounts
               PROVE  quotas'[q][b].count <= quotas'[q][b].limit
    BY <1>0, Zenon DEF LocalLimit
  <2>1. quotas[q][b].count <= quotas[q][b].limit
    BY Zenon DEF IInv, LocalLimit
  <2> DEFINE budget == [quotas[r][a] EXCEPT !.count = IF @ > 0 THEN @ - 1 ELSE @]
  <2>2. quotas[r] \in [Accounts -> QuotaRows] /\ quotas[r][a] \in QuotaRows
    BY <1>0, <1>1, Typed, Zenon
  <2>3. /\ budget.limit = quotas[r][a].limit
        /\ budget.count = IF quotas[r][a].count > 0 THEN quotas[r][a].count - 1
                                                    ELSE quotas[r][a].count
    BY <2>2, SlotReturned, Zenon
  <2>4. quotas'[r] = [quotas[r] EXCEPT ![a] = budget]
    BY <1>3, Zenon
  <2>5. quotas[r][a].count \in Nat /\ quotas[r][a].limit \in Nat
    BY <2>2, Zenon DEF QuotaRows
  <2> HIDE DEF budget
  <2>6. CASE q = r /\ b = a
    <3>1. quotas'[q][b] = budget
      BY <1>1, <2>2, <2>4, <2>6, Zenon
    <3>2. quotas[r][a].count <= quotas[r][a].limit
      BY <2>1, <2>6, Zenon
    <3>3. budget.count <= budget.limit
      <4>1. (IF quotas[r][a].count > 0 THEN quotas[r][a].count - 1
             ELSE quotas[r][a].count) <= quotas[r][a].limit
        BY <2>5, <3>2, OneLessFits, Zenon
      <4> QED BY <2>3, <4>1, Zenon
    <3> QED BY <3>1, <3>3, Zenon
  <2>7. CASE q # r \/ b # a
    <3>1. quotas'[q][b] = quotas[q][b]
      <4>1. CASE q # r
        BY <1>3, <4>1, Zenon
      <4>2. CASE q = r /\ b # a
        BY <2>2, <2>4, <4>2, Zenon
      <4> QED BY <2>7, <4>1, <4>2, Zenon
    <3> QED BY <2>1, <3>1, Zenon
  <2> QED BY <2>6, <2>7, Zenon
<1> QED BY <1>7, <1>8, <1>9, <1>10, <1>11, <1>12, Zenon DEF IInv

(* A drain whose outcome the process does not learn leaves a Ready sandbox *)
(* with a row that may be RELEASED, and is remembered as failed.           *)
LEMMA DrainFails ==
  ASSUME IInv, UNCHANGED deployment, NEW r \in running, NEW n \in Ids,
         sandboxes[r][n].phase = "Ready", NEW a, a = allocations[r][n].account,
         ReleaseFails(r, n), UNCHANGED <<sequence, idempotency>>, backend = "sql",
         UNCHANGED govVars \/ Gov!ReleaseAllocation(a, n)
  PROVE  IInv'
<1>0. /\ TypeOK /\ MapsInv /\ BookInv /\ Balanced /\ r \in Replicas /\ ReplicaOK(r)
      /\ running' = running /\ backend' = backend
      /\ UNCHANGED <<allocations, quotas, sandboxes>>
      /\ drainFailed' = [drainFailed EXCEPT ![r] = @ \cup {n}]
  BY Typed, Zenon DEF IInv, MapsInv, Balanced, deployment, ReleaseFails
<1>1. sandboxes[r][n] # NoSandbox /\ a \in Accounts /\ a = sandboxes[r][n].account
  BY <1>0, ReadyAccount, Zenon
<1>2. /\ Balanced' /\ \A m \in Ids \ {n} : alloc'[m] = alloc[m]
      /\ alloc'[n].status # "ABSENT" /\ alloc'[n].account = a
  <2>1. CASE UNCHANGED govVars
    <3>1. alloc' = alloc /\ quota' = quota
      BY <2>1, Zenon DEF govVars
    <3>2. alloc[n].status # "ABSENT" /\ alloc[n].account = a
      BY <1>0, <1>1, Zenon DEF BookInv, Booked
    <3>3. Balanced'
      BY <1>0, <3>1, Zenon DEF Balanced, LedgerOK
    <3> QED BY <3>1, <3>2, <3>3, Zenon
  <2>2. CASE Gov!ReleaseAllocation(a, n)
    <3> DEFINE entry == [alloc[n] EXCEPT !.status = "RELEASED"]
    <3>1. Balanced' /\ alloc' = Released(alloc, n) /\ alloc[n].account = a
      BY <1>0, <1>1, <2>2, GovRelease, Zenon
    <3>2. alloc \in [Ids -> AllocationRows] /\ alloc[n] \in AllocationRows
      BY <1>0, Zenon DEF Balanced
    <3>3. entry.status = "RELEASED" /\ entry.account = alloc[n].account
      BY <3>2 DEF AllocationRows
    <3>4. alloc' = [alloc EXCEPT ![n] = entry]
      BY <3>1 DEF Released
    <3> HIDE DEF entry
    <3> QED BY <3>1, <3>2, <3>3, <3>4, Zenon
  <2> QED BY <2>1, <2>2, Zenon
<1>3. drainFailed' \in [Replicas -> SUBSET Ids]
  BY <1>0, Typed, Zenon
<1>4. TypeOK' /\ LedgerOK'
  BY <1>0, <1>2, <1>3, Typed, TypedNext, Zenon DEF Balanced
<1>5. MapsInv'
  <2> SUFFICES ASSUME NEW q \in Replicas PROVE ReplicaOK(q)'
    BY DEF MapsInv
  <2>1. ReplicaOK(q)
    BY <1>0, Zenon DEF MapsInv
  <2> QED BY <1>0, <2>1, OtherReplica, Zenon
<1>6. BookInv'
  <2>1. /\ \A q \in Replicas \ {r} : drainFailed'[q] = drainFailed[q]
        /\ drainFailed'[r] = drainFailed[r] \cup {n}
    BY <1>0, Typed, Zenon
  <2>2. \A q \in Replicas, m \in Ids :
          q # r \/ m # n => (m \in drainFailed'[q] <=> m \in drainFailed[q])
    BY <2>1, Zenon
  <2>3. Booked(r, n)'
    BY <1>0, <1>1, <1>2, <2>1, Zenon DEF Booked
  <2>4. \A q \in Replicas \ {r} : sandboxes[q][n] = NoSandbox
    BY <1>0, <1>1, OnlyHere, Zenon
  <2>5. \A q \in Replicas, m \in Ids : sandboxes'[q][m] = sandboxes[q][m]
    BY <1>0, Zenon
  <2>6. backend # "sql" => drainFailed' = drainFailed
    BY Zenon
  <2> QED BY <1>0, <1>2, <2>2, <2>3, <2>4, <2>5, <2>6, BookStep, Zenon
<1>7. NoStuckKey' /\ LocalLimit' /\ ProjectionInSync'
  BY <1>0 DEF IInv, NoStuckKey, LocalLimit, ProjectionInSync
<1> QED BY <1>4, <1>5, <1>6, <1>7 DEF IInv

(* Drain keeps the invariant. *)
LEMMA DrainKeeps ==
  ASSUME IInv, UNCHANGED deployment, NEW r \in running, NEW n \in Ids, Drain(r, n)
  PROVE  IInv'
<1> DEFINE a == allocations[r][n].account
<1>0. /\ sandboxes[r][n].phase = "Ready" /\ allocations[r][n].status = "RESERVED"
      /\ UNCHANGED <<sequence, idempotency>>
      /\ DrainLocal(r, n) \/ DrainGoverned(r, n)
  BY DEF Drain
<1>1. ASSUME ReleaseLocally(r, n),
             \/ backend = "none" /\ UNCHANGED govVars
             \/ backend # "none" /\ Gov!ReleaseAllocation(a, n)
             \/ /\ backend # "none" /\ UNCHANGED govVars
                /\ alloc[n] = [status |-> "RELEASED", account |-> a]
      PROVE  IInv'
  <2> HIDE DEF a
  <2>1. a = allocations[r][n].account
    BY DEF a
  <2> QED BY <1>0, <1>1, <2>1, DrainReleases, Zenon
<1>2. ASSUME ReleaseFails(r, n), backend = "sql",
             UNCHANGED govVars \/ Gov!ReleaseAllocation(a, n)
      PROVE  IInv'
  <2> HIDE DEF a
  <2>1. a = allocations[r][n].account
    BY DEF a
  <2> QED BY <1>0, <1>2, <2>1, DrainFails, Zenon
<1>3. CASE DrainLocal(r, n)
  BY <1>1, <1>3, Zenon DEF DrainLocal
<1>4. CASE DrainGoverned(r, n)
  BY <1>1, <1>2, <1>4, Zenon DEF DrainGoverned, Fault
<1> QED BY <1>0, <1>3, <1>4, Zenon

(* CompleteDeletion keeps the invariant. *)
LEMMA CompleteDeletionKeeps ==
  ASSUME IInv, UNCHANGED deployment, NEW r \in running, NEW n \in Ids,
         CompleteDeletion(r, n)
  PROVE  IInv'
<1>0. /\ TypeOK /\ MapsInv /\ BookInv /\ Balanced /\ r \in Replicas /\ ReplicaOK(r)
      /\ running' = running /\ backend' = backend
      /\ sandboxes[r][n].phase = "Draining"
      /\ sandboxes' = [sandboxes EXCEPT ![r][n].phase = "Deleted"]
      /\ UNCHANGED <<quota, alloc, sequence, allocations, idempotency, quotas,
                     drainFailed>>
  BY Typed DEF IInv, MapsInv, Balanced, deployment, CompleteDeletion, govVars
<1>1. sandboxes[r][n] # NoSandbox
  BY <1>0 DEF NoSandbox
<1>2. /\ \A q \in Replicas \ {r} : sandboxes'[q] = sandboxes[q]
      /\ SandboxWritten(r, n, [phase |-> "Deleted", account |-> sandboxes[r][n].account,
                               key |-> sandboxes[r][n].key])
      /\ sandboxes' \in [Replicas -> [Ids -> SandboxRows]]
  BY <1>0, <1>1, PhaseWrites, Zenon
<1>3. /\ \A m \in Ids \ {n} : sandboxes'[r][m] = sandboxes[r][m]
      /\ sandboxes'[r][n].phase = "Deleted"
      /\ sandboxes'[r][n].account = sandboxes[r][n].account
      /\ sandboxes'[r][n].key = sandboxes[r][n].key
  BY <1>2 DEF SandboxWritten
<1>4. TypeOK' /\ LedgerOK'
  <2>1. LedgerOK'
    BY <1>0 DEF Balanced, LedgerOK
  <2>2. TypeOK'
    BY <1>0, <1>2, Typed, TypedNext, Zenon
  <2> QED BY <2>1, <2>2
<1>5. MapsInv'
  <2> SUFFICES ASSUME NEW q \in Replicas PROVE ReplicaOK(q)'
    BY DEF MapsInv
  <2>1. CASE q = r
    <3>1. allocations[r][n].status # "RESERVED"
      BY <1>0 DEF ReplicaOK, PhasesAgree
    <3> QED BY <1>0, <1>1, <1>3, <2>1, <3>1, PhaseKeepsMaps, Zenon
  <2>2. CASE q # r
    <3>1. ReplicaOK(q) /\ sandboxes'[q] = sandboxes[q]
      BY <1>0, <1>2, <2>2, Zenon DEF MapsInv
    <3> QED BY <1>0, <3>1, OtherReplica, Zenon
  <2> QED BY <2>1, <2>2
<1>6. BookInv'
  <2>1. \A q \in Replicas, m \in Ids :
          q # r \/ m # n => sandboxes'[q][m] = sandboxes[q][m]
    BY <1>2, <1>3, Zenon
  <2>2. backend # "none" => Booked(r, n)'
    <3>1. backend # "none" => Booked(r, n)
      BY <1>0, Zenon DEF BookInv
    <3> QED BY <1>0, <1>1, <1>3, <3>1, Zenon DEF Booked
  <2>3. \A q \in Replicas \ {r} : sandboxes[q][n] = NoSandbox
    BY <1>0, <1>1, OnlyHere, Zenon
  <2> QED BY <1>0, <2>1, <2>2, <2>3, BookStep, Zenon
<1>7. NoStuckKey' /\ LocalLimit' /\ ProjectionInSync'
  BY <1>0, Zenon DEF IInv, NoStuckKey, LocalLimit, ProjectionInSync
<1> QED BY <1>4, <1>5, <1>6, <1>7, Zenon DEF IInv
----------------------------------------------------------------------------
(* Restart. *)

(* A restart keeps the invariant: it empties the maps of its process, and  *)
(* a store that ends with the process served no other.                     *)
LEMMA RestartKeeps ==
  ASSUME IInv, UNCHANGED deployment, NEW r \in running, Restart(r)
  PROVE  IInv'
<1>0. /\ TypeOK /\ MapsInv /\ BookInv /\ Balanced /\ r \in Replicas
      /\ running' = running /\ backend' = backend
  BY Typed, Zenon DEF IInv, Balanced, deployment
<1>1. /\ sequence' = [sequence EXCEPT ![r] = 0]
      /\ sandboxes' = [sandboxes EXCEPT ![r] = [n \in Ids |-> NoSandbox]]
      /\ allocations' = [allocations EXCEPT ![r] = [n \in Ids |-> NoAllocationRow]]
      /\ idempotency' = [idempotency EXCEPT ![r] = [k \in IdemKeys |-> NoRecord]]
      /\ quotas' = [quotas EXCEPT ![r] = [a \in Accounts |-> NoRow]]
      /\ drainFailed' = [drainFailed EXCEPT ![r] = {}]
  BY Zenon DEF Restart
<1>2. /\ sequence'[r] = 0 /\ sandboxes'[r] = [n \in Ids |-> NoSandbox]
      /\ allocations'[r] = [n \in Ids |-> NoAllocationRow]
      /\ idempotency'[r] = [k \in IdemKeys |-> NoRecord]
      /\ quotas'[r] = [a \in Accounts |-> NoRow] /\ drainFailed'[r] = {}
  BY <1>0, <1>1, Typed, Zenon
<1>3. \A q \in Replicas \ {r} :
        /\ sequence'[q] = sequence[q] /\ sandboxes'[q] = sandboxes[q]
        /\ allocations'[q] = allocations[q] /\ idempotency'[q] = idempotency[q]
        /\ quotas'[q] = quotas[q] /\ drainFailed'[q] = drainFailed[q]
  BY <1>0, <1>1, Typed, Zenon
<1>4. /\ backend = "memory" => /\ quota' = [a \in Accounts |-> NoRow]
                               /\ alloc' = [n \in Ids |-> NoAllocationRow]
      /\ backend # "memory" => quota' = quota /\ alloc' = alloc
  BY DEF Restart, govVars
<1>5. Balanced'
  <2>1. CASE backend = "memory"
    <3>1. /\ quota' \in [Accounts -> QuotaRows] /\ alloc' \in [Ids -> AllocationRows]
          /\ \A a \in Accounts : quota'[a].count = 0 /\ quota'[a].limit = 0
      BY <1>4, <2>1, GovEmpty, Zenon
    <3>2. LedgerOK'
      BY <3>1 DEF LedgerOK
    <3> QED BY <3>1, <3>2, Zenon DEF Balanced
  <2>2. CASE backend # "memory"
    BY <1>0, <1>4, <2>2, Zenon DEF Balanced, LedgerOK
  <2> QED BY <2>1, <2>2, Zenon
<1>6. TypeOK' /\ LedgerOK'
  <2>1. [n \in Ids |-> NoSandbox] \in [Ids -> SandboxRows]
    BY Zenon DEF SandboxRows
  <2>2. [n \in Ids |-> NoAllocationRow] \in [Ids -> AllocationRows]
    BY DEF AllocationRows, NoAllocationRow
  <2>3. [k \in IdemKeys |-> NoRecord] \in [IdemKeys -> Records]
    BY Zenon DEF Records
  <2>4. [a \in Accounts |-> NoRow] \in [Accounts -> QuotaRows]
    BY DEF NoRow, QuotaRows
  <2>5. 0 \in 0..MaxSeq
    BY BoundsAssumption
  <2>6. /\ sequence' \in [Replicas -> 0..MaxSeq]
        /\ sandboxes' \in [Replicas -> [Ids -> SandboxRows]]
        /\ allocations' \in [Replicas -> [Ids -> AllocationRows]]
        /\ idempotency' \in [Replicas -> [IdemKeys -> Records]]
        /\ quotas' \in [Replicas -> [Accounts -> QuotaRows]]
        /\ drainFailed' \in [Replicas -> SUBSET Ids]
    BY <1>0, <1>1, <2>1, <2>2, <2>3, <2>4, <2>5, Typed, Zenon
  <2> QED BY <1>0, <1>5, <2>6, Typed, TypedNext, Zenon DEF Balanced
<1>7. MapsInv'
  <2> SUFFICES ASSUME NEW q \in Replicas PROVE ReplicaOK(q)'
    BY Zenon DEF MapsInv
  <2>1. CASE q = r
    BY <1>2, <2>1, EmptyMapsAgree, Zenon
  <2>2. CASE q # r
    <3>1. ReplicaOK(q)
      BY <1>0, Zenon DEF MapsInv
    <3> QED BY <1>0, <1>3, <2>2, <3>1, OtherReplica, Zenon
  <2> QED BY <2>1, <2>2, Zenon
<1>8. BookInv'
  <2>1. \A n \in Ids : sandboxes'[r][n] = NoSandbox
    BY <1>2
  <2>2. OneProcess'
    BY <1>0, Zenon DEF BookInv, OneProcess
  <2>3. IdleIsEmpty'
    <3> SUFFICES ASSUME NEW q \in Replicas \ running, NEW n \in Ids
                 PROVE  sandboxes'[q][n] = NoSandbox
      BY <1>0 DEF IdleIsEmpty
    <3>1. q \in Replicas /\ q # r /\ sandboxes[q][n] = NoSandbox
      BY <1>0, Zenon DEF BookInv, IdleIsEmpty
    <3> QED BY <1>3, <3>1, Zenon
  <2>4. DrainsFailInSql'
    BY <1>0, <1>2, <1>3, Zenon DEF BookInv, DrainsFailInSql
  <2>5. OneHolder'
    BY <1>0, <1>3, <2>1 DEF BookInv, OneHolder
  <2>6. ASSUME backend # "none", NEW q \in Replicas, NEW n \in Ids
        PROVE  Booked(q, n)'
    <3>1. CASE q = r
      BY <2>1, <3>1, Zenon DEF Booked
    <3>2. CASE q # r /\ backend = "memory"
      <4>1. q \notin running
        BY <1>0, <3>2, Zenon DEF BookInv, OneProcess
      <4>2. sandboxes'[q][n] = NoSandbox
        BY <1>0, <1>3, <3>2, <4>1, Zenon DEF BookInv, IdleIsEmpty
      <4> QED BY <4>2 DEF Booked
    <3>3. CASE q # r /\ backend # "memory"
      <4>1. Booked(q, n)
        BY <1>0, <2>6, Zenon DEF BookInv
      <4>2. /\ sandboxes'[q] = sandboxes[q] /\ drainFailed'[q] = drainFailed[q]
            /\ alloc' = alloc
        BY <1>3, <1>4, <3>3, Zenon
      <4> QED BY <4>1, <4>2, Zenon DEF Booked
    <3> QED BY <3>1, <3>2, <3>3, Zenon
  <2> QED BY <1>0, <2>2, <2>3, <2>4, <2>5, <2>6, Zenon DEF BookInv
<1>9. NoStuckKey'
  <2> SUFFICES ASSUME backend # "none", NEW q \in Replicas, NEW k \in IdemKeys
               PROVE  idempotency'[q][k].status # "PENDING"
    BY <1>0, Zenon DEF NoStuckKey
  <2>1. CASE q = r
    BY <1>2, <2>1 DEF NoRecord
  <2>2. CASE q # r
    BY <1>3, <2>2, Zenon DEF IInv, NoStuckKey
  <2> QED BY <2>1, <2>2, Zenon
<1>10. ProjectionInSync'
  <2>1. backend = "memory" => \A q \in running : q = r
    BY <1>0 DEF BookInv, OneProcess
  <2> QED BY <1>0, <1>2, <1>4, <2>1, Zenon DEF ProjectionInSync
<1>11. LocalLimit'
  <2> SUFFICES ASSUME backend = "none", NEW q \in Replicas, NEW a \in Accounts
               PROVE  quotas'[q][a].count <= quotas'[q][a].limit
    BY <1>0, Zenon DEF LocalLimit
  <2>1. CASE q = r
    BY <1>2, <2>1, SMTT(20) DEF NoRow
  <2>2. CASE q # r
    BY <1>3, <2>2 DEF IInv, LocalLimit
  <2> QED BY <2>1, <2>2, Zenon
<1> QED BY <1>6, <1>7, <1>8, <1>9, <1>10, <1>11, Zenon DEF IInv
=============================================================================
