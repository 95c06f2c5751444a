# kubebox: a TLA+ model

This directory specifies the parts of kubebox whose correctness depends on
interleavings, failures and restarts: the quota ledger, the migration of its
schema, the control plane's sandbox store, the SandboxClaim controller,
envd-proxy with its routes, credentials and health monitor, and envd with the
commands it runs. TLC checks the modules on small instances. TLAPS proves
the safety properties for every instance.

## The system

| Part | Source | State | Operations | What makes it hard |
| --- | --- | --- | --- | --- |
| Governance store | `internal/persistence/store.go`, `sql.go`, `memory.go` | quota rows, allocation ledger, idempotency table | SetQuota, ReserveAllocation, ReleaseAllocation, InsertIdempotencyPending | transactions of several statements, opposite lock orders, lost commit acknowledgements |
| Opening, migration | `open.go`, `migrate.go`, `cmd/kubebox` | schema, advisory lock | OpenSQLStore, MigrateLocked, the first SetQuota | replicas that boot together, database sessions that outlive their client |
| Sandbox store | `internal/sandbox/service.go`, `http.go`, `cmd/kubebox` | per process: sandboxes, allocations, idempotency records, quota projection, sequence | SetQuota, Create, Drain, CompleteDeletion | several replicas over one database, restarts that lose the maps, calls with unknown outcome |
| Controller | `internal/operator`, `internal/kubeapi`, `cmd/controller` | SandboxClaim status and finalizer, Pods | Reconcile | stale informer cache, conflicts, a crash between any two writes, overlapping controllers |
| Routes | `internal/dataplane/proxy.go`, `admin.go`, `route_client.go` | route table | Set, Unregister, List | requests that fail, get lost or arrive late |
| Health monitor | `internal/dataplane/health.go` | failure counters | CheckOnce | check-then-act against a changing table |
| Proxy, tokens | `internal/dataplane/proxy.go` | the request being handled | Handler, Issue, Validate | times cut to seconds, a route read before it is used |
| envd | `internal/envd`, `cmd/envd` | the call being served, the command, files | the HTTP and gRPC endpoints, Exec, ReadFile, WriteFile, shutdown | a shell, its children, a pipe, a timeout and a stop that overlap; links |

A user's create request takes a quota slot in the sandbox store, which delegates
it to the governance store. Independently, a SandboxClaim is turned by the
controller into one Pod and one route of envd-proxy. The proxy's monitor evicts
routes whose backend does not answer. A client's request passes the proxy, which
looks up the route and then checks the credential, and the envd at that address,
which checks it again and runs a command or touches a file. The control plane and
the rest share no state in the code.

## Modules

| Module | Models | State and actions |
| --- | --- | --- |
| `GovernanceStore` | the contract of `store.go` | `quota`, `alloc`, `idem`; one indivisible action per operation |
| `SQLStore` | `sql.go` | the same tables plus `tx`, the open transaction of each session; one action per SQL statement (`EnsureRow`, `SelectForUpdate`, `UpdateLimit`, `Debit`, `InsertAllocation`, `CasReleased`, `LookupStatus`, `Credit`, `Commit`), failures and deadlock victims |
| `MemoryGovernanceStore` | `memory.go` | the three maps; one action per method |
| `MirroredStores` | both stores given the same calls, those a control plane makes | the variables of both and their last replies |
| `SchemaMigration` | booting replicas: `open.go`, `migrate.go`, `cmd/kubebox/main.go` | where each boot has got to, `tables`, the `holder` of the lock, and the sessions dead clients leave behind (`queued`, `pending`); one action per statement |
| `SandboxStore` | `service.go` | the deployment, and per replica: `sequence`, `sandboxes`, `allocations`, `idempotency`, `quotas`; one action per method, because each holds the mutex throughout |
| `RouteRegistry` | the route table | `routes`; `Set`, `Unregister` |
| `HealthMonitor` | `health.go` | `round` (the list), `verdict` (a probe's result), `failures`; `List`, `Probe` and what a probe leads to |
| `MonitoredRoutes` | the monitor beside the admin API (`admin.go`) | which targets are `up`, and what happened to a sandbox since its last successful probe; any sandbox may be registered with any target |
| `ClaimController` | `controller.go`, `reconciler.go`, `kube_client.go` | API objects, caches, work queues and `work`, the local variables of a running Reconcile; one action per call that leaves the process |
| `SandboxPlane` | controller and monitor on one route table | the variables of both, and the addresses Pods outside the model have (`others`); proxy restarts |
| `CommandRun` | `ProcessExecutor.Exec` and os/exec | `run`: shell, leftover process, pipe, copied output, deadline and kill; one action per event |
| `SandboxFiles` | `ReadFile`, `WriteFile`, `safePath` | none: operators on file trees with links, beside the kernel's path resolution |
| `Envd` | `service.go`, `http_gateway.go`, `cmd/envd/main.go` | whose envd is at an address, its phase, and `call`; the endpoints of both servers and the order of a shutdown |
| `RequestPath` | `TokenIssuer` and `Proxy.Handler` over `Envd`; what its file calls come to over `SandboxFiles` | `cred`, `req`, `routes`, `now`; one action per step of the handler. A path is as the client spelled it for `scopeFor`, and as `joinPath` writes it for envd |
| `*Proofs` | theorems about the module they are named after; `GovernanceStoreProofs` is also about `MirroredStores`, `ClaimControllerProofs` about `SandboxPlane`, and `RequestPathProofs` about `CommandRun`, `Envd` and `SandboxFiles` | |
| `SandboxStoreInvariant` | the invariant behind `SandboxStoreProofs`, and that each operation keeps it | |

`SQLStore` is shown to implement `GovernanceStore` (`Serializable`), and
`SandboxStore` is composed with `GovernanceStore`: because of the refinement, a
call from the sandbox store to the SQL store is one step of the contract, or an
error with or without effect. The `MC*` modules give constants values. An
operator whose comment begins "Mutated" is a deliberately wrong form of the one
after it. It is used to test that a property notices that error, and nowhere else.

### Abstractions

* Names, payloads and hashes are model values. The request hash is the request
  with its defaults filled in, which is what `requestHash` covers.
* PostgreSQL and MySQL are modelled by row locks, a write buffer per transaction
  and deadlock detection, at the strength `sql.go` relies on; in
  `SchemaMigration`, by one advisory lock that belongs to a session.
* The API server keeps versions. A copy is the latest, older, or of an object
  that is gone, which is all that optimistic concurrency tells apart. Pods are
  absent, starting, ready or terminating. `RequeueAfter` returns the claim to
  the queue at once, whatever the delay.
* The phases Pending, Draining and Failed of a claim are never written to its
  status by the code (an error ends Reconcile before the status write) and do
  not occur in the model. The label `kubebox.io/pod-name`, which nothing in the
  repository sets, is taken to be absent. A ready Pod has an address.
* In the control plane, the phases Provisioning and Failed and the idempotency
  status FAILED are declared but never assigned, and are left out.
* Time in `RequestPath` runs in half seconds, so that cutting to whole seconds
  shows. A credential is a record; its encoding and signature are left out.
* Of the spelling of a path, the number of slashes it begins with is kept, and one
  path that is not clean, which the mux of envd redirects.
* stdout and stderr of a command are alike, and one is modelled. A byte is its
  position in the output. The processes a command leaves behind are one.
* An envd serves one call at a time, and the proxy handles one request; another
  client's effect on a call is that routes, tenants and phases change under it.
* A file tree does not change during one file call, and the length of a file is
  all that is kept of it. A link holds the absolute path it leads to, without
  `..`; the paths a caller asks for may contain it.
* Calls that are refused before they change anything are not steps, except where
  the answer matters (`RequestPath`).

## Runs

| Run | Instance | Shows |
| --- | --- | --- |
| Mirrored | 2 accounts, 3 allocations, limits 0..2 | the contract: the ledger balances, limits hold, rows are used once; the in-memory store has equal tables, and equal replies once a quota exists, for ids reserved once and released for their account |
| SQLStore | 2 sessions, 1 account, 2 allocations, limits 0..2 | refinement of the contract; checked facts stay true; waiting cycles have two transactions about one allocation id; every call returns |
| SchemaMigration | 3 replicas, 3 statements, limit 2, 2 faults | schema statements never run side by side, an opened store has every table, every replica gets to serve |
| Sandbox | 2 owners; 2 replicas, 1 key and 2 ids on SQL; 1 process, 3 keys and 4 ids with the memory store or none | slots, phases and maps agree; limits hold; a key names one sandbox, and is answered with it while it is Ready |
| MonitoredRoutes | 2 sandboxes, 2 addresses that either may get, threshold 3 | an eviction follows as many failed probes in a row, of the evicted target unless the address changed; a dead target does not keep its route |
| ClaimController | 1 claim, all faults but late requests | finality, Pods, finalizers, expiry |
| ClaimControllerLive | 1 claim, failed and late route requests | deletion and expiry complete |
| SandboxPlane | 1 claim, 2 addresses of which another Pod may get one, evictions, proxy restarts | routes converge; leaked routes go unless another Pod has their address |
| RequestPath | 2 sandboxes, 1 client, 1 address, 10 kinds of request, ttl and clock up to one second, buffer 1, pipe 2, output up to 3 bytes; file trees of up to 3 entries, paths of up to 3 names | executors are called only as granted, credentials last for their ttl, what the proxy lets through envd does not refuse for its scope, output is complete, files stay inside the root and are read back, requests are answered, envd stops |

The bounds: three ids with limits up to two are enough for a full account, a
freed slot taken again, and an id met a second time. Two sessions and one
account cover each pairwise conflict of statements. What the theorems state
holds for any number of accounts and sessions; `CallsReturn` is checked on this
instance only. Three replicas are one that
holds the lock, one that waits and one that dies; two faults let one failure
follow another. A second replica, or a restart, is what makes ids collide, and a
second owner lets them collide across accounts. `MaxTime = TTL = 2` in
ClaimController lets a Ready claim be reconciled again between its first report
and its expiry, which is when an expiry could slide; `MaxTime = TTL = 1` in
ClaimControllerLive is enough for it to pass. The threshold is the code's 3 where
counting matters and 1 in SandboxPlane, where only eventual eviction does. Two
addresses let a sandbox be registered anew between two probes. In SandboxPlane
the address that another Pod may get is one of two (`Shared`), so the claim's own
Pod can always get one. In
RequestPath one address is what two sandboxes take turns at; a buffer and a pipe
smaller than the output are what fills, and a pipe larger than the buffer lets one
write overrun it. Four links
are enough for every chain of two links and for a loop to be given up. Bounds on
counters: `MaxSeq`, `MaxTime`, `MaxTtl`, `MaxBytes`, `MaxFaults`. The Sandbox
run uses symmetry; its properties are safety properties. SandboxPlane keeps the
clock at 0, so expiry is left to ClaimControllerLive. Deadlock is checked in
every run.

`FilesStayInside` and `WrittenIsRead` are about pure functions: when a request
reaches the executor, they range over every tree and path of the instance and
compare `safePath` with an independent definition of what the kernel does. The
run evaluates them on small trees; the proofs show them for all (below).

### Disagreements between the code and what is written about it

Three runs end with a counterexample. `PROJECT.json` quotes the lines concerned.

| Run | What happens |
| --- | --- |
| SharedKey | two replicas create two sandboxes for one key: idempotency records never reach the database |
| LeakedRoute | the claim is deleted between Register and the status write; the finalizer goes, the route stays (SandboxPlane: until the monitor evicts it) |
| ExecHangs | a command leaves a process behind that keeps its output open; the timeout kills the shell only, and Exec waits on (`executor.go:96`, no `WaitDelay`) |

Two more can be reproduced by changing a line of a passing run's configuration:

* MonitoredRoutes with `PROPERTY EvictsOnlyDead`: the comment at
  `health.go:13-15` speaks of "routes whose backend stays unhealthy". Three probes
  of `t1` fail, the admin API registers the sandbox with `t2`, and the monitor
  unregisters that route although `t2` was never probed: it counts by sandbox
  (`health.go:63`) and does not look at the route again (`health.go:64`). The
  counterexample has 13 states. A count also survives a removal, so that fewer
  failures of the new address are enough. `EvictsAfterFailures` is what the code
  does keep, with that exception.
* ClaimController with `Controllers = {w1, w2}`: without leader election two
  controllers overlap during a rolling update, and one with an old cache starts
  a Pod for a claim the other has reported Deleted (`reconciler.go:106`;
  `docs/系统设计.md:763` says that a leader handoff has no double effect, and
  `deploy/kubernetes/controller.yaml:86` decides whether there is a leader).
  `DeletedHasNoPod` is therefore checked and proved for one controller.

Smaller ones are why some properties are qualified:

* Without a governance store, a create refused for lack of quota leaves its key
  PENDING (`service.go:225-230`), while `docs/系统设计.md:1234` allows a retry.
  `NoStuckKey` is therefore about governed stores.
* A replayed create may answer with a drained or deleted sandbox
  (`service.go:189`), while `docs/系统设计.md:614` and `1232` count that as a miss.
  `OutcomeIsStable` is therefore about Ready sandboxes, where both agree.
* A leaked route (LeakedRoute) whose address another sandbox's envd gets answers
  the monitor's probes, because `/healthz` asks for no credential
  (`http_gateway.go:46-48`), and stays. `LeakIsTemporary` excepts it. A request
  on such a route reaches the wrong envd, which refuses the credential
  (`ExecutesOnlyAsGranted`).
* The proxy takes the scope from the path as it is spelled (`proxy.go:204`) and
  forwards it without its leading slashes (`joinPath`). For `//commands` it asks
  for the scope `sandbox` where envd then asks for `commands`, so a credential may
  be let through at the edge and refused behind it, and another one the other way
  round. `ScopeTablesAgree` is about paths with one slash.
* On calls the control plane does not make, the in-memory store is not the mirror
  that `memory.go:22` announces. An id reserved twice is replaced and counted
  twice (`memory.go:97-98`) where SQL fails on the primary key (`sql.go:113-116`),
  and a release does not compare the account (`memory.go:112-125`). With the
  store in its own memory the control plane hands out an id once
  (`service.go:199`), and it releases for the account it reserved for
  (`service.go:301`). `TablesAgree` and `RepliesAgreeOnceConfigured` are about
  such calls.
* A refused SetQuota leaves a row with limit 0 in the projection
  (`service.go:138-141`, against the comment at 145-146), and after a restart the
  projection is empty while the database is not. `ProjectionInSync` is therefore
  about the in-memory store.
* For an account without a quota, a reserve is answered QuotaNotConfigured from
  memory and QuotaExceeded by SQL: `RepliesAgreeOnceConfigured`.
* A credential may be refused up to a second before its ttl ends, because the
  expiry is cut to whole seconds: the margin in `HonouredForItsTtl`.
* A shell that failed by itself is reported as a timeout if what it left running
  outlasts the deadline (`executor.go:99`).
* The comment at `executor.go:171-172` says that `safePath` returns ErrNotExist
  for a target that does not exist yet. It returns the path; `createPath` is
  reached for dangling links only, and fails for all of them.

## Fairness

* `SQLStore`: strong fairness of each session's next statement, since databases
  queue lock waiters, and weak fairness of the deadlock detector. Failures are
  never owed.
* `SchemaMigration`: weak fairness of each boot, since a process that exits is
  started again and a lock waiter is served, and of the server noticing that the
  client of a session is gone.
* `MonitoredRoutes`: weak fairness of the monitor, which loops on a ticker.
* `ClaimController`: weak fairness of the workers, of each watch event and of
  the kubelet and garbage collector for each Pod; strong fairness of a route
  request that succeeds, because the controller retries it; weak fairness of the
  clock. API errors and crashes are left out of the liveness runs: under them
  the code promises nothing beyond retrying.
* `SandboxPlane`: the same, with the monitor. Other Pods come and go as they like.
* `RequestPath`: weak fairness of the proxy's handler, of the goroutines of
  os/exec, of the deadline and of a shutdown that has begun (`TimeoutSpec`). That
  a process left behind ends is assumed in `FairSpec` only. ExecHangs shows why
  it has to be.

## Proofs

| Module | Theorems | Hypotheses |
| --- | --- | --- |
| `GovernanceStoreProofs` | `TypeCorrect`, `LedgerStaysBalanced`, `LimitIsNeverExceeded`, `AllocationsAreOneShot`; for the in-memory store `StoresHoldTheSame`, `StoresReplyTheSame` | finitely many allocation ids, natural limits; for the last two, the calls of `MirrorNext` |
| `SQLStoreProofs` | `ChecksAreNeverStale`, `TransactionsAreSerializable`, `LedgerIsNeverCorrupt`, `DeadlocksShareAnId` | the same |
| `SandboxStoreProofs` | `ReadySandboxesArePaidFor`, `DrainedSandboxesAreReleased`, `ReadySandboxesKeepTheLimit`, `MapsOfAProcessAgree`, `KeysNameOneSandbox`, `KeysDoNotStick`, `ProjectionStaysInSync`, `OutcomesAreStable`, `LedgerFollowsTheContract` | natural limits, numbers up to some `MaxSeq` |
| `SandboxStoreInvariant` | lemmas: each operation keeps the invariant | |
| `SchemaMigrationProofs` | `MigrationsExclude`, `OpenedStoresAreMigrated` | at least one statement |
| `MonitoredRoutesProofs` | `EvictionIsEarned` | none: any sandboxes, targets and registrations, any positive threshold |
| `ClaimControllerProofs` | `ReadyClaimsAreHeld`, `DeletionIsFinal`, `ExpiryNeverSlides` | none: any controllers, claims and faults |
| | `FinalizerWaits` | `SoleController`, no late requests |
| | `DeletedClaimsHaveNoPod` | `SoleController`, `OwnPods`: no two claims share a Pod name |
| | the same properties for `SandboxPlane`: `ClaimsOutliveRoutes`, `FinalizerWaitsInPlane`, `DeletedHasNoPodInPlane` | the same |
| `RequestPathProofs` | `OutputIsComplete`, `ScopesAgree`, `OnlyGrantedIsExecuted`, `TtlIsHonoured`, `ExitCutsOffNoRpc` | scopes and requests of the right type |
| | `FilesAreContained`, `FilesReadBack`, `FilesStayInsideHolds`, `WrittenIsReadHolds` | `TreesAreFileSystems`: what exists is in a directory, and the root is one |

Null values are taken not to be ordinary values. All other sets and numbers are
arbitrary. The hypotheses in the last column that are named definitions stand in
the theorems themselves; the others are the modules' `ASSUME`s, which TLC
evaluates.

The arguments:

* **Contract.** The invariant is `TypeOK /\ LedgerBalanced /\ WithinLimit`. A
  reserve adds one element to the account's held set and one to its counter, and
  a release removes one of each. The types are needed to count, and finiteness of
  the held set to use the cardinality lemmas.
* **SQL store.** `ChecksStayTrue` says which facts a transaction has established
  at each statement and which locks protect them. It is inductive together with
  the types. The lemmas split a step into the acting session (one lemma per
  operation) and every other session (`Bystander`, `CommitSparesLockedRows`: a
  commit touches only rows it has locked, and `LocksExclusive` says nobody else
  has). With it, a commit finds exactly the guards of the contract's action true
  and writes what that action writes; all other steps leave the tables alone. The
  balance of the ledger carries over through the refinement, so a release that
  holds a RESERVED row finds a positive counter. For deadlocks: a
  transaction that holds a quota row and waits can only wait for a ledger row
  (`QuotaWaitsDoNotChain`), so among transactions that wait on each other somebody
  waits for a ledger row, and whoever holds that row is about the same id.
* **Mirrored stores.** Equal tables are inductive only with the ledger's balance:
  a reserved row is what makes the counter positive, so the in-memory store's
  check for a corrupt counter never decides. `UnconfiguredIsEmpty` makes a refused
  SetQuota leave no row.
* **Sandbox store.** The invariant `IInv` has two parts. `MapsInv` is about one
  process: its numbers are ahead of its maps, a record that says SUCCEEDED names a
  sandbox of its key and owner, every sandbox has such a record, and phases agree
  with allocations. `BookInv` is about all processes and the ledger: every sandbox
  has a row of its account in the ledger, in the state that its phase and its
  failed drains tell (`Booked`), and no two processes have a sandbox of the same
  number (`OneHolder`). `OneHolder` is what makes this inductive. Replicas do hand
  out the same numbers; a reserve of a number whose row exists is refused, and a
  process that has a sandbox of that number has the row (`NewNumber`). A drain
  can therefore release no row but its own. The counts are a second invariant on
  top of it, `CountsInv`: every step changes a table and its counter together, in
  the ledger and in each process's map. `ReadyWithinLimit` follows because the
  Ready sandboxes of an account have different RESERVED rows; a sandbox whose
  drain failed, perhaps after the release had committed, is not counted. `LedgerFollowsTheContract` is the other half of the
  composition with `GovernanceStore`: with several callers that fail at any point,
  each step is one of the contract, except the restart that loses a store in
  memory.
* **Migration.** `LockIsHeld` and `PendingIsLocked` tie every statement, also one
  left behind by a dead client, to the session that holds the lock. `Executed`
  counts the statements done and `Complete` says what is known past the loop.
* **Monitor.** `Counted` bounds the failure counter of a sandbox, with the
  verdict not yet acted upon, by the failed probes since the last success.
  `AtHome` says that the route, the list and the blamed targets name only targets
  the sandbox was registered with since then, which the list, being older than
  the table, does not tell by itself; a sandbox with one such target was blamed
  for that one. `SomethingFailed` says that a count stands for some probe.
* **Controller.** `ClaimInv` says that a copy marked latest equals the object
  (`CopiesAgree`, `WorksAgree`), that what a call carries fits the place it has
  got to (`WorkOK`, `InProgress`), and that objects that are gone are empty.
  An accepted write is then based on the object it replaces. Those facts give the
  first three theorems. `RouteInv` adds that a call about to remove the finalizer
  of a routed claim has removed the route. `PodInv` adds that a call on its way to
  report Deleted has taken the Pod down, and that the cache of the controller that
  reported Deleted still shows why, so that the next call does not create a Pod.
  TLC has one claim; the theorems hold for any number.
* **Request path.** `CommandOK` says that the buffer holds the beginning of what
  has been copied, as much as fits; `WriteContinues` is the fact about
  `limitedWriter.Write` behind it. `LetThrough` says that a request past
  validation has a credential for its sandbox and scope; an envd
  that gets it, whichever is at the address by then, finds that scope if the path
  has one slash, and no later step refuses anything for its scope
  (`NoNewRefusal`). `Stamped` relates the
  whole seconds in a credential to the end of its ttl.

* **Controller and monitor together.** A pass of the monitor and a restart of the
  proxy change nothing but routes, and only to none (`OnlyDropsRoutes`). `ClaimInv`
  and `PodInv` do not mention routes, and `RouteInv` asks only for their absence,
  so all three survive (`DroppingKeeps`).
* **Shutdown.** `RpcIsServed` says that an envd that serves an RPC has not got past
  `GracefulStop`. It is the half of `EnvdStops` that says what a stop may not do;
  that a stop ends is model-checked.
* **Files.** There is no state here: the theorems are about `ReadFile`, `WriteFile`
  and the kernel's path resolution as functions of a tree and a path. A path is
  resolved by following one link after another, so `Redirected` gives the path
  after each link. What it does is proved by induction on the number of links.
  `LeastNatural` gets from the well-ordering of the naturals in the library to
  `BoundedInduction` over a set of numbers, and `BoundedRecursion` shows that a
  function defined by recursion up to a bound exists. The steps are:
  `PlaceJoined`: the names that follow a path are carried along while its links
  are followed, so resolving the deepest ancestor that exists and appending the
  rest, as `evalWithinRoot` does, gives the place the kernel gets to for the whole
  path, also when that ancestor needs some of the links the kernel may follow
  (`EvalWithinRootIs`).
  Containment follows from comparing that place with the root, and from the root
  being a directory: the parents that `MkdirAll` adds are inside it. For reading
  back, a place that could be written does not exist or is a file, so the tree
  with the file in it is a file system again (`StoredIsTree`) and no path on the
  way is resolved differently in it (`StoredKeepsPlace`).

Only model-checked: the properties that something happens at last, which are
those of `SandboxPlane` and ClaimControllerLive, `CallsReturn`, `ReplicasServe`,
`DeadRouteLeaves`, `RequestIsAnswered` and the first half of `EnvdStops`. They
depend on fairness, about which the prover cannot reason.

## Not modelled

* The admission webhook and the manager's set-up: stateless checks and defaults
  of a claim's fields, and wiring.
* Connection strings and the choice of a driver (`open.go`), and `Migrate`, which
  takes no lock and has no caller.
* HTTP encoding, status codes, authentication of admin requests, the encoding and
  signature of tokens, the Pod's specification, the gRPC stubs and
  `MemoryExecutor`, which only tests use.
* Two claims that share a Pod name. `ClaimController` allows it
  (`PodNameOf <- SharedPod`), but its state space with two claims is out of TLC's
  reach, and `docs/系统设计.md:627` gives claims of one tenant and key one name,
  which nothing in the code enforces.
* Late route requests in `SandboxPlane`, whose state space is at the limit of
  what can be checked without them. They are in ClaimControllerLive.
* Several requests at one proxy or envd at once. Handlers share the route table
  and the file system only, and both change under a request in the model or, for
  the file system, are taken to be still during one call.
