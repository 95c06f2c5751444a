---------------------------- MODULE RequestPath ----------------------------
(***************************************************************************)
(* A request on its way through envd-proxy to an envd: TokenIssuer and     *)
(* Proxy (internal/dataplane/proxy.go) over the route table and Envd.      *)
(* Between the steps of the handler, routes change, time passes, and the   *)
(* address that was read becomes that of another sandbox.                  *)
(*                                                                         *)
(* Time is in half seconds; a credential carries whole ones.               *)
(***************************************************************************)
EXTENDS Envd, SandboxFiles

CONSTANTS
  Clients,   \* the sandboxes credentials are issued for
  Grants,    \* the scope sets they are issued with
  Shapes,    \* the requests and calls that are made, but for their sandbox
  MaxTtl,    \* bound: how long a credential is issued for
  MaxTime    \* bound: the clock

ASSUME ClientsAreSandboxes == Clients \subseteq Sandboxes
ASSUME GrantsAreScopes == Grants \subseteq SUBSET Scopes
(* A path as it is sent, behind the sandbox: a name after one slash, or    *)
(* after more.                                                             *)
RawPaths == [slashes : {1, 2}, name : Paths]

ASSUME ShapesAreCalls ==
  Shapes \subseteq [path : RawPaths, method : Methods, wellFormed : BOOLEAN]
ASSUME TimesAreNatural == MaxTtl \in Nat /\ MaxTime \in Nat

VARIABLES
  routes, now,
  cred,     \* the credential the client holds
  req       \* the request the proxy is handling, or NoRequest

proxyVars == <<routes, now, cred, req>>
vars == <<proxyVars, envdVars>>

INSTANCE RouteRegistry

Creds == [sandbox : Sandboxes, scopes : SUBSET Scopes,
          expiresAt : 0..(MaxTime + MaxTtl),  \* seconds
          until : 0..(MaxTime + MaxTtl)]      \* when the ttl is over (history)

NoRequest == [stage |-> "none"]

Requests == [stage : {"received", "routed", "validated", "forwarded", "answered"},
             id : Sandboxes, path : RawPaths, method : Methods,
             wellFormed : BOOLEAN, target : Targets \cup {NoTarget},
             answer : Answers \cup {"none", "no route", "rejected", "unavailable"}]

ProxyTypeOK ==
  /\ routes \in RouteTables
  /\ now \in 0..MaxTime
  /\ cred \in Creds
  /\ req \in Requests \cup {NoRequest}

TypeOK == EnvdTypeOK /\ ProxyTypeOK

(* time.Time.Unix *)
Unix(time) == time \div 2

Issue(id, scopes, ttl) ==
  [sandbox |-> id, scopes |-> scopes,
   expiresAt |-> Unix(now + ttl), until |-> now + ttl]

(* A behaviour begins when the credential is issued, at the beginning of a *)
(* second or in the middle of it.                                          *)
Init ==
  /\ EnvdInit
  /\ routes = NoRoutes
  /\ now \in {0, 1} \cap 0..MaxTime
  /\ cred \in {Issue(id, scopes, ttl) : id \in Clients, scopes \in Grants, ttl \in 1..MaxTtl}
  /\ req = NoRequest

At(stage) == req.stage = stage
Reply(answer) == req' = [req EXCEPT !.stage = "answered", !.answer = answer]

(* Mutated: a credential is good for the second it expires in. *)
ExpiredLate == cred.expiresAt < Unix(now)

Expired == cred.expiresAt <= Unix(now)

(* The prefixes are compared with the path as it was sent. *)
HasPrefix(path, names) == path.slashes = 1 /\ path.name \in names

(* Mutated: everything that is not a command needs the scope of its sandbox. *)
ScopeForCommands(method, path) ==
  IF HasPrefix(path, {"commands", "process"}) THEN "commands" ELSE "sandbox"

ScopeFor(method, path) ==
  IF HasPrefix(path, {"commands", "process"}) THEN "commands"
  ELSE IF HasPrefix(path, {"files/read", "files/write"} \cup Unclean) THEN "files"
  ELSE IF HasPrefix(path, {"network"}) THEN "network"
  ELSE IF method = "GET" /\ HasPrefix(path, {"healthz"}) THEN "health" ELSE "sandbox"

Valid(id, scope) ==
  cred.sandbox = id /\ ~Expired /\ scope \in cred.scopes

Send(id, shape) ==
  /\ req = NoRequest /\ ~Busy
  /\ req' = [stage |-> "received", id |-> id, path |-> shape.path,
             method |-> shape.method, wellFormed |-> shape.wellFormed,
             target |-> NoTarget, answer |-> "none"]
  /\ UNCHANGED <<routes, now, cred, envdVars>>

Route ==
  /\ At("received")
  /\ IF routes[req.id] = NoTarget THEN Reply("no route")
     ELSE req' = [req EXCEPT !.stage = "routed", !.target = routes[req.id]]
  /\ UNCHANGED <<routes, now, cred, envdVars>>

Validate ==
  /\ At("routed")
  /\ IF Valid(req.id, ScopeFor(req.method, req.path))
     THEN req' = [req EXCEPT !.stage = "validated"]
     ELSE Reply("rejected")
  /\ UNCHANGED <<routes, now, cred, envdVars>>

(* A target's own path is empty: one slash is put in the place of many. *)
JoinPath(path) == path.name

(* The headers the director sets, for whatever envd is at the target. *)
Forwarded ==
  [via |-> "http", target |-> req.target, id |-> req.id, scopes |-> cred.scopes,
   path |-> JoinPath(req.path), method |-> req.method, wellFormed |-> req.wellFormed,
   answer |-> "none"]

Forward ==
  /\ At("validated") /\ phase[req.target] \in {"up", "stopping"}
  /\ Accept(Forwarded)
  /\ req' = [req EXCEPT !.stage = "forwarded"]
  /\ UNCHANGED <<routes, now, cred>>

(* Nothing listens at the target, or the connection breaks, before the     *)
(* call or in it: ErrorHandler answers, whatever the envd goes on to do.   *)
Unavailable ==
  /\ \/ At("validated")
     \/ At("forwarded") /\ Busy
  /\ Reply("unavailable")
  /\ UNCHANGED <<routes, now, cred, envdVars>>

Relay ==
  /\ At("forwarded") /\ Busy /\ call.answer # "none"
  /\ Reply(IF call.answer = "cut" THEN "unavailable" ELSE call.answer)
  /\ call' = NoCall
  /\ UNCHANGED <<routes, now, cred, tenant, phase, run>>

Finish ==
  /\ At("answered") /\ req' = NoRequest
  /\ UNCHANGED <<routes, now, cred, envdVars>>

(* The answer of a call nobody waits for, or the answer to an RPC. *)
Hangup ==
  /\ Busy /\ call.answer # "none" /\ ~At("forwarded")
  /\ call' = NoCall
  /\ UNCHANGED <<proxyVars, tenant, phase, run>>

(* The internal path: no proxy, and the metadata is the caller's. *)
Rpc(t, id, scopes, shape) ==
  /\ req = NoRequest /\ phase[t] = "up"
  /\ Accept([via |-> "grpc", target |-> t, id |-> id, scopes |-> scopes,
             path |-> shape.path.name, method |-> "POST",
             wellFormed |-> shape.wellFormed, answer |-> "none"])
  /\ UNCHANGED proxyVars

Tick == now < MaxTime /\ now' = now + 1 /\ UNCHANGED <<routes, cred, req, envdVars>>

(* The controller, an operator or the health monitor. *)
RoutesChange ==
  /\ \E id \in Sandboxes :
       Unregister(id) \/ \E t \in Targets : Set(id, t)
  /\ UNCHANGED <<now, cred, req, envdVars>>

Lifecycle(t) ==
  /\ (\E id \in Sandboxes : Boot(t, id)) \/ Terminate(t) \/ Crash(t)
  /\ UNCHANGED proxyVars

Stop(t) == (CloseGateway(t) \/ Exit(t)) /\ UNCHANGED proxyVars

Command == (CommandStep \/ Return) /\ UNCHANGED proxyVars

Next ==
  \/ \E id \in Sandboxes, shape \in Shapes : Send(id, shape)
  \/ \E t \in Targets, id \in Sandboxes \cup {NoTarget}, scopes \in Grants,
        shape \in Shapes : Rpc(t, id, scopes, shape)
  \/ Route \/ Validate \/ Forward \/ Unavailable \/ Relay \/ Finish
  \/ Hangup \/ Command \/ Tick \/ RoutesChange
  \/ \E t \in Targets : Lifecycle(t) \/ Stop(t)

Spec == Init /\ [][Next]_vars

(* The handler goes on until it waits for envd. *)
Proxying ==
  \/ Route \/ Validate \/ Forward \/ Relay \/ Finish
  \/ At("validated") /\ Unavailable

Working(A) == Running /\ A /\ UNCHANGED <<tenant, phase, call, proxyVars>>

(* The goroutines of os/exec, the timer of the context and processes that  *)
(* write while there is room.                                              *)
ExecFairness ==
  /\ WF_vars(Working(Expire)) /\ WF_vars(Working(Interrupt))
  /\ WF_vars(Working(Emit))
  /\ WF_vars(Working(Reap \/ \E n \in 1..PipeSize : Copy(n)))
  /\ WF_vars(Return /\ UNCHANGED proxyVars)

(* Nothing is assumed of what a command leaves running. *)
TimeoutSpec ==
  /\ Spec /\ WF_vars(Proxying) /\ ExecFairness
  /\ \A t \in Targets : WF_vars(Stop(t))

(* What a command leaves running ends once it has written its output. *)
FairSpec == TimeoutSpec /\ WF_vars(Working(LeftoverExits))
----------------------------------------------------------------------------
(* http_gateway.go:14-18: a client "cannot reach the executor without a    *)
(* properly scoped, sandbox-bound credential".  Whatever happens to routes *)
(* and addresses after the proxy has looked at them, an executor is called *)
(* only in the sandbox the credential was issued for, for what it grants.  *)
ExecutesOnlyAsGranted ==
  [][~Busy /\ Busy' /\ call'.path # "healthz" /\ call'.answer \in {"none", "ok", "error"}
     => /\ tenant[call'.target] = call'.id
        /\ ScopeOf(call'.path) \in call'.scopes
        /\ call'.via = "http" => /\ cred.sandbox = tenant[call'.target]
                                /\ ScopeOf(call'.path) \in cred.scopes]_vars

(* proxy.go:17: a credential is short-lived.  It is never honoured after   *)
(* its ttl, and not refused as expired while more than a second of it is   *)
(* left, although its expiry is cut to whole seconds.                      *)
HonouredForItsTtl ==
  [][At("routed") /\ ~At("routed")' =>
       /\ At("validated")' => now < cred.until
       /\ cred.sandbox = req.id
          /\ ScopeFor(req.method, req.path) \in cred.scopes
          /\ now + 2 <= cred.until => At("validated")']_vars

(* The proxy's table of scopes and envd's are two (proxy.go:204-217,       *)
(* http_gateway.go:56, 92, 119).  For a path sent with one slash they      *)
(* agree: what the proxy has let through is never refused by envd for its  *)
(* scope.  With more slashes the proxy asks for the scope "sandbox" and    *)
(* forwards the path without them, so envd may refuse what it is sent.     *)
ScopeTablesAgree ==
  At("forwarded") /\ req.path.slashes = 1 /\ Busy => call.answer # "scope rejected"

(* executor.go:290-302: whatever order the output was written, copied and  *)
(* cut off in, and however the shell ended, Exec returns the beginning of  *)
(* all that was written, as much of it as the buffer takes.                *)
OutputIsWhole ==
  Running /\ RunReturns =>
    run.buffer = [i \in 1..(IF run.sent < MaxOutput THEN run.sent ELSE MaxOutput) |-> i]

CallsExecutor(path) == Busy /\ call.path = path /\ call.answer \in {"ok", "error"}

(* executor.go:22-23: "All file paths are resolved against root and must   *)
(* stay inside it" and "Symlinks that resolve outside root are rejected":  *)
(* when a file call reaches the executor, whatever links a command has     *)
(* left in the sandbox, nothing outside the root is read or changed, and   *)
(* no path is refused that does not lead there.  The links stay as they    *)
(* are during the call.                                                    *)
FilesStayInside == CallsExecutor("files/read") => Contained

(* When a file is written, whatever path, directories and links it takes,  *)
(* reading that path returns it, up to the limit both compare with.        *)
WrittenIsRead == CallsExecutor("files/write") => RoundTrip

(* Every request is answered: a full buffer does not block the command,    *)
(* the timeout ends its shell, and what the shell leaves behind ends.      *)
RequestIsAnswered == []<>(req = NoRequest \/ At("answered"))

(* cmd/envd/main.go:97-98: GracefulStop comes first, so the exit of envd   *)
(* never cuts off an RPC.                                                  *)
RpcsAreFinished ==
  [][\A t \in Targets : Exit(t) => ~(InService(t) /\ call.via = "grpc")]_vars

(* cmd/envd/main.go:95-98: envd stops when it is told to, after the RPCs   *)
(* under way, and its own exit never cuts one off.                         *)
EnvdStops ==
  /\ \A t \in Targets : []<>(phase[t] \in {"gone", "up"})
  /\ RpcsAreFinished

(* executor.go:24-25: "Exec runs with a bounded timeout" -- it returns,    *)
(* whatever the command does.                                              *)
ExecReturns == Running ~> ~Running
============================================================================
