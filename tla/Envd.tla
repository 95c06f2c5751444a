-------------------------------- MODULE Envd --------------------------------
(***************************************************************************)
(* The envd of a sandbox (internal/envd, cmd/envd): a gRPC server and an   *)
(* HTTP gateway that authorize a call and hand it to one executor, and the *)
(* order in which the process stops them.  An address is used again when   *)
(* its Pod is gone, so its envd may be that of another sandbox by then.    *)
(* One call is served at a time.                                           *)
(***************************************************************************)
EXTENDS CommandRun

CONSTANTS Sandboxes, Targets, NoTarget, Scopes

VARIABLES
  tenant,   \* address -> the --sandbox-id of the envd there
  phase,    \* address -> how far that envd has got
  call      \* the call an envd is serving, or NoCall

envdVars == <<tenant, phase, call, run>>

Phases == {"gone", "up", "stopping", "closing"}
Methods == {"GET", "POST"}

(* What the gateway's mux handles, a path it redirects to its clean form,  *)
(* and two it does not know: any that begins with /commands, /process or   *)
(* /pty, and any that begins with /network.                                *)
Handled == {"healthz", "commands", "files/read", "files/write"}
Unclean == {"files/../commands"}
Paths == Handled \cup Unclean \cup {"process", "network"}

Answers == {"ok", "moved", "not found", "method not allowed", "unauthenticated",
            "identity rejected", "scope rejected", "bad request", "error",
            "success", "failure", "timeout", "cut"}

NoCall == [via |-> "none"]

Calls == [via : {"http", "grpc"}, target : Targets,
          id : Sandboxes \cup {NoTarget},   \* X-Kubebox-Sandbox-ID
          scopes : SUBSET Scopes,           \* X-Kubebox-Scope
          path : Paths, method : Methods, wellFormed : BOOLEAN,
          answer : Answers \cup {"none"}]

Busy == call # NoCall
InService(t) == Busy /\ call.target = t /\ call.answer = "none"

EnvdTypeOK ==
  /\ tenant \in [Targets -> Sandboxes \cup {NoTarget}]
  /\ phase \in [Targets -> Phases]
  /\ call \in Calls \cup {NoCall}
  /\ run \in Runs \cup {NoRun}
  /\ Running <=> Busy /\ call.answer = "none"

EnvdInit ==
  /\ tenant = [t \in Targets |-> NoTarget]
  /\ phase = [t \in Targets |-> "gone"]
  /\ call = NoCall
  /\ run = NoRun

MethodOf(path) == IF path = "files/read" THEN "GET" ELSE "POST"

ScopeOf(path) == IF path = "commands" THEN "commands" ELSE "files"

(* Mutated: the identity is required, and not compared. *)
AuthorizeAnyone(c) ==
  IF c.id = NoTarget THEN "unauthenticated"
  ELSE IF ScopeOf(c.path) \notin c.scopes THEN "scope rejected" ELSE "ok"

(* The same in the gateway and the gRPC server. *)
Authorize(c) ==
  IF c.id = NoTarget THEN "unauthenticated"
  ELSE IF c.id # tenant[c.target] THEN "identity rejected"
  ELSE IF ScopeOf(c.path) \notin c.scopes THEN "scope rejected" ELSE "ok"

(* What a handler answers before it calls the executor; "ok" if it does.   *)
(* The methods of the gRPC service are their paths here.                   *)
Admission(c) ==
  IF c.via = "http" /\ c.path \in Unclean THEN "moved"
  ELSE IF c.path \notin Handled THEN "not found"
  ELSE IF c.via = "http" /\ c.method # MethodOf(c.path) THEN "method not allowed"
  ELSE IF Authorize(c) # "ok" THEN Authorize(c)
  ELSE IF ~c.wellFormed /\ (c.via = "http" \/ c.path = "commands")
       THEN "bad request" ELSE "ok"

Answered(c, answer) == call' = [c EXCEPT !.answer = answer] /\ UNCHANGED run

(* /healthz is open to everybody. *)
Health(c) == c.path = "healthz" /\ Answered(c, "ok")

Refuse(c) ==
  /\ c.path # "healthz" /\ Admission(c) # "ok"
  /\ Answered(c, Admission(c))

(* ReadFile and WriteFile: see SandboxFiles. *)
ServeFile(c) ==
  /\ c.path \in {"files/read", "files/write"} /\ Admission(c) = "ok"
  /\ \/ c.wellFormed /\ Answered(c, "ok")
     \/ Answered(c, "error")

(* handleCommands: the shell is started, or cannot be. *)
ServeCommand(c) ==
  /\ c.path = "commands" /\ Admission(c) = "ok"
  /\ \/ call' = c /\ \E n \in 0..MaxBytes : Exec(n)
     \/ Answered(c, "error")

Accept(c) ==
  /\ ~Busy
  /\ Health(c) \/ Refuse(c) \/ ServeFile(c) \/ ServeCommand(c)
  /\ UNCHANGED <<tenant, phase>>

(* The command goes on, or Exec returns and the handler answers. *)
CommandStep == Step /\ UNCHANGED <<tenant, phase, call>>

Return ==
  /\ Running /\ RunReturns
  /\ call' = [call EXCEPT !.answer = Outcome]
  /\ run' = NoRun
  /\ UNCHANGED <<tenant, phase>>

(* The Pod at t starts. *)
Boot(t, id) ==
  /\ phase[t] = "gone"
  /\ tenant' = [tenant EXCEPT ![t] = id]
  /\ phase' = [phase EXCEPT ![t] = "up"]
  /\ UNCHANGED <<call, run>>

(* SIGTERM: GracefulStop refuses new RPCs and waits for those under way.   *)
Terminate(t) ==
  /\ phase[t] = "up"
  /\ phase' = [phase EXCEPT ![t] = "stopping"]
  /\ UNCHANGED <<tenant, call, run>>

(* Mutated: Stop in the place of GracefulStop. *)
StopAtOnce(t) ==
  /\ phase[t] = "stopping"
  /\ phase' = [phase EXCEPT ![t] = "closing"]
  /\ UNCHANGED <<tenant, call, run>>

(* GracefulStop has returned, and Shutdown closes the gateway's listener.  *)
CloseGateway(t) ==
  /\ phase[t] = "stopping"
  /\ ~(InService(t) /\ call.via = "grpc")
  /\ phase' = [phase EXCEPT ![t] = "closing"]
  /\ UNCHANGED <<tenant, call, run>>

(* The process ends and takes what it is serving with it. *)
Ends(t) ==
  /\ phase' = [phase EXCEPT ![t] = "gone"]
  /\ tenant' = [tenant EXCEPT ![t] = NoTarget]
  /\ IF InService(t)
     THEN call' = [call EXCEPT !.answer = "cut"] /\ run' = NoRun
     ELSE UNCHANGED <<call, run>>

(* main returns: Shutdown waits five seconds for the gateway's calls.      *)
Exit(t) == phase[t] = "closing" /\ Ends(t)

(* A crash, or the kubelet at the end of the grace period. *)
Crash(t) == phase[t] \in {"up", "stopping"} /\ Ends(t)
=============================================================================
