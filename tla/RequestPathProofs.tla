------------------------- MODULE RequestPathProofs -------------------------
(***************************************************************************)
(* For any sandboxes, addresses, credentials and requests: what reaches an *)
(* executor was granted, credentials are honoured for their ttl, the two   *)
(* tables of scopes agree, and the output of a command is complete.  For   *)
(* any file system, root and path: files stay inside the root, and what is *)
(* written is read.                                                        *)
(***************************************************************************)
EXTENDS RequestPath, SequenceTheorems, WellFoundedInduction, TLAPS

(***************************************************************************)
(* The output of a command, for every size of the buffer and the pipe: the *)
(* buffer always holds the beginning of what has been copied, as much of   *)
(* it as fits.                                                             *)
(***************************************************************************)

(* What limitedWriter keeps of the first n bytes. *)
Kept(n) == IF n < MaxOutput THEN n ELSE MaxOutput
Beginning(n) == [i \in 1..Kept(n) |-> i]

(* What holds while a command is executed. *)
CommandOK ==
  /\ run \in Runs
  /\ run.copied <= run.sent
  /\ run.sent + run.owed <= MaxBytes
  /\ run.buffer = Beginning(run.copied)

(* The beginning of an output is a sequence of its bytes. *)
LEMMA BeginningIsSeq ==
  ASSUME NEW n \in 0..MaxBytes
  PROVE  Beginning(n) \in Seq(1..MaxBytes) /\ Len(Beginning(n)) = Kept(n)
<1>1. Kept(n) \in 0..n
  BY MaxOutputIsNatural, BytesAreBounded DEF Kept
<1>2. \A i \in 1..Kept(n) : i \in 1..MaxBytes
  BY <1>1, BytesAreBounded
<1> QED BY <1>1, <1>2, BytesAreBounded DEF Beginning

(* The first bytes and the ones after them. *)
LEMMA BytesInOrder ==
  ASSUME NEW m \in Nat, NEW n \in Nat
  PROVE  [i \in 1..m |-> i] \o [i \in 1..n |-> m + i] = [i \in 1..(m + n) |-> i]
  OBVIOUS

(* limitedWriter.Write (executor.go:290-302) continues the beginning: the  *)
(* bytes after the first m, written in one call, leave the beginning of    *)
(* all of them.                                                            *)
LEMMA WriteContinues ==
  ASSUME NEW m \in Nat, NEW n \in Nat, m + n <= MaxBytes
  PROVE  Write(Beginning(m), [i \in 1..n |-> m + i]) = Beginning(m + n)
<1> DEFINE b == Beginning(m)
           p == [i \in 1..n |-> m + i]
<1> USE MaxOutputIsNatural, BytesAreBounded
<1>1. b \in Seq(Nat) /\ Len(b) = Kept(m) /\ p \in Seq(Nat) /\ Len(p) = n
  <2>1. b \in [1..Kept(m) -> Nat] /\ Kept(m) \in Nat
    BY DEF Kept, Beginning
  <2>2. p \in [1..n -> Nat]
    OBVIOUS
  <2> QED BY <2>1, <2>2 DEF Beginning
<1>2. CASE MaxOutput - Len(b) <= 0
  <2>1. Kept(m) = MaxOutput /\ Kept(m + n) = MaxOutput
    BY <1>1, <1>2 DEF Kept
  <2> QED BY <1>2, <2>1 DEF Write, Beginning
<1>3. CASE MaxOutput - Len(b) > 0 /\ Len(p) > MaxOutput - Len(b)
  <2>1. Kept(m) = m /\ Kept(m + n) = MaxOutput /\ m < MaxOutput /\ n > MaxOutput - m
    BY <1>1, <1>3 DEF Kept
  <2>2. Write(b, p) = b \o SubSeq(p, 1, MaxOutput - m)
    BY <1>1, <1>3, <2>1 DEF Write
  <2>3. SubSeq(p, 1, MaxOutput - m) = [i \in 1..(MaxOutput - m) |-> m + i]
    BY <1>1, <2>1
  <2>4. b = [i \in 1..m |-> i]
    BY <2>1 DEF Beginning
  <2>5. [i \in 1..m |-> i] \o [i \in 1..(MaxOutput - m) |-> m + i]
          = [i \in 1..MaxOutput |-> i]
    <3>1. MaxOutput - m \in Nat /\ m + (MaxOutput - m) = MaxOutput
      BY <2>1
    <3> QED BY <3>1, BytesInOrder, Zenon
  <2> QED BY <2>1, <2>2, <2>3, <2>4, <2>5 DEF Beginning
<1>4. CASE MaxOutput - Len(b) > 0 /\ ~(Len(p) > MaxOutput - Len(b))
  <2>1. Kept(m) = m /\ Kept(m + n) = m + n /\ m < MaxOutput
    BY <1>1, <1>4 DEF Kept
  <2>2. Write(b, p) = b \o p
    BY <1>1, <1>4 DEF Write
  <2>3. b = [i \in 1..m |-> i]
    BY <2>1 DEF Beginning
  <2> QED BY <2>1, <2>2, <2>3, BytesInOrder DEF Beginning
<1> QED
  <2>1. Len(b) \in Int /\ Len(p) \in Int
    BY <1>1
  <2> QED BY <1>2, <1>3, <1>4, <2>1

(* A command starts with an empty buffer. *)
LEMMA StartOK ==
  ASSUME NEW n \in 0..MaxBytes, run' = Started(n)
  PROVE  CommandOK'
<1>1. Beginning(0) = << >>
  BY MaxOutputIsNatural DEF Beginning, Kept
<1>2. << >> \in Seq(1..MaxBytes)
  OBVIOUS
<1> QED BY <1>1, <1>2, BytesAreBounded DEF CommandOK, Runs, Started, Codes

(* No step of the shell, its children, the copying goroutine or the timer  *)
(* disturbs what holds of a command.                                       *)
LEMMA StepOK ==
  ASSUME CommandOK, Step
  PROVE  CommandOK'
<1> USE BytesAreBounded DEF CommandOK
<1>1. CASE Fork
  BY <1>1 DEF Fork, Runs
<1>2. CASE Emit
  <2>1. /\ run.owed - 1 \in 0..MaxBytes /\ run.sent + 1 \in 0..MaxBytes
        /\ run.copied <= run.sent + 1
        /\ (run.sent + 1) + (run.owed - 1) <= MaxBytes
    BY <1>2 DEF Emit, Runs
  <2>2. run' = [run EXCEPT !.owed = run.owed - 1, !.sent = run.sent + 1]
    BY <1>2 DEF Emit
  <2>3. run' \in Runs
    BY <2>1, <2>2 DEF Runs
  <2> QED BY <2>1, <2>2, <2>3 DEF Runs
<1>3. CASE LeftoverExits
  BY <1>3 DEF LeftoverExits, Runs
<1>4. CASE Expire
  BY <1>4 DEF Expire, Runs
<1>5. CASE Interrupt
  BY <1>5 DEF Interrupt, Runs
<1>6. CASE Reap
  BY <1>6 DEF Reap, Runs
<1>7. CASE \E code \in Codes \cup {Signalled} : ShellExits(code)
  BY <1>7 DEF ShellExits, Runs
<1>8. CASE \E n \in 1..PipeSize : Copy(n)
  <2>1. PICK n \in 1..PipeSize : Copy(n)
    BY <1>8
  <2>2. run.copied \in Nat /\ n \in Nat /\ run.copied + n <= run.sent
        /\ run.sent \in 0..MaxBytes /\ run.copied + n \in 0..MaxBytes
    BY <2>1, PipeIsUsable DEF Copy, Runs
  <2>3. Write(run.buffer, [i \in 1..n |-> run.copied + i]) = Beginning(run.copied + n)
    BY <2>2, WriteContinues
  <2>4. Beginning(run.copied + n) \in Seq(1..MaxBytes)
    BY <2>2, BeginningIsSeq
  <2>5. run' = [run EXCEPT !.copied = run.copied + n,
                           !.buffer = Beginning(run.copied + n)]
    BY <2>1, <2>3 DEF Copy
  <2> QED BY <2>2, <2>4, <2>5 DEF Runs
<1> QED BY <1>1, <1>2, <1>3, <1>4, <1>5, <1>6, <1>7, <1>8 DEF Step

(* When cmd.Run returns, all that was written has been copied. *)
LEMMA ReturnsWhole ==
  ASSUME CommandOK, RunReturns
  PROVE  run.buffer = Beginning(run.sent)
  BY DEF CommandOK, RunReturns
----------------------------------------------------------------------------
(* The proxy and the envds. *)
EnvdOK == EnvdTypeOK /\ (Running => CommandOK)

(* The expiry is the end of the ttl, cut to seconds. *)
Stamped == cred.expiresAt = Unix(cred.until)

(* What the proxy has let through, its credential grants. *)
LetThrough ==
  /\ req.stage \in {"routed", "validated", "forwarded"} => req.target \in Targets
  /\ req.stage \in {"validated", "forwarded"} =>
       /\ cred.sandbox = req.id
       /\ ScopeFor(req.method, req.path) \in cred.scopes

IInv == EnvdOK /\ ProxyTypeOK /\ Stamped /\ LetThrough /\ ScopeTablesAgree

Admitted(c) == Admission(c) = "ok"
ScopeRejected(c) == c.path # "healthz" /\ Admission(c) = "scope rejected"

(* What an envd does with a call. *)
LEMMA AcceptOK ==
  ASSUME EnvdOK, NEW c \in Calls, c.answer = "none", Accept(c)
  PROVE  /\ EnvdOK'
         /\ \E a \in Answers \cup {"none"} :
              /\ call' = [c EXCEPT !.answer = a]
              /\ a = "scope rejected" => ScopeRejected(c)
              /\ c.path # "healthz" /\ a \in {"none", "ok", "error"} => Admitted(c)
<1>1. ~Running /\ tenant' = tenant /\ phase' = phase
  BY DEF EnvdOK, EnvdTypeOK, Accept
<1>2. ASSUME NEW a \in Answers, Answered(c, a)
      PROVE  EnvdOK' /\ call' = [c EXCEPT !.answer = a]
  <2>1. call' = [c EXCEPT !.answer = a] /\ run' = run
    BY <1>2 DEF Answered
  <2>2. call' \in Calls /\ call'.answer # "none"
    BY <2>1, <1>2 DEF Calls, Answers
  <2> QED BY <1>1, <2>1, <2>2 DEF EnvdOK, EnvdTypeOK, Running, Busy, CommandOK
<1>3. CASE Health(c)
  <2>1. Answered(c, "ok") /\ "ok" \in Answers /\ c.path = "healthz"
    BY <1>3 DEF Health, Answers
  <2>2. EnvdOK' /\ call' = [c EXCEPT !.answer = "ok"]
    BY <2>1, <1>2
  <2> QED BY <2>1, <2>2 DEF Admitted, ScopeRejected
<1>4. CASE Refuse(c)
  <2>1. Answered(c, Admission(c)) /\ ~Admitted(c) /\ c.path # "healthz"
    BY <1>4 DEF Refuse, Admitted
  <2>2. Admission(c) \in Answers /\ Admission(c) \notin {"none", "error"}
    BY DEF Admission, Authorize, Answers
  <2>3. EnvdOK' /\ call' = [c EXCEPT !.answer = Admission(c)]
    BY <2>1, <2>2, <1>2
  <2> QED BY <2>1, <2>2, <2>3 DEF Admitted, ScopeRejected
<1>5. CASE ServeFile(c)
  <2>1. PICK a \in {"ok", "error"} : Answered(c, a)
    BY <1>5 DEF ServeFile
  <2>2. Admitted(c) /\ a \in Answers
    BY <1>5 DEF ServeFile, Admitted, Answers
  <2> QED BY <2>1, <2>2, <1>2
<1>6. CASE ServeCommand(c)
  <2>1. Admitted(c)
    BY <1>6 DEF ServeCommand, Admitted
  <2>2. CASE Answered(c, "error")
    BY <2>1, <2>2, <1>2 DEF Answers
  <2>3. CASE call' = c /\ \E n \in 0..MaxBytes : Exec(n)
    <3>1. PICK n \in 0..MaxBytes : run' = Started(n)
      BY <2>3 DEF Exec
    <3>2. CommandOK'
      BY <3>1, StartOK
    <3>3. call' = [c EXCEPT !.answer = "none"]
      BY <2>3 DEF Calls
    <3>4. Running' /\ Busy' /\ run' \in Runs
      BY <3>1, <3>2, <2>3 DEF Running, Busy, NoRun, NoCall, Calls, Started, CommandOK
    <3>5. EnvdOK'
      BY <1>1, <2>3, <3>2, <3>4 DEF EnvdOK, EnvdTypeOK
    <3> QED BY <2>1, <3>3, <3>5
  <2> QED BY <1>6, <2>2, <2>3 DEF ServeCommand
<1> QED BY <1>3, <1>4, <1>5, <1>6 DEF Accept

(* A step in which no call is refused for its scope. *)
NoNewRefusal ==
  Busy' /\ call'.answer = "scope rejected" => Busy /\ call.answer = "scope rejected"

(* It keeps what the tables agree on, if it forwards nothing.              *)
LEMMA TablesStillAgree ==
  ASSUME ScopeTablesAgree, NoNewRefusal, req' = req \/ req'.stage # "forwarded"
  PROVE  ScopeTablesAgree'
  BY DEF ScopeTablesAgree, NoNewRefusal, At

(* The rest of what happens in an envd: the command goes on and returns,   *)
(* calls are over, and Pods come and go.                                   *)
LEMMA EnvdStepOK ==
  ASSUME EnvdOK,
         \/ CommandStep \/ Return
         \/ call' = NoCall /\ call.answer # "none" /\ UNCHANGED <<tenant, phase, run>>
         \/ \E t \in Targets :
              \/ \E id \in Sandboxes : Boot(t, id)
              \/ Terminate(t) \/ CloseGateway(t) \/ Exit(t) \/ Crash(t)
  PROVE  EnvdOK' /\ NoNewRefusal
<1> USE DEF EnvdOK, EnvdTypeOK
<1>1. CASE CommandStep
  <2>1. CommandOK'
    BY <1>1, StepOK DEF CommandStep, Step
  <2>2. Running /\ Running'
    BY <1>1, <2>1 DEF CommandStep, Step, Running, CommandOK, Runs, NoRun
  <2> QED BY <1>1, <2>1, <2>2 DEF CommandStep, CommandOK, Busy, NoNewRefusal
<1>2. CASE Return
  <2>1. Outcome \in {"timeout", "success", "failure"}
    BY DEF Outcome
  <2>2. call \in Calls /\ call' = [call EXCEPT !.answer = Outcome] /\ run' = NoRun
    BY <1>2 DEF Return, Busy
  <2>3. call' \in Calls /\ call'.answer \in {"timeout", "success", "failure"}
    BY <2>1, <2>2 DEF Calls, Answers
  <2> QED BY <1>2, <2>2, <2>3 DEF Return, Running, NoNewRefusal
<1>3. CASE call' = NoCall /\ call.answer # "none" /\ UNCHANGED <<tenant, phase, run>>
  BY <1>3 DEF Running, Busy, NoNewRefusal
<1>4. ASSUME NEW t \in Targets,
             \/ \E id \in Sandboxes : Boot(t, id)
             \/ Terminate(t) \/ CloseGateway(t)
      PROVE  EnvdOK' /\ NoNewRefusal
  <2>1. call' = call /\ run' = run
    BY <1>4 DEF Boot, Terminate, CloseGateway
  <2>2. tenant' \in [Targets -> Sandboxes \cup {NoTarget}] /\ phase' \in [Targets -> Phases]
    BY <1>4 DEF Boot, Terminate, CloseGateway, Phases
  <2> QED BY <2>1, <2>2 DEF Running, Busy, CommandOK, NoNewRefusal
<1>5. ASSUME NEW t \in Targets, Ends(t)
      PROVE  EnvdOK' /\ NoNewRefusal
  <2>1. tenant' \in [Targets -> Sandboxes \cup {NoTarget}] /\ phase' \in [Targets -> Phases]
    BY <1>5 DEF Ends, Phases
  <2>2. CASE InService(t)
    <3>1. call \in Calls /\ call' = [call EXCEPT !.answer = "cut"] /\ run' = NoRun
      BY <1>5, <2>2 DEF Ends, InService, Busy
    <3>2. call' \in Calls /\ call'.answer = "cut"
      BY <3>1 DEF Calls, Answers
    <3> QED BY <2>1, <3>1, <3>2 DEF Running, NoNewRefusal
  <2>3. CASE ~InService(t)
    <3>1. call' = call /\ run' = run
      BY <1>5, <2>3 DEF Ends
    <3> QED BY <2>1, <3>1 DEF Running, Busy, CommandOK, NoNewRefusal
  <2> QED BY <2>2, <2>3
<1> QED BY <1>1, <1>2, <1>3, <1>4, <1>5 DEF Exit, Crash

(* Time in seconds. *)
LEMMA UnixBounds ==
  ASSUME NEW time \in Nat
  PROVE  /\ Unix(time) \in 0..time
         /\ \A later \in Nat : /\ Unix(time) < Unix(later) => time < later
                               /\ time + 2 <= later => Unix(time) < Unix(later)
  BY DEF Unix

(* A credential has just been issued. *)
LEMMA InitIInv == Init => IInv
<1> SUFFICES ASSUME Init PROVE IInv
  OBVIOUS
<1>1. EnvdOK
  BY DEF Init, EnvdInit, EnvdOK, EnvdTypeOK, Phases, Running, Busy
<1>2. PICK id \in Clients, scopes \in Grants, ttl \in 1..MaxTtl :
        cred = Issue(id, scopes, ttl)
  BY DEF Init
<1>3. now \in 0..MaxTime /\ now + ttl \in 0..(MaxTime + MaxTtl) /\ now + ttl \in Nat
  BY TimesAreNatural DEF Init
<1>4. Unix(now + ttl) \in 0..(MaxTime + MaxTtl)
  <2>1. Unix(now + ttl) \in 0..(now + ttl)
    BY <1>3, UnixBounds
  <2> QED BY <1>3, <2>1, TimesAreNatural
<1>5. id \in Sandboxes /\ scopes \in SUBSET Scopes
  BY ClientsAreSandboxes, GrantsAreScopes
<1>6. cred \in Creds /\ Stamped
  BY <1>2, <1>3, <1>4, <1>5 DEF Issue, Creds, Stamped
<1>7. ProxyTypeOK
  BY <1>3, <1>6 DEF Init, ProxyTypeOK, RouteTables, NoRoutes
<1> QED
  BY <1>1, <1>6, <1>7
  DEF IInv, Init, EnvdInit, LetThrough, NoRequest, ScopeTablesAgree, Busy

(* What stays when a step leaves the envds alone. *)
LEMMA EnvdUnchanged ==
  ASSUME EnvdOK, UNCHANGED envdVars
  PROVE  EnvdOK' /\ NoNewRefusal
  BY DEF EnvdOK, EnvdTypeOK, Running, CommandOK, Busy, NoNewRefusal, envdVars

(* What stays when a step leaves the proxy alone. *)
LEMMA ProxyUnchanged ==
  ASSUME ProxyTypeOK, Stamped, LetThrough, UNCHANGED proxyVars
  PROVE  ProxyTypeOK' /\ Stamped' /\ LetThrough' /\ req' = req
  BY DEF ProxyTypeOK, Stamped, LetThrough, proxyVars

(* The steps of Proxy.Handler that do not involve an envd. *)
LEMMA HandlerOK ==
  ASSUME ProxyTypeOK, Stamped, LetThrough,
         \/ \E id \in Sandboxes, shape \in Shapes : Send(id, shape)
         \/ Route \/ Validate \/ Unavailable \/ Finish
  PROVE  /\ ProxyTypeOK' /\ Stamped' /\ LetThrough' /\ UNCHANGED envdVars
         /\ req'.stage # "forwarded"
<1> USE DEF At
<1>0. UNCHANGED <<routes, now, cred, envdVars>>
  BY DEF Send, Route, Validate, Unavailable, Finish
<1> SUFFICES /\ req' \in Requests \cup {NoRequest} /\ LetThrough'
             /\ req'.stage # "forwarded"
  BY <1>0 DEF ProxyTypeOK, Stamped
<1>1. ASSUME NEW id \in Sandboxes, NEW shape \in Shapes, Send(id, shape)
      PROVE  req' \in Requests /\ LetThrough' /\ req'.stage # "forwarded"
  BY <1>1, ShapesAreCalls DEF Send, Requests, LetThrough
<1>2. ASSUME NEW answer \in Answers \cup {"no route", "rejected", "unavailable"},
             req \in Requests, Reply(answer)
      PROVE  req' \in Requests /\ LetThrough' /\ req'.stage # "forwarded"
  BY <1>2 DEF Reply, Requests, LetThrough
<1>3. CASE Route
  <2>1. req \in Requests
    <3>1. At("received")
      BY <1>3 DEF Route
    <3> QED BY <3>1 DEF NoRequest, ProxyTypeOK
  <2>2. routes[req.id] \in Targets \cup {NoTarget}
    BY <2>1 DEF RouteTables, Requests, ProxyTypeOK
  <2>3. CASE Reply("no route")
    BY <2>1, <2>3, <1>2
  <2>4. CASE req' = [req EXCEPT !.stage = "routed", !.target = routes[req.id]]
             /\ routes[req.id] # NoTarget
    <3>1. req' \in Requests /\ req'.stage = "routed" /\ req'.target \in Targets
      BY <2>1, <2>2, <2>4 DEF Requests
    <3> QED BY <3>1 DEF LetThrough
  <2> QED BY <1>3, <2>3, <2>4 DEF Route
<1>4. CASE Validate
  <2>1. req \in Requests
    BY <1>4 DEF Validate, NoRequest, ProxyTypeOK
  <2>2. CASE Reply("rejected")
    BY <2>1, <2>2, <1>2
  <2>3. CASE /\ req' = [req EXCEPT !.stage = "validated"] /\ cred' = cred
             /\ Valid(req.id, ScopeFor(req.method, req.path))
    <3>1. /\ req' \in Requests /\ req'.id = req.id /\ req'.method = req.method
          /\ req'.path = req.path /\ req'.target = req.target
          /\ req'.stage = "validated"
      BY <2>1, <2>3 DEF Requests
    <3> QED BY <1>4, <2>3, <3>1 DEF Validate, Valid, ScopeFor, LetThrough
  <2> QED BY <1>4, <2>2, <2>3 DEF Validate
<1>5. CASE Unavailable
  <2>1. req \in Requests
    BY <1>5 DEF Unavailable, NoRequest, ProxyTypeOK
  <2> QED BY <1>5, <2>1, <1>2 DEF Unavailable
<1>6. CASE Finish
  BY <1>6 DEF Finish, LetThrough, NoRequest
<1> QED BY <1>1, <1>3, <1>4, <1>5, <1>6

(* The proxy's request is forwarded, and its answer comes back. *)
LEMMA ForwardOK ==
  ASSUME IInv, Forward
  PROVE  /\ IInv'
         /\ call'.via = "http"
         /\ call'.path # "healthz" /\ call'.answer \in {"none", "ok", "error"} =>
              /\ Admitted(Forwarded)
              /\ call'.target = Forwarded.target /\ call'.id = Forwarded.id
              /\ call'.path = Forwarded.path /\ call'.scopes = Forwarded.scopes
<1> DEFINE c == Forwarded
<1>1. req \in Requests /\ req.target \in Targets /\ cred \in Creds
  BY DEF Forward, At, IInv, ProxyTypeOK, NoRequest, LetThrough
<1>2. c \in Calls /\ c.answer = "none" /\ c.via = "http"
  BY <1>1 DEF Forwarded, JoinPath, Calls, Requests, RawPaths, Creds
<1>3. /\ req' = [req EXCEPT !.stage = "forwarded"] /\ req.stage = "validated"
      /\ UNCHANGED <<routes, now, cred>> /\ Accept(c)
  BY DEF Forward, At
<1>4. /\ EnvdOK'
      /\ \E a \in Answers \cup {"none"} :
           /\ call' = [c EXCEPT !.answer = a]
           /\ a = "scope rejected" => ScopeRejected(c)
           /\ c.path # "healthz" /\ a \in {"none", "ok", "error"} => Admitted(c)
  <2> HIDE DEF c
  <2> QED BY <1>2, <1>3, AcceptOK DEF IInv
<1>5. PICK a \in Answers \cup {"none"} :
           /\ call' = [c EXCEPT !.answer = a]
           /\ a = "scope rejected" => ScopeRejected(c)
           /\ c.path # "healthz" /\ a \in {"none", "ok", "error"} => Admitted(c)
  BY <1>4
<1>6. /\ call'.answer = a /\ call'.target = c.target /\ call'.id = c.id
      /\ call'.path = c.path /\ call'.scopes = c.scopes /\ call'.via = "http"
  <2> HIDE DEF c
  <2> QED BY <1>2, <1>5 DEF Calls
<1>7. req.path.slashes = 1 => ~ScopeRejected(c)
  <2> SUFFICES ASSUME req.path.slashes = 1 PROVE ~ScopeRejected(c)
    OBVIOUS
  <2>1. ScopeFor(req.method, req.path) \in c.scopes
    BY <1>3 DEF IInv, LetThrough, Forwarded
  <2>2. c.path = req.path.name /\ c.method = req.method /\ c.via = "http"
    BY DEF Forwarded, JoinPath
  <2>3. c.path \in Handled /\ c.method = MethodOf(c.path) /\ c.path # "healthz"
           => ScopeFor(req.method, req.path) = ScopeOf(c.path)
    <3> HIDE DEF c
    <3> QED BY <2>2 DEF Handled, MethodOf, ScopeFor, HasPrefix, ScopeOf
  <2> HIDE DEF c
  <2> QED BY <2>1, <2>2, <2>3 DEF Admission, Authorize, ScopeRejected
<1>8. ScopeTablesAgree'
  <2>1. req'.path = req.path
    BY <1>1, <1>3 DEF Requests
  <2> QED BY <1>5, <1>6, <1>7, <2>1 DEF ScopeTablesAgree
<1>9. ProxyTypeOK' /\ Stamped' /\ LetThrough'
  <2>1. /\ req' \in Requests /\ req'.id = req.id /\ req'.method = req.method
        /\ req'.path = req.path /\ req'.target = req.target
    BY <1>1, <1>3 DEF Requests
  <2> QED BY <1>1, <1>3, <2>1 DEF IInv, ProxyTypeOK, Stamped, LetThrough, ScopeFor
<1> HIDE DEF c
<1> QED BY <1>4, <1>5, <1>6, <1>8, <1>9 DEF IInv, c

(* A call over gRPC, with whatever metadata its caller sends. *)
LEMMA RpcOK ==
  ASSUME IInv, NEW t \in Targets, NEW id \in Sandboxes \cup {NoTarget},
         NEW scopes \in Grants, NEW shape \in Shapes, Rpc(t, id, scopes, shape)
  PROVE  /\ IInv'
         /\ call'.via = "grpc" /\ call'.target = t
         /\ call'.path # "healthz" /\ call'.answer \in {"none", "ok", "error"} =>
              call'.id = tenant[call'.target] /\ ScopeOf(call'.path) \in call'.scopes
<1> DEFINE c == [via |-> "grpc", target |-> t, id |-> id, scopes |-> scopes,
                 path |-> shape.path.name, method |-> "POST",
                 wellFormed |-> shape.wellFormed, answer |-> "none"]
<1>1. c \in Calls /\ c.answer = "none" /\ c.via = "grpc" /\ c.target = t
  BY ShapesAreCalls, GrantsAreScopes DEF Calls, Methods, RawPaths
<1>2. Accept(c) /\ UNCHANGED proxyVars
  BY DEF Rpc
<1> HIDE DEF c
<1>3. /\ EnvdOK'
      /\ \E a \in Answers \cup {"none"} :
           /\ call' = [c EXCEPT !.answer = a]
           /\ a = "scope rejected" => ScopeRejected(c)
           /\ c.path # "healthz" /\ a \in {"none", "ok", "error"} => Admitted(c)
  BY <1>1, <1>2, AcceptOK DEF IInv
<1>4. PICK a \in Answers \cup {"none"} :
           /\ call' = [c EXCEPT !.answer = a]
           /\ c.path # "healthz" /\ a \in {"none", "ok", "error"} => Admitted(c)
  BY <1>3
<1>5. /\ call'.answer = a /\ call'.target = c.target /\ call'.id = c.id
      /\ call'.path = c.path /\ call'.scopes = c.scopes /\ call'.via = "grpc"
  BY <1>1, <1>4 DEF Calls
<1>6. Admitted(c) => c.id = tenant[c.target] /\ ScopeOf(c.path) \in c.scopes
  BY DEF Admitted, Admission, Authorize
<1>7. ProxyTypeOK' /\ Stamped' /\ LetThrough'
  BY <1>2, ProxyUnchanged DEF IInv
<1>8. ScopeTablesAgree'
  <2>1. req = NoRequest
    BY DEF Rpc
  <2>2. req'.stage = "none"
    BY <1>2, <2>1 DEF proxyVars, NoRequest
  <2> QED BY <2>2 DEF At, ScopeTablesAgree
<1> QED BY <1>1, <1>3, <1>4, <1>5, <1>6, <1>7, <1>8 DEF IInv

(* What the proxy forwards and an envd admits is the credential's. *)
LEMMA ForwardedIsGranted ==
  ASSUME IInv, Forward, Admitted(Forwarded)
  PROVE  /\ Forwarded.id = tenant[Forwarded.target]
         /\ ScopeOf(Forwarded.path) \in Forwarded.scopes
         /\ Forwarded.scopes = cred.scopes /\ Forwarded.id = cred.sandbox
<1>1. cred.sandbox = req.id
  BY DEF IInv, LetThrough, Forward, At
<1>2. Forwarded.scopes = cred.scopes /\ Forwarded.id = req.id
  BY DEF Forwarded
<1>3. Forwarded.id = tenant[Forwarded.target] /\ ScopeOf(Forwarded.path) \in Forwarded.scopes
  BY DEF Admitted, Admission, Authorize
<1> QED BY <1>1, <1>2, <1>3

(* Every step keeps the invariant. *)
LEMMA NextIInv ==
  ASSUME IInv, [Next]_vars
  PROVE  IInv'
<1>1. CASE \/ \E id \in Sandboxes, shape \in Shapes : Send(id, shape)
           \/ Route \/ Validate \/ Unavailable \/ Finish
  BY <1>1, HandlerOK, EnvdUnchanged, TablesStillAgree DEF IInv
<1>2. CASE \E t \in Targets, id \in Sandboxes \cup {NoTarget}, scopes \in Grants,
              shape \in Shapes : Rpc(t, id, scopes, shape)
  BY <1>2, RpcOK
<1>3. CASE Forward
  BY <1>3, ForwardOK
<1>4. CASE Relay
  <2>1. EnvdOK' /\ NoNewRefusal
    BY <1>4, EnvdStepOK DEF Relay, IInv
  <2>2. req \in Requests
    BY <1>4 DEF Relay, At, IInv, ProxyTypeOK, NoRequest
  <2>3. call.answer \in Answers
    BY <1>4 DEF Relay, Busy, IInv, EnvdOK, EnvdTypeOK, Calls
  <2>4. PICK answer \in Answers \cup {"unavailable"} : Reply(answer)
    BY <1>4, <2>3 DEF Relay
  <2>5. req' \in Requests /\ req'.stage = "answered"
    BY <2>2, <2>4 DEF Reply, Requests
  <2>6. ScopeTablesAgree'
    BY <2>1, <2>5, TablesStillAgree DEF IInv
  <2> QED BY <1>4, <2>1, <2>5, <2>6 DEF Relay, IInv, ProxyTypeOK, Stamped, LetThrough
<1>5. CASE Hangup
  BY <1>5, EnvdStepOK, ProxyUnchanged, TablesStillAgree DEF Hangup, IInv
<1>6. CASE Command
  <2>1. (CommandStep \/ Return) /\ UNCHANGED proxyVars
    BY <1>6 DEF Command
  <2> QED BY <2>1, EnvdStepOK, ProxyUnchanged, TablesStillAgree DEF IInv
<1>7. CASE Tick
  <2>1. now' \in 0..MaxTime
    BY <1>7, TimesAreNatural DEF Tick, IInv, ProxyTypeOK
  <2> QED BY <1>7, <2>1, EnvdUnchanged, TablesStillAgree
      DEF Tick, IInv, ProxyTypeOK, Stamped, LetThrough
<1>8. CASE RoutesChange
  BY <1>8, EnvdUnchanged, TablesStillAgree
  DEF RoutesChange, Set, Unregister, RouteTables, IInv, ProxyTypeOK, Stamped, LetThrough
<1>9. CASE \E t \in Targets : Lifecycle(t) \/ Stop(t)
  BY <1>9, EnvdStepOK, ProxyUnchanged, TablesStillAgree DEF Lifecycle, Stop, IInv
<1>10. CASE UNCHANGED vars
  BY <1>10, EnvdUnchanged, ProxyUnchanged, TablesStillAgree DEF vars, IInv
<1> QED
  BY <1>1, <1>2, <1>3, <1>4, <1>5, <1>6, <1>7, <1>8, <1>9, <1>10 DEF Next

(* The invariant holds of every behaviour of proxy and envds. *)
THEOREM Invariance == Spec => []IInv
  BY InitIInv, NextIInv, PTL DEF Spec

(* executor.go:290-302: for every size of buffer and pipe, Exec returns    *)
(* the beginning of the output, as much of it as the buffer takes.         *)
THEOREM OutputIsComplete == Spec => []OutputIsWhole
<1>1. IInv => OutputIsWhole
  BY ReturnsWhole DEF IInv, EnvdOK, OutputIsWhole, Beginning, Kept
<1> QED BY <1>1, Invariance, PTL

(* proxy.go:204-217 and the scopes envd asks for: what the proxy lets      *)
(* through on a path sent with one slash, no envd refuses for its scope.   *)
THEOREM ScopesAgree == Spec => []ScopeTablesAgree
<1>1. IInv => ScopeTablesAgree
  BY DEF IInv
<1> QED BY <1>1, Invariance, PTL

(* An RPC is served by an envd that has not got past GracefulStop. *)
RpcIsServed ==
  Busy /\ call.via = "grpc" /\ call.answer = "none" =>
    phase[call.target] \in {"up", "stopping"}

(* Every step keeps it: an RPC is accepted by an envd that is up, and the  *)
(* gateway is closed when none is left.                                    *)
LEMMA NextServed ==
  ASSUME IInv, RpcIsServed, [Next]_vars
  PROVE  RpcIsServed'
<1>0. phase \in [Targets -> Phases] /\ (Busy => call \in Calls)
  BY DEF IInv, EnvdOK, EnvdTypeOK, Busy
<1>1. CASE UNCHANGED <<phase, call>>
  BY <1>1 DEF RpcIsServed, Busy
<1>2. CASE ~Busy' \/ call'.via # "grpc" \/ call'.answer # "none"
  BY <1>2 DEF RpcIsServed
<1>3. CASE \/ \E id \in Sandboxes, shape \in Shapes : Send(id, shape)
           \/ Route \/ Validate \/ Unavailable \/ Finish \/ Tick \/ RoutesChange
           \/ UNCHANGED vars
  BY <1>1, <1>3
  DEF Send, Route, Validate, Unavailable, Finish, Tick, RoutesChange, vars, envdVars
<1>4. ASSUME NEW t \in Targets, NEW id \in Sandboxes \cup {NoTarget},
             NEW scopes \in Grants, NEW shape \in Shapes, Rpc(t, id, scopes, shape)
      PROVE  RpcIsServed'
  <2>1. call'.target = t
    BY <1>4, RpcOK
  <2>2. phase' = phase /\ phase[t] = "up"
    BY <1>4 DEF Rpc, Accept
  <2> QED BY <2>1, <2>2 DEF RpcIsServed
<1>5. CASE Forward
  BY <1>2, <1>5, ForwardOK
<1>6. CASE Relay \/ Hangup
  BY <1>2, <1>6 DEF Relay, Hangup, Busy
<1>7. CASE Command
  <2>1. CASE CommandStep
    BY <1>1, <2>1 DEF CommandStep
  <2>2. CASE Return
    <3>1. call \in Calls /\ call' = [call EXCEPT !.answer = Outcome] /\ Outcome # "none"
      BY <1>0, <2>2 DEF Return, Outcome, IInv, EnvdOK, EnvdTypeOK
    <3>2. call'.answer # "none"
      BY <3>1 DEF Calls
    <3> QED BY <1>2, <3>2
  <2> QED BY <1>7, <2>1, <2>2 DEF Command
<1>8. ASSUME NEW t \in Targets, Lifecycle(t) \/ Stop(t)
      PROVE  RpcIsServed'
  <2>1. CASE (\E id \in Sandboxes : Boot(t, id)) \/ Terminate(t)
    <3>1. PICK p \in {"up", "stopping"} : phase' = [phase EXCEPT ![t] = p] /\ call' = call
      BY <2>1 DEF Boot, Terminate
    <3>2. \A u \in Targets : phase[u] \in {"up", "stopping"} => phase'[u] \in {"up", "stopping"}
      BY <1>0, <3>1
    <3>3. Busy => call.target \in Targets
      BY <1>0 DEF Calls
    <3> QED BY <3>1, <3>2, <3>3 DEF RpcIsServed, Busy
  <2>2. CASE CloseGateway(t)
    BY <1>0, <2>2 DEF CloseGateway, RpcIsServed, InService, Busy
  <2>3. CASE Ends(t) /\ InService(t)
    <3>1. call \in Calls /\ call' = [call EXCEPT !.answer = "cut"]
      BY <1>0, <2>3 DEF Ends, InService
    <3>2. call'.answer # "none"
      BY <3>1 DEF Calls
    <3> QED BY <1>2, <3>2
  <2>4. CASE Ends(t) /\ ~InService(t)
    BY <1>0, <2>4 DEF Ends, RpcIsServed, InService, Busy
  <2> QED BY <1>8, <2>1, <2>2, <2>3, <2>4 DEF Lifecycle, Stop, Exit, Crash
<1> QED BY <1>3, <1>4, <1>5, <1>6, <1>7, <1>8 DEF Next

(* cmd/envd/main.go:97-98: for any number of envds, and whenever a stop, a *)
(* crash or the end of a command comes, main never returns while an RPC is *)
(* being served.                                                           *)
THEOREM ExitCutsOffNoRpc == Spec => RpcsAreFinished
<1>1. Init => RpcIsServed
  BY DEF Init, EnvdInit, RpcIsServed, Busy
<1>2. IInv /\ RpcIsServed /\ [Next]_vars => RpcIsServed'
  BY NextServed
<1>3. RpcIsServed =>
        [\A t \in Targets : Exit(t) => ~(InService(t) /\ call.via = "grpc")]_vars
  BY DEF RpcIsServed, Exit, InService
<1> QED BY <1>1, <1>2, <1>3, Invariance, PTL DEF Spec, RpcsAreFinished

(* http_gateway.go:14-18: however routes and addresses change, an executor *)
(* is called only in the sandbox of the credential, for what it grants.    *)
THEOREM OnlyGrantedIsExecuted == Spec => ExecutesOnlyAsGranted
<1> DEFINE Granted ==
      ~Busy /\ Busy' /\ call'.path # "healthz" /\ call'.answer \in {"none", "ok", "error"}
      => /\ tenant[call'.target] = call'.id
         /\ ScopeOf(call'.path) \in call'.scopes
         /\ call'.via = "http" => /\ cred.sandbox = tenant[call'.target]
                                 /\ ScopeOf(call'.path) \in cred.scopes
<1>1. ASSUME IInv, [Next]_vars PROVE [Granted]_vars
  <2>1. CASE Forward
    BY <1>1, <2>1, ForwardOK, ForwardedIsGranted
  <2>2. CASE \E t \in Targets, id \in Sandboxes \cup {NoTarget}, scopes \in Grants,
                shape \in Shapes : Rpc(t, id, scopes, shape)
    BY <1>1, <2>2, RpcOK
  <2>3. CASE call' = call \/ Busy \/ ~Busy'
    BY <2>3 DEF Busy
  <2>4. CASE \/ \E id \in Sandboxes, shape \in Shapes : Send(id, shape)
             \/ Route \/ Validate \/ Unavailable \/ Finish \/ Tick \/ RoutesChange
    BY <2>4, <2>3
    DEF Send, Route, Validate, Unavailable, Finish, Tick, RoutesChange, envdVars
  <2>5. CASE Relay \/ Hangup
    BY <2>5, <2>3 DEF Relay, Hangup
  <2>6. CASE Command
    BY <1>1, <2>6, <2>3
    DEF Command, CommandStep, Return, IInv, EnvdOK, EnvdTypeOK
  <2>7. CASE \E t \in Targets : Lifecycle(t) \/ Stop(t)
    BY <2>7, <2>3
    DEF Lifecycle, Stop, Boot, Terminate, Crash, CloseGateway, Exit, Ends, InService
  <2>8. CASE UNCHANGED vars
    BY <2>8
  <2> QED BY <1>1, <2>1, <2>2, <2>4, <2>5, <2>6, <2>7, <2>8 DEF Next
<1>2. Spec => [][Granted]_vars
  BY <1>1, Invariance, PTL DEF Spec
<1> QED BY <1>2 DEF ExecutesOnlyAsGranted

(* proxy.go:80: a credential is honoured before the end of its ttl only,   *)
(* and until its last second.                                              *)
THEOREM TtlIsHonoured == Spec => HonouredForItsTtl
<1> DEFINE Honoured ==
      At("routed") /\ ~At("routed")' =>
        /\ At("validated")' => now < cred.until
        /\ cred.sandbox = req.id
           /\ ScopeFor(req.method, req.path) \in cred.scopes
           /\ now + 2 <= cred.until => At("validated")'
<1>1. ASSUME IInv, [Next]_vars PROVE [Honoured]_vars
  <2>1. CASE Validate
    <3>1. now \in Nat /\ cred.until \in Nat /\ Stamped /\ req \in Requests
      BY <1>1, <2>1, TimesAreNatural
      DEF IInv, ProxyTypeOK, Creds, Validate, At, NoRequest
    <3>2. At("validated")' <=> Valid(req.id, ScopeFor(req.method, req.path))
      BY <2>1, <3>1 DEF Validate, Reply, At, Requests
    <3>3. /\ ~Expired => now < cred.until
          /\ now + 2 <= cred.until => ~Expired
      <4>1. /\ Unix(now) < Unix(cred.until) => now < cred.until
            /\ now + 2 <= cred.until => Unix(now) < Unix(cred.until)
        BY <3>1, UnixBounds
      <4>2. Unix(now) \in Int /\ Unix(cred.until) \in Int
        BY <3>1, UnixBounds
      <4> QED BY <3>1, <4>1, <4>2 DEF Expired, Stamped
    <3> QED BY <3>2, <3>3 DEF Valid
  <2>2. CASE ~Validate
    <3>1. ASSUME At("routed") PROVE UNCHANGED req
      <4>1. req # NoRequest
        BY <3>1 DEF At, NoRequest
      <4>2. ~(\E id \in Sandboxes, shape \in Shapes : Send(id, shape))
        BY <4>1 DEF Send
      <4>3. ~(Route \/ Forward \/ Unavailable \/ Relay \/ Finish)
        BY <3>1 DEF Route, Forward, Unavailable, Relay, Finish, At
      <4>4. CASE \/ Hangup \/ Command \/ Tick \/ RoutesChange
                 \/ \E t \in Targets : Lifecycle(t) \/ Stop(t)
                 \/ UNCHANGED vars
        BY <4>4 DEF Hangup, Command, Tick, RoutesChange, Lifecycle, Stop, proxyVars, vars
      <4>5. CASE \E t \in Targets, id \in Sandboxes \cup {NoTarget}, scopes \in Grants,
                    shape \in Shapes : Rpc(t, id, scopes, shape)
        BY <4>1, <4>5 DEF Rpc
      <4> QED BY <1>1, <2>2, <4>2, <4>3, <4>4, <4>5 DEF Next
    <3> QED BY <3>1 DEF At
  <2> QED BY <2>1, <2>2
<1>2. Spec => [][Honoured]_vars
  BY <1>1, Invariance, PTL DEF Spec
<1> QED BY <1>2 DEF HonouredForItsTtl

(***************************************************************************)
(* Files, for every file system, root and path.  The paths that links lead *)
(* to are given by recursive functions; induction over the naturals, as a  *)
(* fact about sets of them, shows that these exist and what they preserve. *)
(***************************************************************************)

(* A set of natural numbers has a least one. *)
LEMMA LeastNatural ==
  ASSUME NEW T \in SUBSET Nat, T # {}
  PROVE  \E n \in T : \A m \in T : n <= m
<1> DEFINE R == OpToRel(<, Nat)
<1>1. IsWellFoundedOn(R, Nat)
  BY NatLessThanWellFounded
<1>2. \A x, y \in Nat : x < y => <<x, y>> \in R
  BY DEF OpToRel
<1> HIDE DEF R
<1>3. PICK x \in T : \A y \in T : ~(<<y, x>> \in R)
  BY <1>1, WFMin, Zenon
<1>4. \A y \in T : x \in Nat /\ y \in Nat /\ ~(y < x)
  BY <1>2, <1>3, Zenon
<1>5. \A y \in T : x <= y
  BY <1>4
<1> QED BY <1>3, <1>5

(* What holds of 0, and of n + 1 if it holds of n, holds of every n. *)
LEMMA Induction ==
  ASSUME NEW T, 0 \in T, \A n \in Nat : n \in T => n + 1 \in T
  PROVE  \A n \in Nat : n \in T
<1> DEFINE bad == {n \in Nat : n \notin T}
<1> SUFFICES ASSUME bad # {} PROVE FALSE
  OBVIOUS
<1>1. PICK x \in bad : \A y \in bad : x <= y
  BY LeastNatural, Zenon
<1>2. x # 0 /\ x - 1 \in Nat /\ x - 1 < x
  BY <1>1
<1>3. x - 1 \notin bad
  BY <1>1, <1>2
<1> QED BY <1>1, <1>2, <1>3

(* Up to a bound. *)
LEMMA BoundedInduction ==
  ASSUME NEW N \in Nat, NEW T, 0 \in T, \A n \in 1..N : n - 1 \in T => n \in T
  PROVE  \A n \in 0..N : n \in T
<1> DEFINE U == {n \in Nat : n <= N => n \in T}
<1>1. 0 \in U
  OBVIOUS
<1>2. \A n \in Nat : n \in U => n + 1 \in U
  OBVIOUS
<1> HIDE DEF U
<1>3. \A n \in Nat : n \in U
  BY <1>1, <1>2, Induction
<1> QED BY <1>3 DEF U

(* f begins with b, and G makes each further value from the one before it. *)
Iterates(f, N, b, G) ==
  f = [n \in 0..N |-> IF n = 0 THEN b ELSE G[<<n, f[n - 1]>>]]

(* There is such a function. *)
LEMMA BoundedRecursion ==
  ASSUME NEW N \in Nat, NEW S, NEW b \in S, NEW G \in [(1..N) \X S -> S]
  PROVE  \E f \in [0..N -> S] : Iterates(f, N, b, G)
<1> DEFINE Upto(m, f) == Iterates(f, m, b, G)
           T == {m \in 0..N : \E f \in [0..m -> S] : Upto(m, f)}
<1>1. 0 \in T
  <2> DEFINE f == [n \in 0..0 |-> b]
  <2>1. f \in [0..0 -> S]
    OBVIOUS
  <2>2. Upto(0, f)
    BY DEF Iterates
  <2>3. \E g \in [0..0 -> S] : Upto(0, g)
    <3> HIDE DEF f
    <3> QED BY <2>1, <2>2
  <2> QED BY <2>3
<1>2. ASSUME NEW m \in 1..N, m - 1 \in T
      PROVE  m \in T
  <2>1. PICK f \in [0..(m - 1) -> S] : Upto(m - 1, f)
    BY <1>2
  <2> DEFINE v == G[<<m, f[m - 1]>>]
             g == [n \in 0..m |-> IF n = m THEN v ELSE f[n]]
  <2>2. f[m - 1] \in S /\ v \in S
    OBVIOUS
  <2>3. g \in [0..m -> S]
    BY <2>2
  <2>4. \A n \in 0..m : n # 0 => g[n - 1] = f[n - 1]
    OBVIOUS
  <2>5. \A n \in 0..(m - 1) : f[n] = IF n = 0 THEN b ELSE G[<<n, f[n - 1]>>]
    BY <2>1 DEF Iterates
  <2>6. \A n \in 0..m : g[n] = IF n = 0 THEN b ELSE G[<<n, g[n - 1]>>]
    <3> SUFFICES ASSUME NEW n \in 0..m
                 PROVE  g[n] = IF n = 0 THEN b ELSE G[<<n, g[n - 1]>>]
      BY Zenon
    <3>1. CASE n = m
      <4>1. g[m] = v /\ m # 0 /\ m \in 0..m
        OBVIOUS
      <4>2. g[m - 1] = f[m - 1]
        BY <4>1, <2>4
      <4> QED BY <3>1, <4>1, <4>2, Zenon
    <3>2. CASE n # m
      <4>1. n \in 0..(m - 1) /\ g[n] = f[n] /\ (n # 0 => g[n - 1] = f[n - 1])
        BY <3>2
      <4> QED BY <4>1, <2>5, Zenon
    <3> QED BY <3>1, <3>2
  <2> HIDE DEF g
  <2>7. Upto(m, g)
    BY <2>3, <2>6 DEF Iterates
  <2> QED BY <2>3, <2>7
<1> HIDE DEF T
<1>3. \A n \in 0..N : n \in T
  BY <1>1, <1>2, BoundedInduction
<1> QED BY <1>3 DEF T

(***************************************************************************)
(* Paths, as sequences of names.                                           *)
(***************************************************************************)

(* The two parts of a path. *)
LEMMA Ancestors ==
  ASSUME NEW p \in FilePaths, NEW k \in 0..Len(p)
  PROVE  /\ Ancestor(p, k) \in FilePaths /\ Len(Ancestor(p, k)) = k
         /\ Below(p, k) \in FilePaths /\ Len(Below(p, k)) = Len(p) - k
<1>1. Ancestor(p, k) \in FilePaths /\ Len(Ancestor(p, k)) = k
  BY DEF Ancestor, FilePaths
<1>2. Below(p, k) \in FilePaths
  BY DEF Below, FilePaths
<1>3. Len(Below(p, k)) = Len(p) - k
  BY DEF Below, FilePaths
<1> QED BY <1>1, <1>2, <1>3

(* Together they are the path. *)
LEMMA SplitPath ==
  ASSUME NEW p \in FilePaths, NEW k \in 0..Len(p)
  PROVE  Ancestor(p, k) \o Below(p, k) = p
<1> DEFINE q == Ancestor(p, k) \o Below(p, k)
<1>1. p \in Seq(STRING) /\ Len(p) \in Nat
  BY DEF FilePaths
<1>2. 1 \in 1..(Len(p) + 1) /\ k \in (1 - 1)..Len(p) /\ Len(p) \in k..Len(p)
  BY <1>1
<1>3. q = SubSeq(p, 1, Len(p))
  BY <1>1, <1>2, ConcatAdjacentSubSeq, Zenon DEF Ancestor, Below
<1> QED BY <1>1, <1>3, SubSeqFull

(* The first names of the first names of a path. *)
LEMMA AncestorOfAncestor ==
  ASSUME NEW p \in FilePaths, NEW k \in 0..Len(p), NEW j \in 0..k
  PROVE  Ancestor(Ancestor(p, k), j) = Ancestor(p, j)
  BY DEF Ancestor, FilePaths

(* All the names of a path, and none of them. *)
LEMMA WholePath ==
  ASSUME NEW p \in FilePaths
  PROVE  /\ Len(p) \in Nat /\ Ancestor(p, Len(p)) = p /\ Ancestor(p, 0) = << >>
         /\ Below(p, Len(p)) = << >> /\ p \o << >> = p
BY DEF Ancestor, Below, FilePaths

(* A path and the names after it. *)
LEMMA Joined ==
  ASSUME NEW s \in FilePaths, NEW t \in FilePaths
  PROVE  s \o t \in FilePaths /\ Len(s \o t) = Len(s) + Len(t)
  BY DEF FilePaths

(* The first names of a path that goes on. *)
LEMMA AncestorOfJoined ==
  ASSUME NEW s \in FilePaths, NEW t \in FilePaths, NEW k \in 0..Len(s)
  PROVE  Ancestor(s \o t, k) = Ancestor(s, k)
  BY DEF Ancestor, FilePaths

(* How a path is put together does not matter. *)
LEMMA JoinedTwice ==
  ASSUME NEW s \in FilePaths, NEW t \in FilePaths, NEW u \in FilePaths
  PROVE  (s \o t) \o u = s \o (t \o u)
  BY SMTT(20) DEF FilePaths

(* The other names of a path that goes on. *)
LEMMA BelowJoined ==
  ASSUME NEW s \in FilePaths, NEW t \in FilePaths, NEW k \in 0..Len(s)
  PROVE  Below(s \o t, k) = Below(s, k) \o t
<1> DEFINE a == Ancestor(s, k)
           u == Below(s \o t, k)
           v == Below(s, k) \o t
<1>1. s \o t \in FilePaths /\ Len(s \o t) = Len(s) + Len(t) /\ k \in 0..Len(s \o t)
  BY Joined DEF FilePaths
<1>2. a \in FilePaths /\ u \in FilePaths /\ v \in FilePaths /\ Below(s, k) \in FilePaths
  BY <1>1, Ancestors, Joined, Zenon
<1>3. a \o u = s \o t
  BY <1>1, AncestorOfJoined, SplitPath, Zenon
<1>4. a \o v = s \o t
  <2> DEFINE b == Below(s, k)
  <2>1. a \o b = s
    BY SplitPath
  <2> HIDE DEF a, b
  <2>2. a \in FilePaths /\ b \in FilePaths
    BY <1>2 DEF b
  <2>3. (a \o b) \o t = a \o (b \o t)
    BY <2>2, JoinedTwice
  <2> QED BY <2>1, <2>3 DEF b
<1> HIDE DEF a, u, v
<1>5. u = v
  BY <1>2, <1>3, <1>4, ConcatSimplifications, Zenon DEF FilePaths
<1> QED BY <1>5 DEF u, v

(* One name more. *)
LEMMA NextName ==
  ASSUME NEW p \in FilePaths, NEW k \in 1..Len(p)
  PROVE  Append(Ancestor(p, k - 1), p[k]) = Ancestor(p, k)
  BY DEF Ancestor, FilePaths


(***************************************************************************)
(* What the kernel does with a path: the directories, and then the links,  *)
(* one after another.                                                      *)
(***************************************************************************)

(* Following a path ends at the first of its names that is not a           *)
(* directory, or at the last one.                                          *)
LEMMA Reaches ==
  ASSUME NEW tree, NEW p \in FilePaths
  PROVE  /\ Reach(tree, p) \in 0..Len(p)
         /\ \A j \in 0..(Reach(tree, p) - 1) : Node(tree, Ancestor(p, j)) = Dir
         /\ Reach(tree, p) = Len(p) \/ ReachedNode(tree, p) # Dir
<1> DEFINE Stops(k) == k = Len(p) \/ Node(tree, Ancestor(p, k)) # Dir
           Goes(j) == Node(tree, Ancestor(p, j)) = Dir
           T == {k \in 0..Len(p) : Stops(k)}
<1>1. Len(p) \in Nat /\ T \in SUBSET Nat /\ Len(p) \in T
  BY DEF FilePaths
<1>2. PICK x \in T : \A y \in T : x <= y
  BY <1>1, LeastNatural, Zenon
<1>3. x \in 0..Len(p) /\ Stops(x)
  OBVIOUS
<1>4. \A j \in 0..(x - 1) : Goes(j)
  <2> SUFFICES ASSUME NEW j \in 0..(x - 1) PROVE Goes(j)
    OBVIOUS
  <2>1. j \in 0..Len(p) /\ ~(x <= j)
    BY <1>1, <1>3
  <2>2. j \notin T
    BY <1>2, <2>1, Zenon
  <2> QED BY <2>1, <2>2
<1>5. \E k \in 0..Len(p) :
        /\ \A j \in 0..(k - 1) : Node(tree, Ancestor(p, j)) = Dir
        /\ k = Len(p) \/ Node(tree, Ancestor(p, k)) # Dir
  BY <1>3, <1>4, Zenon
<1> QED BY <1>5, Zenon DEF Reach, ReachedNode

(* The first k names of a path lead through directories, and end there. *)
StopsAt(tree, p, k) ==
  /\ k \in 0..Len(p)
  /\ \A j \in 0..(k - 1) : Node(tree, Ancestor(p, j)) = Dir
  /\ k = Len(p) \/ Node(tree, Ancestor(p, k)) # Dir

(* There is only one such name. *)
LEMMA ReachIs ==
  ASSUME NEW tree, NEW p \in FilePaths, NEW k, StopsAt(tree, p, k)
  PROVE  Reach(tree, p) = k /\ ReachedNode(tree, p) = Node(tree, Ancestor(p, k))
<1> DEFINE r == Reach(tree, p)
<1>1. r \in 0..Len(p) /\ (\A j \in 0..(r - 1) : Node(tree, Ancestor(p, j)) = Dir)
      /\ (r = Len(p) \/ Node(tree, Ancestor(p, r)) # Dir)
  BY Reaches, Zenon DEF ReachedNode
<1> HIDE DEF r
<1>2. Len(p) \in Nat
  BY DEF FilePaths
<1>3. r = k
  BY <1>1, <1>2 DEF StopsAt
<1> QED BY <1>3 DEF r, ReachedNode

(* In a file system, a path is one of four things. *)
LEMMA Kinds ==
  ASSUME NEW tree, IsTree(tree), NEW p \in FilePaths
  PROVE  /\ Node(tree, p).kind \in {"dir", "file", "link", "missing"}
         /\ Node(tree, p).kind = "dir" <=> Node(tree, p) = Dir
         /\ Node(tree, p).kind = "missing" <=> Node(tree, p) = Missing
         /\ Node(tree, p).kind = "file" => Node(tree, p).length \in Nat
         /\ Node(tree, p).kind = "link" => Node(tree, p).to \in FilePaths
<1>1. Dir.kind = "dir" /\ Missing.kind = "missing"
  BY DEF Dir, Missing
<1>2. CASE Node(tree, p) = Dir
  BY <1>1, <1>2
<1>3. CASE Node(tree, p) = Missing
  BY <1>1, <1>3
<1>4. CASE p \in DOMAIN tree /\ Node(tree, p) = tree[p]
  <2>1. IsNode(Node(tree, p))
    BY <1>4 DEF IsTree
  <2> QED BY <1>1, <2>1 DEF IsNode
<1> QED BY <1>2, <1>3, <1>4 DEF Node

(* What exists is in a directory. *)
LEMMA AboveDirs ==
  ASSUME NEW tree, IsTree(tree), NEW p \in FilePaths, Node(tree, p) # Missing,
         NEW k \in 0..(Len(p) - 1)
  PROVE  Node(tree, Ancestor(p, k)) = Dir
<1>1. p # << >>
  BY DEF FilePaths
<1>2. p \in DOMAIN tree
  BY <1>1 DEF Node
<1> QED BY <1>2, Zenon DEF IsTree

(* So is the name that a path is followed to. *)
LEMMA ReachedKinds ==
  ASSUME NEW tree, IsTree(tree), NEW p \in FilePaths
  PROVE  /\ ReachedNode(tree, p).kind \in {"dir", "file", "link", "missing"}
         /\ ReachedNode(tree, p).kind = "dir" <=> ReachedNode(tree, p) = Dir
         /\ ReachedNode(tree, p).kind = "missing" <=> ReachedNode(tree, p) = Missing
         /\ ReachedNode(tree, p).kind = "file" => ReachedNode(tree, p).length \in Nat
         /\ ReachedNode(tree, p).kind = "link" => ReachedNode(tree, p).to \in FilePaths
<1>1. Ancestor(p, Reach(tree, p)) \in FilePaths
  BY Reaches, Ancestors, Zenon
<1> QED BY <1>1, Kinds, Zenon DEF ReachedNode

(* A link gives another path. *)
LEMMA RedirectIsPath ==
  ASSUME NEW tree, IsTree(tree), NEW p \in FilePaths
  PROVE  Redirect(tree, p) \in FilePaths
<1>1. Below(p, Reach(tree, p)) \in FilePaths
  BY Reaches, Ancestors, Zenon
<1> QED BY <1>1, ReachedKinds, Joined, Zenon DEF Redirect

(* r is what becomes of p, link after link. *)
FollowsLinks(tree, p, r) ==
  /\ r \in [0..MaxLinks -> FilePaths]
  /\ r[0] = p
  /\ \A n \in 1..MaxLinks : r[n] = Redirect(tree, r[n - 1])

(* Redirected is defined for every path: the recursion has a solution. *)
LEMMA RedirectedIs ==
  ASSUME NEW tree, IsTree(tree), NEW p \in FilePaths
  PROVE  FollowsLinks(tree, p, Redirected(tree, p))
<1> DEFINE N == MaxLinks
           G == [x \in (1..N) \X FilePaths |-> Redirect(tree, x[2])]
           Follows(f) == f = [n \in 0..N |-> IF n = 0 THEN p ELSE Redirect(tree, f[n - 1])]
<1>1. N \in Nat
  BY FileBounds
<1>2. G \in [(1..N) \X FilePaths -> FilePaths]
  BY RedirectIsPath
<1>3. \A n \in 1..N, q \in FilePaths : G[<<n, q>>] = Redirect(tree, q)
  OBVIOUS
<1> HIDE DEF N, G
<1>4. PICK f \in [0..N -> FilePaths] : Iterates(f, N, p, G)
  BY <1>1, <1>2, BoundedRecursion, Zenon
<1>5. \A n \in 0..N : f[n] = IF n = 0 THEN p ELSE Redirect(tree, f[n - 1])
  <2> SUFFICES ASSUME NEW n \in 0..N
               PROVE  f[n] = IF n = 0 THEN p ELSE Redirect(tree, f[n - 1])
    OBVIOUS
  <2>1. f[n] = IF n = 0 THEN p ELSE G[<<n, f[n - 1]>>]
    BY <1>4, Zenon DEF Iterates
  <2>2. n # 0 => n \in 1..N /\ n - 1 \in 0..N
    BY <1>1
  <2> QED BY <2>1, <2>2, <1>3, Zenon
<1>6. Follows(f)
  BY <1>5
<1>7. Redirected(tree, p) = CHOOSE g : Follows(g)
  BY Zenon DEF Redirected, N
<1> DEFINE r == Redirected(tree, p)
<1>8. Follows(r)
  <2> HIDE DEF Follows
  <2> QED BY <1>6, <1>7, Zenon
<1> HIDE DEF r
<1>9. r[0] = p /\ \A n \in 1..N : r[n] = Redirect(tree, r[n - 1])
  BY <1>1, <1>8
<1> DEFINE T == {n \in 0..N : r[n] \in FilePaths}
<1>10. 0 \in T
  BY <1>1, <1>9
<1>11. \A n \in 1..N : n - 1 \in T => n \in T
  BY <1>1, <1>9, RedirectIsPath
<1>12. \A n \in 0..N : n \in T
  <2> HIDE DEF T
  <2> QED BY <1>1, <1>10, <1>11, BoundedInduction, Zenon
<1>13. r \in [0..N -> FilePaths]
  BY <1>8, <1>12
<1> QED BY <1>9, <1>13, Zenon DEF r, N, FollowsLinks

(* Once a path leads to no link it stays. *)
LEMMA Settled ==
  ASSUME NEW tree, IsTree(tree), NEW p \in FilePaths, NEW m \in 0..MaxLinks,
         ReachedNode(tree, Redirected(tree, p)[m]).kind # "link"
  PROVE  Place(tree, p) = Redirected(tree, p)[m]
<1> DEFINE r == Redirected(tree, p)
           T == {n \in 0..MaxLinks : m <= n => r[n] = r[m]}
<1>1. MaxLinks \in Nat
  BY FileBounds
<1>2. \A n \in 1..MaxLinks : r[n] = Redirect(tree, r[n - 1])
  BY RedirectedIs, Zenon DEF FollowsLinks
<1>3. Redirect(tree, r[m]) = r[m]
  BY Zenon DEF Redirect
<1> HIDE DEF r
<1>4. 0 \in T
  BY <1>1
<1>5. ASSUME NEW n \in 1..MaxLinks, n - 1 \in T
      PROVE  n \in T
  <2>1. CASE m <= n - 1
    BY <1>1, <1>2, <1>3, <1>5, <2>1
  <2>2. CASE ~(m <= n - 1)
    BY <1>1, <2>2
  <2> QED BY <2>1, <2>2
<1>6. \A n \in 0..MaxLinks : n \in T
  <2> HIDE DEF T
  <2> QED BY <1>1, <1>4, <1>5, BoundedInduction, Zenon
<1>7. r[MaxLinks] = r[m]
  BY <1>1, <1>6
<1> QED BY <1>7 DEF r, Place

(* Where a path leads is a path. *)
LEMMA PlaceIsPath ==
  ASSUME NEW tree, IsTree(tree), NEW p \in FilePaths
  PROVE  Place(tree, p) \in FilePaths
  BY RedirectedIs, FileBounds DEF Place, FollowsLinks

(* What stops a path stops every path that goes on from it. *)
LEMMA ReachJoined ==
  ASSUME NEW tree, NEW s \in FilePaths, NEW t \in FilePaths,
         ReachedNode(tree, s) # Dir
  PROVE  /\ Reach(tree, s \o t) = Reach(tree, s)
         /\ ReachedNode(tree, s \o t) = ReachedNode(tree, s)
<1> DEFINE k == Reach(tree, s)
<1>1. k \in 0..Len(s) /\ Len(s) \in Nat /\ Len(t) \in Nat
  BY Reaches DEF FilePaths
<1>2. \A j \in 0..(k - 1) : Node(tree, Ancestor(s, j)) = Dir
  BY Reaches, Zenon
<1>3. Node(tree, Ancestor(s, k)) = ReachedNode(tree, s)
  BY DEF ReachedNode
<1> HIDE DEF k
<1>4. s \o t \in FilePaths /\ k \in 0..Len(s \o t)
  BY <1>1, Joined
<1>5. \A j \in 0..k : Ancestor(s \o t, j) = Ancestor(s, j)
  <2>1. \A j \in 0..k : j \in 0..Len(s)
    BY <1>1
  <2> QED BY <2>1, AncestorOfJoined, Zenon
<1>6. k \in 0..k /\ \A j \in 0..(k - 1) : j \in 0..k
  BY <1>1
<1>7. /\ \A j \in 0..(k - 1) : Node(tree, Ancestor(s \o t, j)) = Dir
      /\ Node(tree, Ancestor(s \o t, k)) = ReachedNode(tree, s)
  BY <1>2, <1>3, <1>5, <1>6, Zenon
<1>8. StopsAt(tree, s \o t, k)
  BY <1>4, <1>7, Zenon DEF StopsAt
<1> QED BY <1>4, <1>7, <1>8, ReachIs, Zenon DEF k

(* A link in the first names leaves the names after them as they are. *)
LEMMA RedirectJoined ==
  ASSUME NEW tree, IsTree(tree), NEW s \in FilePaths, NEW t \in FilePaths,
         ReachedNode(tree, s).kind = "link"
  PROVE  Redirect(tree, s \o t) = Redirect(tree, s) \o t
<1> DEFINE to == ReachedNode(tree, s).to
           b == Below(s, Reach(tree, s))
<1>1. to \in FilePaths /\ b \in FilePaths /\ Reach(tree, s) \in 0..Len(s)
  BY ReachedKinds, Reaches, Ancestors, Zenon
<1>2. ReachedNode(tree, s) # Dir
  BY ReachedKinds
<1>3. Redirect(tree, s) = to \o b
  BY Zenon DEF Redirect
<1>4. Below(s \o t, Reach(tree, s)) = b \o t
  BY <1>1, BelowJoined, Zenon
<1>5. Redirect(tree, s \o t) = to \o (b \o t)
  <2>1. /\ Reach(tree, s \o t) = Reach(tree, s)
        /\ ReachedNode(tree, s \o t) = ReachedNode(tree, s)
    BY <1>2, ReachJoined, Zenon
  <2> QED BY <1>4, <2>1, Zenon DEF Redirect
<1> HIDE DEF to, b
<1>6. (to \o b) \o t = to \o (b \o t)
  BY <1>1, JoinedTwice
<1> QED BY <1>3, <1>5, <1>6

(* While the first names lead to links, the others are carried along. *)
LEMMA CarriedAlong ==
  ASSUME NEW tree, IsTree(tree), NEW s \in FilePaths, NEW t \in FilePaths,
         NEW m \in 0..MaxLinks,
         \A n \in 0..(m - 1) : ReachedNode(tree, Redirected(tree, s)[n]).kind = "link"
  PROVE  Redirected(tree, s \o t)[m] = Redirected(tree, s)[m] \o t
<1> DEFINE a == Redirected(tree, s)
           b == Redirected(tree, s \o t)
           T == {n \in 0..m : b[n] = a[n] \o t}
<1>1. MaxLinks \in Nat /\ m \in Nat
  BY FileBounds
<1>2. s \o t \in FilePaths
  BY Joined
<1>3. FollowsLinks(tree, s, a) /\ FollowsLinks(tree, s \o t, b)
  BY <1>2, RedirectedIs, Zenon
<1>4. \A n \in 1..m : /\ a[n - 1] \in FilePaths
                      /\ a[n] = Redirect(tree, a[n - 1])
                      /\ b[n] = Redirect(tree, b[n - 1])
                      /\ ReachedNode(tree, a[n - 1]).kind = "link"
  <2> SUFFICES ASSUME NEW n \in 1..m
               PROVE  /\ a[n - 1] \in FilePaths
                      /\ a[n] = Redirect(tree, a[n - 1])
                      /\ b[n] = Redirect(tree, b[n - 1])
                      /\ ReachedNode(tree, a[n - 1]).kind = "link"
    OBVIOUS
  <2>1. n \in 1..MaxLinks /\ n - 1 \in 0..(m - 1) /\ n - 1 \in 0..MaxLinks
    BY <1>1
  <2> HIDE DEF a, b
  <2>2. a[n - 1] \in FilePaths
    BY <1>3, <2>1 DEF FollowsLinks
  <2> QED BY <1>3, <2>1, <2>2, Zenon DEF FollowsLinks, a
<1> HIDE DEF a, b
<1>5. 0 \in T
  <2>1. 0 \in 0..m
    BY <1>1
  <2> QED BY <1>3, <2>1, Zenon DEF FollowsLinks
<1>6. ASSUME NEW n \in 1..m, n - 1 \in T
      PROVE  n \in T
  <2>1. b[n] = Redirect(tree, a[n - 1] \o t)
    <3>1. b[n - 1] = a[n - 1] \o t
      BY <1>6, Zenon
    <3> QED BY <1>4, <3>1, Zenon
  <2>2. b[n] = a[n] \o t
    <3>1. /\ a[n - 1] \in FilePaths /\ ReachedNode(tree, a[n - 1]).kind = "link"
          /\ a[n] = Redirect(tree, a[n - 1])
      BY <1>4, Zenon
    <3>2. Redirect(tree, a[n - 1] \o t) = Redirect(tree, a[n - 1]) \o t
      BY <3>1, RedirectJoined, Zenon
    <3> QED BY <2>1, <3>1, <3>2, Zenon
  <2>3. n \in 0..m
    BY <1>1
  <2> QED BY <2>2, <2>3, Zenon
<1>7. \A n \in 0..m : n \in T
  <2> HIDE DEF T
  <2> QED BY <1>1, <1>5, <1>6, BoundedInduction, Zenon
<1>8. b[m] = a[m] \o t
  BY <1>1, <1>7
<1> QED BY <1>8 DEF a, b

(* A path whose links can be followed is reached in the end. *)
LEMMA PlaceJoined ==
  ASSUME NEW tree, IsTree(tree), NEW s \in FilePaths, NEW t \in FilePaths,
         ReachedNode(tree, Place(tree, s)).kind # "link"
  PROVE  \E m \in 0..MaxLinks :
           Redirected(tree, s \o t)[m] = Place(tree, s) \o t
<1> DEFINE a == Redirected(tree, s)
           Settles(n) == ReachedNode(tree, a[n]).kind # "link"
           T == {n \in 0..MaxLinks : Settles(n)}
<1>1. MaxLinks \in Nat
  BY FileBounds
<1>2. Settles(MaxLinks)
  BY DEF Place
<1> HIDE DEF Settles
<1>3. T \in SUBSET Nat /\ T # {}
  BY <1>1, <1>2
<1>4. PICK m \in T : \A n \in T : m <= n
  BY <1>3, LeastNatural, Zenon
<1>5. \A n \in 0..(m - 1) : ~Settles(n)
  BY <1>1, <1>4
<1>6. m \in 0..MaxLinks /\ Settles(m)
  OBVIOUS
<1>7. a[m] = Place(tree, s)
  BY <1>6, Settled, Zenon DEF Settles
<1>8. Redirected(tree, s \o t)[m] = a[m] \o t
  BY <1>5, <1>6, CarriedAlong, Zenon DEF Settles
<1> QED BY <1>6, <1>7, <1>8, Zenon

(* The links in the first names of a path that can be followed can be too. *)
LEMMA PrefixSettles ==
  ASSUME NEW tree, IsTree(tree), NEW s \in FilePaths, NEW t \in FilePaths,
         ReachedNode(tree, Place(tree, s \o t)).kind # "link"
  PROVE  ReachedNode(tree, Place(tree, s)).kind # "link"
<1> SUFFICES ASSUME ReachedNode(tree, Place(tree, s)).kind = "link"
             PROVE  FALSE
  OBVIOUS
<1> DEFINE a == Redirected(tree, s)
           u == Place(tree, s)
<1>1. MaxLinks \in Nat
  BY FileBounds
<1>2. u \in FilePaths /\ u = a[MaxLinks]
  BY PlaceIsPath DEF Place
<1>3. \A n \in 0..MaxLinks : ReachedNode(tree, a[n]).kind = "link"
  BY Settled, Zenon
<1>4. MaxLinks \in 0..MaxLinks /\ \A n \in 0..(MaxLinks - 1) : n \in 0..MaxLinks
  BY <1>1
<1>5. Place(tree, s \o t) = a[MaxLinks] \o t
  BY <1>3, <1>4, CarriedAlong, Zenon DEF Place
<1>6. ReachedNode(tree, u) # Dir
  BY <1>2, ReachedKinds
<1>7. ReachedNode(tree, u \o t) = ReachedNode(tree, u)
  BY <1>2, <1>6, ReachJoined, Zenon
<1> QED BY <1>2, <1>5, <1>7, Zenon

(* The fields of a result. *)
LEMMA ResultFields ==
  ASSUME NEW x
  PROVE  /\ Found(x).err = "none" /\ Found(x).path = x
         /\ Failure(x).err = x
  BY DEF Found, Failure

(* What exists is found, and what is found exists. *)
LEMMA LookupIs ==
  ASSUME NEW tree, IsTree(tree), NEW p \in FilePaths
  PROVE  /\ Lookup(tree, p).err \in {"none", "too many links", "not exist", "not a directory"}
         /\ Lookup(tree, p).err = "none" <=> Node(tree, p).kind \in {"dir", "file"}
         /\ Lookup(tree, p).err = "none" => /\ Lookup(tree, p) = Found(p)
                                            /\ Reach(tree, p) = Len(p)
                                            /\ ReachedNode(tree, p) = Node(tree, p)
<1> DEFINE k == Reach(tree, p)
           n == ReachedNode(tree, p)
<1>1. /\ k \in 0..Len(p) /\ Len(p) \in Nat
      /\ k = Len(p) \/ n # Dir
  BY Reaches DEF FilePaths
<1>2. k = Len(p) => n = Node(tree, p)
  BY WholePath DEF ReachedNode
<1>3. /\ n.kind \in {"dir", "file", "link", "missing"}
      /\ n.kind = "dir" <=> n = Dir
      /\ n.kind = "missing" <=> n = Missing
  BY ReachedKinds, Zenon
<1>4. Node(tree, p).kind \in {"dir", "file"} => k = Len(p)
  <2> SUFFICES ASSUME Node(tree, p).kind \in {"dir", "file"}
               PROVE  k = Len(p)
    OBVIOUS
  <2>1. Node(tree, p) # Missing
    BY Kinds
  <2>2. \A j \in 0..(Len(p) - 1) : Node(tree, Ancestor(p, j)) = Dir
    BY <2>1, AboveDirs, Zenon
  <2>3. Len(p) \in 0..Len(p)
    BY <1>1
  <2>4. StopsAt(tree, p, Len(p))
    BY <2>2, <2>3, Zenon DEF StopsAt
  <2> QED BY <2>4, ReachIs, Zenon
<1>5. Node(tree, p).kind \in {"dir", "file"} => n.kind = Node(tree, p).kind /\ k = Len(p)
  BY <1>2, <1>4, Zenon
<1> HIDE DEF k
<1>6. CASE n.kind = "link"
  <2>1. Lookup(tree, p) = Failure("too many links")
    BY <1>6 DEF Lookup
  <2>2. Lookup(tree, p).err = "too many links"
    BY <2>1, ResultFields, Zenon
  <2> QED BY <1>5, <1>6, <2>2
<1>7. CASE n.kind = "missing"
  <2>1. Lookup(tree, p) = Failure("not exist")
    BY <1>7 DEF Lookup
  <2>2. Lookup(tree, p).err = "not exist"
    BY <2>1, ResultFields, Zenon
  <2> QED BY <1>5, <1>7, <2>2
<1>8. CASE n.kind = "file" /\ k < Len(p)
  <2>1. Lookup(tree, p) = Failure("not a directory")
    BY <1>8 DEF Lookup, k
  <2>2. Lookup(tree, p).err = "not a directory"
    BY <2>1, ResultFields, Zenon
  <2>3. k # Len(p)
    BY <1>1, <1>8
  <2>4. Node(tree, p).kind \notin {"dir", "file"}
    BY <1>5, <2>3, Zenon
  <2> QED BY <2>2, <2>4
<1>9. CASE n.kind \in {"dir", "file"} /\ k = Len(p)
  <2>1. n.kind # "link" /\ n.kind # "missing" /\ ~(k < Len(p))
    BY <1>1, <1>9
  <2>2. Lookup(tree, p) = Found(p)
    BY <2>1 DEF Lookup, k
  <2>3. Lookup(tree, p).err = "none"
    BY <2>2, ResultFields, Zenon
  <2> QED BY <1>2, <1>9, <2>2, <2>3, Zenon DEF k
<1>10. k = Len(p) \/ k < Len(p)
  BY <1>1
<1> QED BY <1>1, <1>3, <1>6, <1>7, <1>8, <1>9, <1>10, Zenon

(* filepath.EvalSymlinks returns the place a path leads to, if that exists. *)
LEMMA EvalIs ==
  ASSUME NEW tree, IsTree(tree), NEW p \in FilePaths
  PROVE  /\ EvalSymlinks(tree, p).err
              \in {"none", "too many links", "not exist", "not a directory"}
         /\ Node(tree, Place(tree, p)).kind \in {"dir", "file"}
              => EvalSymlinks(tree, p).err = "none"
         /\ EvalSymlinks(tree, p).err = "none" =>
              /\ EvalSymlinks(tree, p) = Found(Place(tree, p))
              /\ Node(tree, Place(tree, p)).kind \in {"dir", "file"}
              /\ Reach(tree, Place(tree, p)) = Len(Place(tree, p))
              /\ ReachedNode(tree, Place(tree, p)) = Node(tree, Place(tree, p))
  BY PlaceIsPath, LookupIs, Zenon DEF EvalSymlinks

(* The first name after u in a path that goes on from it. *)
LEMMA NameAfter ==
  ASSUME NEW u \in FilePaths, NEW t \in FilePaths, t # << >>
  PROVE  /\ Len(u) + 1 \in 0..Len(u \o t)
         /\ Append(u, t[1]) = Ancestor(u \o t, Len(u) + 1)
         /\ Append(u, t[1]) \in FilePaths
<1>1. u \o t \in FilePaths /\ Len(u \o t) = Len(u) + Len(t) /\ Len(u) \in Nat
      /\ Len(t) \in Nat \ {0}
  BY Joined DEF FilePaths
<1>2. Len(u) + 1 \in 1..Len(u \o t) /\ Len(u) \in 0..Len(u)
  BY <1>1
<1>3. (u \o t)[Len(u) + 1] = t[1]
  BY <1>1 DEF FilePaths
<1>4. Ancestor(u \o t, Len(u)) = u
  BY <1>2, AncestorOfJoined, WholePath, Zenon
<1>5. Append(Ancestor(u \o t, (Len(u) + 1) - 1), (u \o t)[Len(u) + 1]) = Ancestor(u \o t, Len(u) + 1)
  BY <1>1, <1>2, NextName, Zenon
<1>6. (Len(u) + 1) - 1 = Len(u)
  BY <1>1
<1>7. Append(u, t[1]) = Ancestor(u \o t, Len(u) + 1)
  BY <1>3, <1>4, <1>5, <1>6, Zenon
<1>8. Len(u) + 1 \in 0..Len(u \o t)
  BY <1>1
<1> QED BY <1>1, <1>7, <1>8, Ancestors, Zenon

(* A path goes on from a directory to the next name in it. *)
LEMMA NextReached ==
  ASSUME NEW tree, IsTree(tree), NEW u \in FilePaths, NEW t \in FilePaths, t # << >>,
         Node(tree, u) = Dir, Node(tree, Append(u, t[1])) # Dir
  PROVE  ReachedNode(tree, u \o t) = Node(tree, Append(u, t[1]))
<1> DEFINE k == Len(u) + 1
           q == u \o t
<1>1. q \in FilePaths /\ k \in 0..Len(q)
  BY NameAfter, Joined, Zenon
<1>2. Append(u, t[1]) = Ancestor(q, k)
  BY NameAfter, Zenon
<1>3. \A j \in 0..(k - 1) : j \in 0..Len(u) /\ (j = Len(u) \/ j \in 0..(Len(u) - 1))
  BY DEF FilePaths
<1> HIDE DEF k
<1>4. Node(tree, u) # Missing
  BY DEF Dir, Missing
<1>5. \A j \in 0..(Len(u) - 1) : Node(tree, Ancestor(u, j)) = Dir
  BY <1>4, AboveDirs, Zenon
<1>6. \A j \in 0..(k - 1) : Node(tree, Ancestor(q, j)) = Dir
  <2> SUFFICES ASSUME NEW j \in 0..(k - 1)
               PROVE  Node(tree, Ancestor(q, j)) = Dir
    OBVIOUS
  <2>1. j \in 0..Len(u) /\ (j = Len(u) \/ j \in 0..(Len(u) - 1))
    BY <1>3, Zenon
  <2>2. Ancestor(q, j) = Ancestor(u, j)
    BY <2>1, AncestorOfJoined, Zenon
  <2>3. Ancestor(u, Len(u)) = u
    BY WholePath, Zenon
  <2> QED BY <1>5, <2>1, <2>2, <2>3, Zenon
<1>7. Node(tree, Ancestor(q, k)) # Dir
  BY <1>2, Zenon
<1>8. ReachedNode(tree, q) = Node(tree, Ancestor(q, k))
  <2> HIDE DEF q
  <2>1. StopsAt(tree, q, k)
    BY <1>1, <1>6, <1>7, Zenon DEF StopsAt
  <2> QED BY <1>1, <2>1, ReachIs, Zenon
<1> QED BY <1>8, <1>2, Zenon

(* The names after the first k, if there are any. *)
LEMMA LastName ==
  ASSUME NEW c \in FilePaths, NEW k \in 0..(Len(c) - 1)
  PROVE  /\ Below(c, k) \in FilePaths /\ Below(c, k) # << >>
         /\ Below(c, k)[1] = c[k + 1]
         /\ k \in 0..Len(c) /\ k + 1 \in 0..Len(c)
<1>1. k \in 0..Len(c) /\ Len(c) - k > 0 /\ k + 1 \in 0..Len(c)
  BY DEF FilePaths
<1>2. Below(c, k) \in FilePaths /\ Len(Below(c, k)) = Len(c) - k
  BY <1>1, Ancestors, Zenon
<1>3. Below(c, k) # << >>
  BY <1>1, <1>2
<1>4. Below(c, k)[1] = c[k + 1]
  BY <1>1 DEF Below, FilePaths
<1> QED BY <1>1, <1>2, <1>3, <1>4, Zenon

(* Lstat follows everything but the last name. *)
LEMMA LstatIs ==
  ASSUME NEW tree, IsTree(tree), NEW p \in FilePaths, p # << >>,
         NEW s, s = Ancestor(p, Len(p) - 1), NEW u, u = Place(tree, s)
  PROVE  /\ Lstat(tree, p).err \in {"none", "too many links", "not exist", "not a directory"}
         /\ Lstat(tree, p).err = "none" => Lstat(tree, p) = Found(p)
         /\ EvalSymlinks(tree, s).err = "none" =>
              /\ Lstat(tree, p).err = "not exist" =>
                   Node(tree, u) = Dir /\ Node(tree, Append(u, p[Len(p)])) = Missing
              /\ Node(tree, u) = Dir /\ Node(tree, Append(u, p[Len(p)])) # Missing =>
                   Lstat(tree, p) = Found(p)
<1> DEFINE e == EvalSymlinks(tree, s)
           d == Node(tree, u)
           n == Node(tree, Append(u, p[Len(p)]))
           l == Lstat(tree, p)
<1>1. s \in FilePaths
  <2>1. Len(p) - 1 \in 0..Len(p)
    BY DEF FilePaths
  <2> QED BY <2>1, Ancestors, Zenon
<1>2. /\ e.err \in {"none", "too many links", "not exist", "not a directory"}
      /\ e.err = "none" => e.path = u
  BY <1>1, EvalIs, ResultFields, Zenon
<1>3. l = IF e.err = "none"
          THEN IF Node(tree, e.path) # Dir THEN Failure("not a directory")
               ELSE IF Node(tree, Append(e.path, p[Len(p)])) = Missing
               THEN Failure("not exist") ELSE Found(p)
          ELSE e
  BY DEF Lstat, Then
<1>4. l = IF e.err = "none"
          THEN IF d # Dir THEN Failure("not a directory")
               ELSE IF n = Missing THEN Failure("not exist") ELSE Found(p)
          ELSE e
  BY <1>2, <1>3, Zenon
<1> HIDE DEF e, d, n, l
<1>5. CASE e.err # "none"
  BY <1>2, <1>4, <1>5, Zenon DEF e, d, n, l
<1>6. CASE e.err = "none" /\ d # Dir
  <2>1. l = Failure("not a directory") /\ l.err = "not a directory"
    BY <1>4, <1>6, ResultFields, Zenon
  <2>2. l.err # "not exist" /\ l.err # "none"
    BY <2>1
  <2> QED BY <1>6, <2>1, <2>2, Zenon DEF e, d, n, l
<1>7. CASE e.err = "none" /\ d = Dir /\ n = Missing
  <2>1. l = Failure("not exist") /\ l.err = "not exist"
    BY <1>4, <1>7, ResultFields, Zenon
  <2>2. l.err # "none"
    BY <2>1
  <2> QED BY <1>7, <2>1, <2>2, Zenon DEF e, d, n, l
<1>8. CASE e.err = "none" /\ d = Dir /\ n # Missing
  <2>1. l = Found(p) /\ l.err = "none"
    BY <1>4, <1>8, ResultFields, Zenon
  <2>2. l.err # "not exist"
    BY <2>1
  <2> QED BY <1>8, <2>1, <2>2, Zenon DEF e, d, n, l
<1> QED BY <1>5, <1>6, <1>7, <1>8, Zenon

(***************************************************************************)
(* What the code checks before it uses a path.                             *)
(***************************************************************************)

(* What can be resolved is there for Lstat. *)
LEMMA ResolvedIsThere ==
  ASSUME NEW tree, IsTree(tree), NEW c \in FilePaths,
         EvalSymlinks(tree, c).err = "none"
  PROVE  Lstat(tree, c) = Found(c)
<1>1. CASE c = << >>
  BY <1>1, Zenon DEF Lstat
<1>2. CASE c # << >>
  <2> DEFINE k == Len(c) - 1
             s == Ancestor(c, k)
             t == Below(c, k)
             u == Place(tree, s)
             w == u \o t
             r == Place(tree, c)
  <2>1. k \in 0..(Len(c) - 1) /\ k \in 0..Len(c) /\ k + 1 = Len(c)
    BY <1>2 DEF FilePaths
  <2>2. s \in FilePaths /\ t \in FilePaths /\ t # << >> /\ t[1] = c[Len(c)] /\ s \o t = c
    <3>1. s \in FilePaths /\ s \o t = c
      BY <2>1, Ancestors, SplitPath, Zenon
    <3>2. t \in FilePaths /\ t # << >> /\ t[1] = c[k + 1]
      BY <2>1, LastName, Zenon
    <3> QED BY <2>1, <3>1, <3>2, Zenon
  <2>3. /\ Node(tree, r).kind \in {"dir", "file"} /\ Reach(tree, r) = Len(r)
        /\ ReachedNode(tree, r) = Node(tree, r)
    BY EvalIs, Zenon
  <2>4. r \in FilePaths /\ u \in FilePaths
    BY <2>2, PlaceIsPath, Zenon
  <2>5. ReachedNode(tree, r).kind # "link"
    BY <2>3
  <2>6. ReachedNode(tree, u).kind # "link"
    BY <2>2, <2>5, PrefixSettles, Zenon
  <2>7. PICK m \in 0..MaxLinks : Redirected(tree, c)[m] = w
    BY <2>2, <2>6, PlaceJoined, Zenon
  <2>8. ReachedNode(tree, w).kind # "link" => r = w
    BY <2>7, Settled, Zenon
  <2> HIDE DEF k, s, t, u, w, r
  <2>9. w \in FilePaths /\ Len(w) = Len(u) + Len(t) /\ Len(u) \in Nat /\ Len(t) \in Nat \ {0}
    BY <2>2, <2>4, Joined DEF w, FilePaths
  <2>10. ReachedNode(tree, u) = Dir
    <3> SUFFICES ASSUME ReachedNode(tree, u) # Dir PROVE FALSE
      OBVIOUS
    <3>1. Reach(tree, w) = Reach(tree, u) /\ ReachedNode(tree, w) = ReachedNode(tree, u)
      BY <2>2, <2>4, ReachJoined, Zenon DEF w
    <3>2. Reach(tree, u) \in 0..Len(u)
      BY <2>4, Reaches, Zenon
    <3>3. r = w
      BY <2>6, <2>8, <3>1, Zenon
    <3> QED BY <2>3, <2>9, <3>1, <3>2, <3>3
  <2>11. Node(tree, u) = Dir
    BY <2>4, <2>10, Reaches, WholePath, Zenon DEF ReachedNode
  <2>12. Node(tree, Append(u, t[1])) # Missing
    <3> SUFFICES ASSUME Node(tree, Append(u, t[1])) = Missing PROVE FALSE
      OBVIOUS
    <3>1. Missing # Dir /\ Missing.kind = "missing"
      BY DEF Missing, Dir
    <3>2. ReachedNode(tree, w) = Missing
      BY <2>2, <2>4, <2>11, <3>1, NextReached, Zenon DEF w
    <3> QED BY <2>3, <2>8, <3>1, <3>2
  <2>13. EvalSymlinks(tree, s).err = "none"
    <3>1. Node(tree, u).kind \in {"dir", "file"}
      BY <2>11 DEF Dir
    <3> QED BY <2>2, <3>1, EvalIs, Zenon DEF u
  <2>14. s = Ancestor(c, Len(c) - 1) /\ u = Place(tree, s)
    BY Zenon DEF s, u, k
  <2> QED BY <1>2, <2>2, <2>11, <2>12, <2>13, <2>14, LstatIs, Zenon
<1> QED BY <1>1, <1>2

(* The search for an ancestor that exists ends, at the latest at the top. *)
LEMMA DeepestIs ==
  ASSUME NEW tree, NEW c \in FilePaths
  PROVE  /\ Deepest(tree, c) \in 0..Len(c)
         /\ Lstat(tree, Ancestor(c, Deepest(tree, c))).err # "not exist"
         /\ \A j \in (Deepest(tree, c) + 1)..Len(c) :
              Lstat(tree, Ancestor(c, j)).err = "not exist"
<1> DEFINE Gone(j) == Lstat(tree, Ancestor(c, j)).err = "not exist"
           T == {n \in 0..Len(c) : ~Gone(Len(c) - n)}
<1>1. Len(c) \in Nat
  BY DEF FilePaths
<1>2. ~Gone(0)
  BY WholePath, ResultFields DEF Lstat
<1> HIDE DEF Gone
<1>3. T \in SUBSET Nat /\ Len(c) \in T
  BY <1>1, <1>2
<1>4. PICK x \in T : \A y \in T : x <= y
  BY <1>3, LeastNatural, Zenon
<1>5. Len(c) - x \in 0..Len(c) /\ ~Gone(Len(c) - x)
  BY <1>1
<1>6. \A j \in (Len(c) - x + 1)..Len(c) : Gone(j)
  <2> SUFFICES ASSUME NEW j \in (Len(c) - x + 1)..Len(c), ~Gone(j) PROVE FALSE
    OBVIOUS
  <2>1. Len(c) - j \in 0..Len(c) /\ ~(x <= Len(c) - j) /\ Len(c) - (Len(c) - j) = j
    BY <1>1, <1>5
  <2>2. Len(c) - j \in T
    BY <2>1
  <2> QED BY <1>4, <2>1, <2>2, Zenon
<1>7. \E k \in 0..Len(c) :
        /\ Lstat(tree, Ancestor(c, k)).err # "not exist"
        /\ \A j \in (k + 1)..Len(c) : Lstat(tree, Ancestor(c, j)).err = "not exist"
  BY <1>5, <1>6, Zenon DEF Gone
<1> QED BY <1>7, Zenon DEF Deepest

(* Some of the names of place exist, and none of the others. *)
Opens(tree, place) ==
  \E u, t \in FilePaths :
    /\ place = u \o t /\ t # << >>
    /\ Node(tree, u) = Dir /\ Node(tree, Append(u, t[1])) = Missing

(* Such a place is not reached. *)
LEMMA OpensIs ==
  ASSUME NEW tree, IsTree(tree), NEW place \in FilePaths, Opens(tree, place)
  PROVE  ReachedNode(tree, place).kind = "missing"
<1>1. PICK u \in FilePaths, t \in FilePaths :
        /\ place = u \o t /\ t # << >>
        /\ Node(tree, u) = Dir /\ Node(tree, Append(u, t[1])) = Missing
  BY Zenon DEF Opens
<1>2. Missing # Dir /\ Missing.kind = "missing"
  BY DEF Missing, Dir
<1> QED BY <1>1, <1>2, NextReached, Zenon

(* evalWithinRoot (executor.go) finds the place a path leads to, although *)
(* it resolves only what exists and appends the names after it.           *)
LEMMA EvalWithinRootIs ==
  ASSUME NEW tree, IsTree(tree), NEW c \in FilePaths
  PROVE  /\ EvalWithinRoot(tree, c).err # "permission"
         /\ EvalWithinRoot(tree, c).err = "none" =>
              /\ EvalWithinRoot(tree, c) = Found(Place(tree, c))
              /\ \/ Node(tree, Place(tree, c)).kind \in {"dir", "file"}
                 \/ Opens(tree, Place(tree, c))
<1> DEFINE k == Deepest(tree, c)
           s == Ancestor(c, k)
           t == Below(c, k)
           l == Lstat(tree, s)
           e == EvalSymlinks(tree, s)
           u == Place(tree, s)
           x == EvalWithinRoot(tree, c)
<1>1. k \in 0..Len(c) /\ \A j \in (k + 1)..Len(c) : Lstat(tree, Ancestor(c, j)).err = "not exist"
  BY DeepestIs, Zenon
<1>2. s \in FilePaths /\ t \in FilePaths /\ s \o t = c /\ Len(s) = k
  BY <1>1, Ancestors, SplitPath, Zenon
<1>3. l.err # "permission" /\ (l.err = "none" => l.path = s)
  <2>1. CASE s = << >>
    <3>1. l = Found(s)
      BY <2>1, Zenon DEF Lstat
    <3> QED BY <3>1, ResultFields
  <2>2. CASE s # << >>
    <3>1. /\ l.err \in {"none", "too many links", "not exist", "not a directory"}
          /\ l.err = "none" => l = Found(s)
      BY <1>2, <2>2, LstatIs, Zenon
    <3> QED BY <3>1, ResultFields
  <2> QED BY <2>1, <2>2
<1>4. e.err # "permission" /\ (e.err = "none" => e.path = u /\ Node(tree, u).kind \in {"dir", "file"}
                                 /\ ReachedNode(tree, u) = Node(tree, u))
  <2>1. /\ e.err \in {"none", "too many links", "not exist", "not a directory"}
        /\ e.err = "none" => e = Found(u) /\ Node(tree, u).kind \in {"dir", "file"}
                             /\ ReachedNode(tree, u) = Node(tree, u)
    BY <1>2, EvalIs, Zenon
  <2> QED BY <2>1, ResultFields
<1>5. x = IF l.err = "none"
          THEN IF EvalSymlinks(tree, l.path).err = "none"
               THEN Found(EvalSymlinks(tree, l.path).path \o t) ELSE EvalSymlinks(tree, l.path)
          ELSE l
  BY DEF EvalWithinRoot, Then
<1>6. CASE l.err # "none"
  <2>1. x = l
    BY <1>5, <1>6, Zenon
  <2> QED BY <1>3, <1>6, <2>1, Zenon
<1>7. CASE l.err = "none" /\ e.err # "none"
  <2>1. x = e
    BY <1>3, <1>5, <1>7, Zenon
  <2> QED BY <1>4, <1>7, <2>1, Zenon
<1>8. CASE l.err = "none" /\ e.err = "none"
  <2>1. x = Found(u \o t)
    BY <1>3, <1>4, <1>5, <1>8, Zenon
  <2>2. x.err = "none" /\ x.err # "permission"
    BY <2>1, ResultFields
  <2>3. Node(tree, u).kind \in {"dir", "file"} /\ ReachedNode(tree, u).kind # "link"
    BY <1>4, <1>8
  <2>4. u \in FilePaths
    BY <1>2, PlaceIsPath, Zenon
  <2>5. CASE t = << >>
    <3>1. s = c /\ u \o t = u
      BY <1>2, <2>4, <2>5, WholePath, Zenon
    <3> QED BY <2>1, <2>2, <2>3, <3>1, Zenon
  <2>6. CASE t # << >>
    <3> HIDE DEF l, e, x
    <3>1. k \in 0..(Len(c) - 1)
      <4>1. k # Len(c)
        BY <2>6, WholePath, Zenon
      <4>2. Len(c) \in Nat /\ k \in 0..Len(c)
        BY <1>1, WholePath, Zenon
      <4> HIDE DEF k
      <4> QED BY <4>1, <4>2
    <3>2. k + 1 \in (k + 1)..Len(c) /\ k + 1 \in 0..Len(c) /\ k \in 0..(k + 1) /\ (k + 1) - 1 = k
      BY <3>1 DEF FilePaths
    <3> DEFINE p == Ancestor(c, k + 1)
    <3>3. p \in FilePaths /\ Len(p) = k + 1 /\ p # << >>
      BY <3>1, <3>2, Ancestors DEF FilePaths
    <3>4. Ancestor(p, Len(p) - 1) = s
      BY <3>2, <3>3, AncestorOfAncestor, Zenon
    <3>5. p[Len(p)] = t[1]
      <4>1. p[k + 1] = c[k + 1]
        BY <3>1 DEF FilePaths, Ancestor
      <4> QED BY <3>1, <3>3, <4>1, LastName, Zenon
    <3>6. Lstat(tree, p).err = "not exist"
      BY <1>1, <3>2, Zenon
    <3>7. Node(tree, u) = Dir /\ Node(tree, Append(u, t[1])) = Missing
      BY <1>8, <3>3, <3>4, <3>5, <3>6, LstatIs, Zenon DEF e
    <3>8. Opens(tree, u \o t)
      BY <1>2, <2>4, <2>6, <3>7, Zenon DEF Opens
    <3>9. u \o t \in FilePaths
      BY <1>2, <2>4, Joined, Zenon
    <3>10. ReachedNode(tree, u \o t).kind # "link"
      BY <3>8, <3>9, OpensIs
    <3>11. PICK m \in 0..MaxLinks : Redirected(tree, c)[m] = u \o t
      BY <1>2, <2>3, PlaceJoined, Zenon
    <3>12. Place(tree, c) = u \o t
      BY <3>10, <3>11, Settled, Zenon
    <3> QED BY <2>1, <2>2, <3>8, <3>12, Zenon DEF x
  <2> QED BY <2>5, <2>6
<1> QED BY <1>6, <1>7, <1>8, Zenon

(* If the place exists, evalWithinRoot returns it. *)
LEMMA EvalWithinRootOfResolved ==
  ASSUME NEW tree, IsTree(tree), NEW c \in FilePaths,
         EvalSymlinks(tree, c).err = "none"
  PROVE  EvalWithinRoot(tree, c) = Found(Place(tree, c))
<1> DEFINE k == Deepest(tree, c)
           p == Place(tree, c)
<1>1. Lstat(tree, c) = Found(c) /\ Found(c).err = "none" /\ Found(c).path = c
  BY ResolvedIsThere, ResultFields, Zenon
<1>2. EvalSymlinks(tree, c) = Found(p) /\ Found(p).err = "none" /\ Found(p).path = p
  BY EvalIs, ResultFields, Zenon
<1>3. k = Len(c)
  <2>1. Len(c) \in Nat /\ Ancestor(c, Len(c)) = c /\ Lstat(tree, c).err # "not exist"
    BY <1>1, WholePath
  <2>2. k \in 0..Len(c) /\ Len(c) \notin (k + 1)..Len(c)
    BY <2>1, DeepestIs, Zenon
  <2>3. Len(c) \in Nat
    BY <2>1
  <2> HIDE DEF k
  <2> QED BY <2>2, <2>3
<1>4. Ancestor(c, k) = c /\ Below(c, k) = << >> /\ p \o << >> = p
  BY <1>3, PlaceIsPath, WholePath, Zenon
<1>5. EvalWithinRoot(tree, c)
        = IF Lstat(tree, Ancestor(c, k)).err = "none"
          THEN IF EvalSymlinks(tree, Lstat(tree, Ancestor(c, k)).path).err = "none"
               THEN Found(EvalSymlinks(tree, Lstat(tree, Ancestor(c, k)).path).path \o Below(c, k))
               ELSE EvalSymlinks(tree, Lstat(tree, Ancestor(c, k)).path)
          ELSE Lstat(tree, Ancestor(c, k))
  BY DEF EvalWithinRoot, Then
<1> HIDE DEF k
<1> QED BY <1>1, <1>2, <1>4, <1>5, Zenon

(* filepath.Join and Clean return a path. *)
LEMMA CleanedIsPath ==
  ASSUME NEW path \in FilePaths
  PROVE  Cleaned(path) \in FilePaths
<1> DEFINE N == Len(path)
           After(n, p) == IF path[n] # ".." THEN Append(p, path[n])
                         ELSE IF p = << >> THEN << >> ELSE Ancestor(p, Len(p) - 1)
           G == [x \in (1..N) \X FilePaths |-> After(x[1], x[2])]
           Follows(f) == f = [n \in 0..N |-> IF n = 0 THEN Root ELSE After(n, f[n - 1])]
<1>1. N \in Nat /\ \A n \in 1..N : path[n] \in STRING
  BY DEF FilePaths
<1>2. \A n \in 1..N, p \in FilePaths : After(n, p) \in FilePaths
  <2> SUFFICES ASSUME NEW n \in 1..N, NEW p \in FilePaths PROVE After(n, p) \in FilePaths
    OBVIOUS
  <2>1. Append(p, path[n]) \in FilePaths /\ << >> \in FilePaths
    BY <1>1 DEF FilePaths
  <2>2. p # << >> => Len(p) - 1 \in 0..Len(p)
    BY DEF FilePaths
  <2>3. p # << >> => Ancestor(p, Len(p) - 1) \in FilePaths
    BY <2>2, Ancestors, Zenon
  <2> QED BY <2>1, <2>3, Zenon
<1> HIDE DEF After
<1>3. G \in [(1..N) \X FilePaths -> FilePaths]
  BY <1>2
<1>4. \A n \in 1..N, q \in FilePaths : G[<<n, q>>] = After(n, q)
  OBVIOUS
<1> HIDE DEF G, N
<1>5. PICK f \in [0..N -> FilePaths] : Iterates(f, N, Root, G)
  BY <1>1, <1>3, PathsAreSequences, BoundedRecursion, Zenon
<1>6. \A n \in 0..N : f[n] = IF n = 0 THEN Root ELSE After(n, f[n - 1])
  <2> SUFFICES ASSUME NEW n \in 0..N
               PROVE  f[n] = IF n = 0 THEN Root ELSE After(n, f[n - 1])
    OBVIOUS
  <2>1. f[n] = IF n = 0 THEN Root ELSE G[<<n, f[n - 1]>>]
    BY <1>5, Zenon DEF Iterates
  <2>2. n # 0 => n \in 1..N /\ n - 1 \in 0..N
    BY <1>1
  <2> QED BY <2>1, <2>2, <1>4, Zenon
<1>7. Follows(f)
  BY <1>6
<1>8. Cleaned(path) = (CHOOSE g : Follows(g))[N]
  BY Zenon DEF Cleaned, N, After
<1> DEFINE r == CHOOSE g : Follows(g)
<1>9. Follows(r)
  <2> HIDE DEF Follows
  <2> QED BY <1>7, Zenon
<1> HIDE DEF r
<1>10. r[0] = Root /\ \A n \in 1..N : r[n] = After(n, r[n - 1])
  <2>1. \A n \in 0..N : r[n] = IF n = 0 THEN Root ELSE After(n, r[n - 1])
    BY <1>9, Zenon
  <2>2. 0 \in 0..N /\ \A n \in 1..N : n \in 0..N /\ n # 0
    BY <1>1
  <2> QED BY <2>1, <2>2, Zenon
<1> DEFINE T == {n \in 0..N : r[n] \in FilePaths}
<1>11. 0 \in T
  BY <1>1, <1>10, PathsAreSequences
<1>12. \A n \in 1..N : n - 1 \in T => n \in T
  BY <1>1, <1>2, <1>10
<1>13. \A n \in 0..N : n \in T
  <2> HIDE DEF T
  <2> QED BY <1>1, <1>11, <1>12, BoundedInduction, Zenon
<1>14. r[N] \in FilePaths
  BY <1>1, <1>13
<1> QED BY <1>8, <1>14, Zenon DEF r

(* safePath (executor.go) lets a path through if both the path and the     *)
(* place it leads to are within the root, and refuses no other.            *)
LEMMA SafePathIs ==
  ASSUME NEW tree, IsTree(tree), NEW path \in FilePaths,
         NEW c, c = Cleaned(path), NEW p, p = Place(tree, c)
  PROVE  /\ c \in FilePaths
         /\ SafePath(tree, path).err = "permission" => ~WithinRoot(c) \/ ~WithinRoot(p)
         /\ SafePath(tree, path).err = "none" =>
              /\ SafePath(tree, path) = Found(c)
              /\ path # << >> /\ WithinRoot(c) /\ WithinRoot(p)
              /\ Node(tree, p).kind \in {"dir", "file"} \/ Opens(tree, p)
         /\ path # << >> /\ WithinRoot(c) /\ WithinRoot(p)
            /\ EvalWithinRoot(tree, c) = Found(p)
              => SafePath(tree, path) = Found(c)
<1> DEFINE x == EvalWithinRoot(tree, c)
           y == SafePath(tree, path)
<1>1. c \in FilePaths
  BY CleanedIsPath, Zenon
<1>2. /\ x.err # "permission"
      /\ x.err = "none" => /\ x = Found(p)
                           /\ Node(tree, p).kind \in {"dir", "file"} \/ Opens(tree, p)
  BY <1>1, EvalWithinRootIs, Zenon
<1>3. Found(p).err = "none" /\ Found(p).path = p /\ Found(c).err = "none"
      /\ Failure("invalid").err = "invalid" /\ Failure("permission").err = "permission"
  BY ResultFields, Zenon
<1>4. y = IF path = << >> THEN Failure("invalid")
          ELSE IF ~WithinRoot(c) THEN Failure("permission")
          ELSE IF x.err = "none"
               THEN IF WithinRoot(x.path) THEN Found(c) ELSE Failure("permission")
               ELSE x
  BY DEF SafePath, Then
<1> HIDE DEF x, y
<1>5. CASE path = << >>
  <2>1. y.err = "invalid"
    BY <1>3, <1>4, <1>5, Zenon
  <2>2. y.err # "permission" /\ y.err # "none"
    BY <2>1
  <2> QED BY <1>1, <1>5, <2>2, Zenon DEF y
<1>6. CASE path # << >> /\ ~WithinRoot(c)
  <2>1. y.err = "permission"
    BY <1>3, <1>4, <1>6, Zenon
  <2>2. y.err # "none"
    BY <2>1
  <2> QED BY <1>1, <1>6, <2>2, Zenon DEF y
<1>7. CASE path # << >> /\ WithinRoot(c) /\ x.err # "none"
  <2>1. y = x
    BY <1>4, <1>7, Zenon
  <2> QED BY <1>1, <1>2, <1>3, <1>7, <2>1, Zenon DEF x, y
<1>8. CASE path # << >> /\ WithinRoot(c) /\ x.err = "none" /\ ~WithinRoot(p)
  <2>1. y.err = "permission"
    BY <1>2, <1>3, <1>4, <1>8, Zenon
  <2>2. y.err # "none"
    BY <2>1
  <2> QED BY <1>1, <1>8, <2>2, Zenon DEF y
<1>9. CASE path # << >> /\ WithinRoot(c) /\ x.err = "none" /\ WithinRoot(p)
  <2>1. y = Found(c) /\ y.err = "none"
    BY <1>2, <1>3, <1>4, <1>9, Zenon
  <2>2. y.err # "permission"
    BY <2>1
  <2> QED BY <1>1, <1>2, <1>9, <2>1, <2>2, Zenon DEF y
<1> QED BY <1>5, <1>6, <1>7, <1>8, <1>9, Zenon

(***************************************************************************)
(* What a write makes of a file system.                                    *)
(***************************************************************************)

(* A place where a file can be written: a file, or names that are free. *)
Writable(tree, place) == Node(tree, place).kind = "file" \/ Opens(tree, place)

(* The names of such a place are directories, and then missing. *)
LEMMA OpensAbove ==
  ASSUME NEW tree, IsTree(tree), NEW place \in FilePaths, Opens(tree, place)
  PROVE  /\ \A k \in 0..Len(place) : Node(tree, Ancestor(place, k)) \in {Dir, Missing}
         /\ Node(tree, place) = Missing
<1>1. PICK u \in FilePaths, t \in FilePaths :
        /\ place = u \o t /\ t # << >>
        /\ Node(tree, u) = Dir /\ Node(tree, Append(u, t[1])) = Missing
  BY Zenon DEF Opens
<1> DEFINE m == Len(u) + 1
           a == Append(u, t[1])
<1>2. Missing # Dir /\ Len(u) \in Nat /\ Len(place) \in Nat /\ Ancestor(place, Len(place)) = place
  BY WholePath DEF Missing, Dir
<1>3. m \in 0..Len(place) /\ Ancestor(place, m) = a
  BY <1>1, NameAfter, Zenon
<1>4. \A k \in 0..Len(u) : Node(tree, Ancestor(place, k)) = Dir
  <2> SUFFICES ASSUME NEW k \in 0..Len(u) PROVE Node(tree, Ancestor(place, k)) = Dir
    OBVIOUS
  <2>1. Ancestor(place, k) = Ancestor(u, k)
    BY <1>1, AncestorOfJoined, Zenon
  <2>2. k = Len(u) \/ k \in 0..(Len(u) - 1)
    BY <1>2
  <2>3. Ancestor(u, Len(u)) = u
    BY WholePath, Zenon
  <2> QED BY <1>1, <1>2, <2>1, <2>2, <2>3, AboveDirs, Zenon
<1>5. \A k \in m..Len(place) : Node(tree, Ancestor(place, k)) = Missing
  <2> SUFFICES ASSUME NEW k \in m..Len(place), Node(tree, Ancestor(place, k)) # Missing
               PROVE  FALSE
    OBVIOUS
  <2>1. k \in 0..Len(place) /\ m \in 0..k
    BY <1>2
  <2>2. /\ Ancestor(place, k) \in FilePaths /\ Len(Ancestor(place, k)) = k
        /\ Ancestor(Ancestor(place, k), m) = a
    BY <1>3, <2>1, Ancestors, AncestorOfAncestor, Zenon
  <2>3. k = m \/ m \in 0..(k - 1)
    BY <1>2, <2>1
  <2>4. m \in 0..(k - 1) => Node(tree, a) = Dir
    BY <2>2, AboveDirs, Zenon
  <2> QED BY <1>1, <1>2, <1>3, <2>3, <2>4, Zenon
<1>6. \A k \in 0..Len(place) : k \in 0..Len(u) \/ k \in m..Len(place)
  BY <1>2
<1>7. Len(place) \in m..Len(place)
  BY <1>2, <1>3
<1> QED BY <1>2, <1>4, <1>5, <1>6, <1>7, Zenon

(* No name above a place where a file can be written is a file or a link. *)
LEMMA WritableIs ==
  ASSUME NEW tree, IsTree(tree), NEW place \in FilePaths, Writable(tree, place)
  PROVE  /\ \A k \in 0..(Len(place) - 1) : Node(tree, Ancestor(place, k)) \in {Dir, Missing}
         /\ Node(tree, place).kind \in {"file", "missing"}
         /\ Node(tree, place) # Dir /\ place # << >>
         /\ ReachedNode(tree, place).kind # "link"
<1>1. CASE Node(tree, place).kind = "file"
  <2>1. Lookup(tree, place).err = "none"
    BY <1>1, LookupIs
  <2>2. ReachedNode(tree, place).kind = "file"
    BY <1>1, <2>1, LookupIs, Zenon
  <2>3. Node(tree, place) # Missing /\ Node(tree, place) # Dir
    BY <1>1, Kinds
  <2>4. place # << >>
    BY <2>3 DEF Node
  <2>5. \A k \in 0..(Len(place) - 1) : Node(tree, Ancestor(place, k)) = Dir
    BY <2>3, AboveDirs, Zenon
  <2> QED BY <1>1, <2>2, <2>3, <2>4, <2>5
<1>2. CASE Opens(tree, place)
  <2>1. Node(tree, place) = Missing /\ Missing.kind = "missing" /\ Missing # Dir
    BY <1>2, OpensAbove DEF Missing, Dir
  <2>2. place # << >>
    BY <2>1 DEF Node
  <2>3. \A k \in 0..(Len(place) - 1) : k \in 0..Len(place)
    BY DEF FilePaths
  <2>4. \A k \in 0..(Len(place) - 1) : Node(tree, Ancestor(place, k)) \in {Dir, Missing}
    BY <1>2, <2>3, OpensAbove, Zenon
  <2>5. ReachedNode(tree, place).kind # "link"
    BY <1>2, OpensIs
  <2> QED BY <2>1, <2>2, <2>4, <2>5
<1> QED BY <1>1, <1>2 DEF Writable

(* The new tree is the old one with a file and the directories above it. *)
AddsFile(tree, new, place, length) ==
  /\ DOMAIN new = DOMAIN tree \cup Parents(place) \cup {place}
  /\ Node(new, place) = File(length)
  /\ \A k \in 0..(Len(place) - 1) : Node(new, Ancestor(place, k)) = Dir
  /\ \A q \in FilePaths : q # place /\ Node(tree, q) # Missing
                            => Node(new, q) = Node(tree, q)
  /\ \A q \in DOMAIN tree : q # place => new[q] = tree[q]

(* MkdirAll and WriteFile make such a tree. *)
LEMMA StoredIs ==
  ASSUME NEW tree, IsTree(tree), NEW place \in FilePaths, Writable(tree, place),
         NEW length \in Nat, NEW new, new = Stored(tree, place, length)
  PROVE  AddsFile(tree, new, place, length)
<1> DEFINE D == DOMAIN tree \cup Parents(place) \cup {place}
<1>1. DOMAIN new = D
  BY DEF Stored
<1>2. \A q \in D : new[q] = IF q = place THEN File(length)
                            ELSE IF q \in DOMAIN tree THEN tree[q] ELSE Dir
  BY DEF Stored
<1>3. place # << >>
  BY WritableIs, Zenon
<1>4. Node(new, place) = File(length)
  BY <1>1, <1>2, <1>3, Zenon DEF Node
<1>5. \A q \in DOMAIN tree : q # place => new[q] = tree[q]
  BY <1>2, Zenon
<1>6. \A q \in FilePaths : q # place /\ Node(tree, q) # Missing => Node(new, q) = Node(tree, q)
  BY <1>1, <1>5, Zenon DEF Node
<1>7. \A k \in 0..(Len(place) - 1) : Node(new, Ancestor(place, k)) = Dir
  <2> SUFFICES ASSUME NEW k \in 0..(Len(place) - 1)
               PROVE  Node(new, Ancestor(place, k)) = Dir
    OBVIOUS
  <2> DEFINE q == Ancestor(place, k)
  <2>1. k \in 0..Len(place) /\ k # Len(place)
    BY DEF FilePaths
  <2>2. q \in FilePaths /\ q # place
    BY <2>1, Ancestors, Zenon
  <2>3. Node(tree, q) \in {Dir, Missing}
    BY WritableIs, Zenon
  <2>4. q # << >> => q \in Parents(place)
    <3>1. k # 0 => k \in 1..(Len(place) - 1)
      OBVIOUS
    <3> QED BY <3>1, WholePath, Zenon DEF Parents
  <2>5. q \in DOMAIN tree => Node(tree, q) # Missing
    <3> SUFFICES ASSUME q \in DOMAIN tree, Node(tree, q) = Missing PROVE FALSE
      OBVIOUS
    <3>1. IsNode(Missing)
      BY <2>2 DEF IsTree, Node
    <3> QED BY <3>1 DEF IsNode, Missing
  <2> HIDE DEF q
  <2>6. CASE Node(tree, q) = Dir
    <3>1. Node(tree, q) # Missing
      BY <2>6 DEF Dir, Missing
    <3> QED BY <1>6, <2>2, <2>6, <3>1, Zenon DEF q
  <2>7. CASE Node(tree, q) = Missing
    <3>1. q # << >> /\ q \notin DOMAIN tree
      BY <2>5, <2>7 DEF Node, Missing, Dir
    <3> QED BY <1>1, <1>2, <2>2, <2>4, <3>1, Zenon DEF Node, q
  <2> QED BY <2>3, <2>6, <2>7, Zenon
<1> QED BY <1>1, <1>4, <1>5, <1>6, <1>7, Zenon DEF AddsFile

(* It is a file system again. *)
LEMMA StoredIsTree ==
  ASSUME NEW tree, IsTree(tree), NEW place \in FilePaths, Writable(tree, place),
         NEW length \in Nat, NEW new, new = Stored(tree, place, length)
  PROVE  IsTree(new)
<1>1. /\ DOMAIN new = DOMAIN tree \cup Parents(place) \cup {place}
      /\ Node(new, place) = File(length)
      /\ \A k \in 0..(Len(place) - 1) : Node(new, Ancestor(place, k)) = Dir
      /\ \A q \in FilePaths : q # place /\ Node(tree, q) # Missing
                                => Node(new, q) = Node(tree, q)
      /\ \A q \in DOMAIN tree : q # place => new[q] = tree[q]
  <2>1. AddsFile(tree, new, place, length)
    BY StoredIs, Zenon
  <2> QED BY <2>1, Zenon DEF AddsFile
<1>2. place # << >> /\ Node(tree, place) # Dir /\ Dir # Missing
  BY WritableIs DEF Dir, Missing
<1>3. \A q \in FilePaths : Node(tree, q) = Dir => Node(new, q) = Dir
  BY <1>1, <1>2, Zenon
<1>4. \A k \in 1..(Len(place) - 1) :
        k \in 0..(Len(place) - 1) /\ k \in 0..Len(place) /\ k # 0
  BY DEF FilePaths
<1>5. Parents(place) \subseteq FilePaths \ {<< >>}
  <2> SUFFICES ASSUME NEW k \in 1..(Len(place) - 1)
               PROVE  Ancestor(place, k) \in FilePaths \ {<< >>}
    BY DEF Parents
  <2>1. Ancestor(place, k) \in FilePaths /\ Len(Ancestor(place, k)) = k
    BY <1>4, Ancestors, Zenon
  <2> QED BY <1>4, <2>1
<1>6. DOMAIN new \subseteq FilePaths \ {<< >>}
  BY <1>1, <1>2, <1>5, Zenon DEF IsTree
<1>7. \A q \in DOMAIN new : Node(new, q) = new[q]
  BY <1>6, Zenon DEF Node
<1>8. ASSUME NEW q \in DOMAIN new
      PROVE  /\ IsNode(new[q])
             /\ \A k \in 0..(Len(q) - 1) : Node(new, Ancestor(q, k)) = Dir
  <2>1. IsNode(Dir) /\ IsNode(File(length))
    BY DEF IsNode, Dir, File
  <2>2. CASE q = place
    BY <1>1, <1>7, <2>1, <2>2, Zenon
  <2>3. CASE q \in Parents(place)
    <3>1. PICK j \in 1..(Len(place) - 1) : q = Ancestor(place, j)
      BY <2>3, Zenon DEF Parents
    <3>2. new[q] = Dir
      BY <1>1, <1>4, <1>7, <3>1, Zenon
    <3>3. ASSUME NEW k \in 0..(Len(q) - 1)
          PROVE  Node(new, Ancestor(q, k)) = Dir
      <4>1. Len(q) = j
        BY <1>4, <3>1, Ancestors, Zenon
      <4>2. k \in 0..j /\ k \in 0..(Len(place) - 1)
        BY <4>1 DEF FilePaths
      <4>3. Ancestor(q, k) = Ancestor(place, k)
        BY <1>4, <3>1, <4>2, AncestorOfAncestor, Zenon
      <4> QED BY <1>1, <4>2, <4>3, Zenon
    <3> QED BY <2>1, <3>2, <3>3, Zenon
  <2>4. CASE q \in DOMAIN tree /\ q # place
    <3>1. q \in FilePaths /\ q # << >> /\ IsNode(tree[q])
          /\ \A k \in 0..(Len(q) - 1) : Node(tree, Ancestor(q, k)) = Dir
      BY <2>4, Zenon DEF IsTree
    <3>2. new[q] = tree[q]
      BY <1>1, <2>4, Zenon
    <3>3. ASSUME NEW k \in 0..(Len(q) - 1)
          PROVE  Node(new, Ancestor(q, k)) = Dir
      <4>1. k \in 0..Len(q)
        BY <3>1 DEF FilePaths
      <4>2. Ancestor(q, k) \in FilePaths
        BY <3>1, <4>1, Ancestors, Zenon
      <4> QED BY <1>3, <3>1, <4>2, Zenon
    <3> QED BY <3>1, <3>2, <3>3, Zenon
  <2> QED BY <1>1, <2>2, <2>3, <2>4, Zenon
<1>9. Node(new, Root) = Dir
  BY <1>3, PathsAreSequences, Zenon DEF IsTree
<1> QED BY <1>6, <1>8, <1>9, Zenon DEF IsTree

(* The links on the way to a file are the same once it has been written. *)
LEMMA StoredKeepsPlace ==
  ASSUME NEW tree, IsTree(tree), NEW c \in FilePaths,
         NEW place, place = Place(tree, c), Writable(tree, place),
         NEW length \in Nat, NEW new, new = Stored(tree, place, length)
  PROVE  Place(new, c) = place
<1> DEFINE a == Redirected(tree, c)
           b == Redirected(new, c)
           T == {n \in 0..MaxLinks : b[n] = a[n]}
<1>1. MaxLinks \in Nat
  BY FileBounds
<1>2. place \in FilePaths /\ IsTree(new)
  BY PlaceIsPath, StoredIsTree, Zenon
<1>3. /\ Node(new, place) = File(length)
      /\ \A k \in 0..(Len(place) - 1) : Node(new, Ancestor(place, k)) = Dir
      /\ \A q \in FilePaths : q # place /\ Node(tree, q) # Missing
                                => Node(new, q) = Node(tree, q)
  <2>1. AddsFile(tree, new, place, length)
    BY <1>2, StoredIs, Zenon
  <2> QED BY <2>1, Zenon DEF AddsFile
<1>4. /\ Node(tree, place).kind \in {"file", "missing"} /\ Node(tree, place) # Dir
      /\ Dir # Missing
  BY <1>2, WritableIs DEF Dir, Missing
<1>5. /\ a[0] = c /\ b[0] = c
      /\ \A n \in 1..MaxLinks : a[n] = Redirect(tree, a[n - 1]) /\ b[n] = Redirect(new, b[n - 1])
      /\ a \in [0..MaxLinks -> FilePaths]
  <2>1. FollowsLinks(tree, c, a) /\ FollowsLinks(new, c, b)
    BY <1>2, RedirectedIs, Zenon
  <2> HIDE DEF a, b
  <2> QED BY <2>1, Zenon DEF FollowsLinks
<1>6. Redirect(new, place) = place
  <2>1. Node(new, place).kind = "file"
    BY <1>3 DEF File
  <2>2. ReachedNode(new, place).kind # "link"
    BY <1>2, <2>1, LookupIs
  <2> QED BY <2>2, Zenon DEF Redirect
<1>7. ASSUME NEW p \in FilePaths, ReachedNode(tree, p).kind = "link"
      PROVE  Redirect(new, p) = Redirect(tree, p)
  <2> DEFINE k == Reach(tree, p)
             q == Ancestor(p, k)
  <2>1. k \in 0..Len(p) /\ Len(p) \in Nat /\ \A j \in 0..(k - 1) : Node(tree, Ancestor(p, j)) = Dir
    BY Reaches, WholePath, Zenon
  <2>2. q \in FilePaths /\ Node(tree, q) = ReachedNode(tree, p)
    BY <2>1, Ancestors, Zenon DEF ReachedNode
  <2>3. Node(tree, q) # Missing /\ Node(tree, q) # Dir /\ q # place
    BY <1>4, <1>7, <2>2, Kinds
  <2>4. Node(new, q) = Node(tree, q)
    BY <1>3, <2>2, <2>3, Zenon
  <2>5. \A j \in 0..(k - 1) : Node(new, Ancestor(p, j)) = Dir
    <3> SUFFICES ASSUME NEW j \in 0..(k - 1) PROVE Node(new, Ancestor(p, j)) = Dir
      OBVIOUS
    <3> HIDE DEF k
    <3>1. j \in 0..Len(p)
      BY <2>1
    <3>2. Ancestor(p, j) \in FilePaths
      BY <3>1, Ancestors, Zenon
    <3> QED BY <1>3, <1>4, <2>1, <3>2, Zenon
  <2>6. StopsAt(new, p, k)
    BY <2>1, <2>3, <2>4, <2>5, Zenon DEF StopsAt
  <2>7. Reach(new, p) = k /\ ReachedNode(new, p) = Node(new, q)
    BY <2>6, ReachIs, Zenon
  <2> QED BY <2>2, <2>4, <2>7, Zenon DEF Redirect
<1>8. ASSUME NEW n \in 0..MaxLinks, ReachedNode(tree, a[n]).kind # "link"
      PROVE  a[n] = place /\ Redirect(tree, a[n]) = a[n]
  BY <1>8, Settled, Zenon DEF Redirect
<1> HIDE DEF a, b
<1>9. 0 \in T
  BY <1>1, <1>5
<1>10. ASSUME NEW n \in 1..MaxLinks, n - 1 \in T
       PROVE  n \in T
  <2>1. n - 1 \in 0..MaxLinks /\ n \in 0..MaxLinks /\ b[n - 1] = a[n - 1]
    BY <1>1, <1>10
  <2>2. a[n - 1] \in FilePaths
    BY <1>5, <2>1
  <2>3. Redirect(new, a[n - 1]) = Redirect(tree, a[n - 1])
    BY <1>6, <1>7, <1>8, <2>1, <2>2, Zenon
  <2> QED BY <1>5, <2>1, <2>3, Zenon
<1>11. \A n \in 0..MaxLinks : n \in T
  <2> HIDE DEF T
  <2> QED BY <1>1, <1>9, <1>10, BoundedInduction, Zenon
<1>12. b[MaxLinks] = a[MaxLinks]
  BY <1>1, <1>11
<1> QED BY <1>12, Zenon DEF a, b, Place

(* A write that succeeds was allowed by safePath, and goes where the path  *)
(* leads.                                                                  *)
LEMMA WriteFileIs ==
  ASSUME NEW tree, IsTree(tree), NEW path \in FilePaths, NEW length \in Nat,
         WriteFile(tree, path, length).err = "none",
         NEW c, c = Cleaned(path), NEW place, place = Place(tree, c)
  PROVE  /\ length <= MaxFileLen
         /\ path # << >> /\ WithinRoot(c) /\ WithinRoot(place)
         /\ place \in FilePaths /\ Writable(tree, place)
         /\ WriteFile(tree, path, length).tree = Stored(tree, place, length)
<1> DEFINE w == WriteFile(tree, path, length)
           s == SafePath(tree, path)
<1>1. OrCreated(tree, path, s) = s
  BY Zenon DEF OrCreated, CreatePath
<1>2. w = IF length > MaxFileLen THEN Failure("too large")
          ELSE IF s.err = "none" THEN StoredAt(tree, Place(tree, s.path), length) ELSE s
  BY <1>1 DEF WriteFile, Then
<1>3. /\ c \in FilePaths
      /\ s.err = "none" =>
              /\ s = Found(c)
              /\ path # << >> /\ WithinRoot(c) /\ WithinRoot(place)
              /\ Node(tree, place).kind \in {"dir", "file"} \/ Opens(tree, place)
  BY SafePathIs, Zenon
<1>4. w.err = "none"
  OBVIOUS
<1> HIDE DEF w, s
<1>5. ~(length > MaxFileLen)
  <2> SUFFICES ASSUME length > MaxFileLen PROVE FALSE
    OBVIOUS
  <2>1. w.err = "too large"
    BY <1>2, ResultFields, Zenon
  <2> QED BY <1>4, <2>1
<1>6. s.err = "none" /\ w = StoredAt(tree, Place(tree, s.path), length)
  BY <1>2, <1>4, <1>5, Zenon
<1>7. s.path = c
  BY <1>3, <1>6, ResultFields, Zenon
<1>8. Node(tree, place) # Dir
  <2> SUFFICES ASSUME Node(tree, place) = Dir PROVE FALSE
    OBVIOUS
  <2>1. w = Failure("is a directory")
    BY <1>6, <1>7, Zenon DEF StoredAt
  <2>2. w.err = "is a directory"
    BY <2>1, ResultFields, Zenon
  <2> QED BY <1>4, <2>2
<1>9. w = [err |-> "none", tree |-> Stored(tree, place, length)]
  BY <1>6, <1>7, <1>8, Zenon DEF StoredAt
<1>10. w.tree = Stored(tree, place, length)
  BY <1>9
<1>11. place \in FilePaths
  BY <1>3, PlaceIsPath, Zenon
<1>12. Writable(tree, place)
  BY <1>3, <1>6, <1>8, <1>11, Kinds DEF Writable
<1>13. length <= MaxFileLen
  BY <1>5, FileBounds
<1> QED BY <1>3, <1>6, <1>10, <1>11, <1>12, <1>13, Zenon DEF w

(* What ReadFile returns, once safePath and the links have led to a file. *)
LEMMA ReadFileIs ==
  ASSUME NEW tree, NEW path, NEW c, SafePath(tree, path) = Found(c),
         NEW at, EvalSymlinks(tree, c) = Found(at), Node(tree, at) # Dir
  PROVE  ReadFile(tree, path)
           = IF TooLarge(Node(tree, at).length) THEN Failure("too large")
             ELSE [err |-> "none", path |-> at, length |-> Node(tree, at).length]
<1>1. Found(c).err = "none" /\ Found(c).path = c /\ Found(at).err = "none" /\ Found(at).path = at
  BY ResultFields, Zenon
<1> QED BY <1>1, Zenon DEF ReadFile, Then

(* ReadFile (executor.go) returns nothing from outside the root. *)
LEMMA ReadsInsideRoot ==
  ASSUME NEW tree, IsTree(tree), NEW path \in FilePaths
  PROVE  ReadsInside(ReadFile(tree, path))
<1> DEFINE c == Cleaned(path)
           p == Place(tree, c)
           s == SafePath(tree, path)
           e == EvalSymlinks(tree, c)
           r == ReadFile(tree, path)
<1> SUFFICES ASSUME r.err = "none" PROVE WithinRoot(r.path)
  BY DEF ReadsInside
<1>1. c \in FilePaths /\ (s.err = "none" => s = Found(c) /\ WithinRoot(p))
  BY SafePathIs, Zenon
<1>2. e.err = "none" => e = Found(p)
  BY <1>1, EvalIs, Zenon
<1>3. s.err = "none"
  BY Zenon DEF ReadFile, Then
<1>4. s = Found(c) /\ s.path = c
  BY <1>1, <1>3, ResultFields, Zenon
<1>5. e.err = "none"
  BY <1>3, <1>4, Zenon DEF ReadFile, Then
<1>6. e = Found(p) /\ e.path = p
  BY <1>2, <1>5, ResultFields, Zenon
<1>7. Node(tree, p) # Dir
  <2> SUFFICES ASSUME Node(tree, p) = Dir PROVE FALSE
    OBVIOUS
  <2>1. r = Failure("invalid")
    BY <1>3, <1>4, <1>5, <1>6, Zenon DEF ReadFile, Then
  <2>2. r.err = "invalid"
    BY <2>1, ResultFields, Zenon
  <2> HIDE DEF r
  <2> QED BY <2>2
<1>8. r = IF TooLarge(Node(tree, p).length) THEN Failure("too large")
          ELSE [err |-> "none", path |-> p, length |-> Node(tree, p).length]
  BY <1>4, <1>6, <1>7, ReadFileIs, Zenon
<1> DEFINE ok == [err |-> "none", path |-> p, length |-> Node(tree, p).length]
<1>9. ok.path = p /\ Failure("too large").err # "none"
  <2>1. Failure("too large").err = "too large"
    BY ResultFields, Zenon
  <2> QED BY <2>1
<1> HIDE DEF r, ok, p
<1>10. r = ok
  BY <1>8, <1>9, Zenon DEF ok
<1> QED BY <1>1, <1>3, <1>9, <1>10, Zenon

(* WriteFile changes nothing outside the root: what MkdirAll finds above   *)
(* it is there already.                                                    *)
LEMMA WritesInsideRoot ==
  ASSUME NEW tree, IsTree(tree), NEW path \in FilePaths, NEW length \in Nat
  PROVE  WritesInside(tree, WriteFile(tree, path, length))
<1> DEFINE w == WriteFile(tree, path, length)
           place == Place(tree, Cleaned(path))
<1> SUFFICES ASSUME w.err = "none",
                    NEW p \in DOMAIN tree \cup DOMAIN w.tree, ~WithinRoot(p)
             PROVE  p \in DOMAIN tree \cap DOMAIN w.tree /\ w.tree[p] = tree[p]
  BY Zenon DEF WritesInside
<1>1. /\ WithinRoot(place) /\ place \in FilePaths /\ Writable(tree, place)
      /\ w.tree = Stored(tree, place, length)
  BY WriteFileIs, Zenon
<1> HIDE DEF w, place
<1>2. /\ DOMAIN w.tree = DOMAIN tree \cup Parents(place) \cup {place}
      /\ \A q \in DOMAIN tree : q # place => w.tree[q] = tree[q]
  <2>1. AddsFile(tree, w.tree, place, length)
    BY <1>1, StoredIs, Zenon
  <2> QED BY <2>1, Zenon DEF AddsFile
<1>3. p # place
  BY <1>1, Zenon
<1>4. p \in Parents(place) => p \in DOMAIN tree
  <2> SUFFICES ASSUME NEW k \in 1..(Len(place) - 1), p = Ancestor(place, k)
               PROVE  p \in DOMAIN tree
    BY Zenon DEF Parents
  <2> DEFINE n == Len(Root)
  <2>1. Root \in FilePaths /\ n \in Nat /\ Len(place) \in Nat /\ k \in 0..Len(place)
    BY <1>1, PathsAreSequences DEF FilePaths
  <2>2. p \in FilePaths /\ Len(p) = k
    BY <1>1, <2>1, Ancestors, Zenon
  <2>3. n <= Len(place) /\ Ancestor(place, n) = Root
    BY <1>1, Zenon DEF WithinRoot
  <2>4. n <= k => Ancestor(p, n) = Root
    <3>1. n <= k => n \in 0..k
      BY <2>1
    <3> QED BY <1>1, <2>1, <2>3, <3>1, AncestorOfAncestor, Zenon
  <2>5. ~(n <= k)
    BY <2>2, <2>4, Zenon DEF WithinRoot
  <2> HIDE DEF n
  <2>6. k \in 0..n /\ k \in 0..(n - 1) /\ n \in 0..Len(place) /\ k # 0
    BY <2>1, <2>3, <2>5
  <2>7. p = Ancestor(Root, k)
    BY <1>1, <2>3, <2>6, AncestorOfAncestor, Zenon
  <2>8. Node(tree, Root) # Missing
    BY DEF IsTree, Dir, Missing
  <2>9. Node(tree, p) = Dir
    BY <2>1, <2>6, <2>7, <2>8, AboveDirs, Zenon DEF n
  <2>10. p # << >>
    BY <2>2, <2>6
  <2> QED BY <2>9, <2>10 DEF Node, Dir, Missing
<1> QED BY <1>2, <1>3, <1>4, Zenon

(* executor.go:22-23: "All file paths are resolved against root and must   *)
(* stay inside it".  In every file system, with whatever links, for every  *)
(* path: no read and no write leaves the root, and safePath refuses only   *)
(* what leads outside.                                                     *)
THEOREM FilesAreContained == Contained
<1> SUFFICES ASSUME NEW tree \in Trees, NEW path \in Requested
             PROVE  /\ ReadsInside(ReadFile(tree, path))
                    /\ WritesInside(tree, WriteFile(tree, path, 0))
                    /\ SafePath(tree, path).err = "permission" =>
                         \/ ~WithinRoot(Cleaned(path))
                         \/ ~WithinRoot(Place(tree, Cleaned(path)))
  BY Zenon DEF Contained
<1>1. IsTree(tree) /\ path \in FilePaths
  BY TreesAreFileSystems, PathsAreSequences
<1>2. 0 \in Nat
  OBVIOUS
<1> QED BY <1>1, <1>2, ReadsInsideRoot, WritesInsideRoot, SafePathIs, Zenon

(* What WriteFile has written under a path, through whatever links, is     *)
(* what ReadFile returns for it.                                           *)
LEMMA WrittenReadsBack ==
  ASSUME NEW tree, IsTree(tree), NEW path \in FilePaths, NEW length \in Nat
  PROVE  ReadsBack(path, length, WriteFile(tree, path, length))
<1> DEFINE w == WriteFile(tree, path, length)
           new == w.tree
           c == Cleaned(path)
           place == Place(tree, c)
           r == ReadFile(new, path)
<1> SUFFICES ASSUME w.err = "none" PROVE r.err = "none" /\ r.length = length
  BY Zenon DEF ReadsBack
<1>1. /\ length <= MaxFileLen /\ path # << >> /\ WithinRoot(c) /\ WithinRoot(place)
      /\ place \in FilePaths /\ Writable(tree, place)
      /\ new = Stored(tree, place, length)
  BY WriteFileIs, Zenon
<1>2. c \in FilePaths
  BY CleanedIsPath, Zenon
<1>3. IsTree(new) /\ Place(new, c) = place
  <2> HIDE DEF new, c
  <2>1. place = Place(tree, c)
    OBVIOUS
  <2> HIDE DEF place
  <2>2. Writable(tree, place) /\ new = Stored(tree, place, length)
    BY <1>1, Zenon
  <2>3. Place(new, c) = place
    BY <1>2, <2>1, <2>2, StoredKeepsPlace, SMT
  <2>4. IsTree(new)
    BY <1>1, <2>2, StoredIsTree, Zenon
  <2> QED BY <2>3, <2>4, Zenon
<1> HIDE DEF new, place, c
<1>4. Node(new, place) = File(length)
  <2>1. AddsFile(tree, new, place, length)
    BY <1>1, StoredIs, Zenon
  <2> QED BY <2>1, Zenon DEF AddsFile
<1>5. /\ Node(new, place).kind \in {"dir", "file"} /\ Node(new, place) # Dir
      /\ Node(new, place).length = length
  BY <1>4 DEF File, Dir
<1>6. EvalSymlinks(new, c) = Found(place) /\ EvalSymlinks(new, c).err = "none"
  BY <1>2, <1>3, <1>5, EvalIs, Zenon
<1>7. EvalWithinRoot(new, c) = Found(place)
  <2>1. EvalWithinRoot(new, c) = Found(Place(new, c))
    BY <1>2, <1>3, <1>6, EvalWithinRootOfResolved, Zenon
  <2> QED BY <1>3, <2>1, Zenon
<1>8. SafePath(new, path) = Found(c)
  BY <1>1, <1>3, <1>7, SafePathIs, Zenon DEF c
<1>9. ~TooLarge(length)
  BY <1>1, FileBounds DEF TooLarge
<1>10. r = [err |-> "none", path |-> place, length |-> length]
  <2>1. r = IF TooLarge(Node(new, place).length) THEN Failure("too large")
            ELSE [err |-> "none", path |-> place, length |-> Node(new, place).length]
    BY <1>5, <1>6, <1>8, ReadFileIs, Zenon
  <2> QED BY <1>5, <1>9, <2>1, Zenon
<1> QED BY <1>10

(* executor.go: WriteFile and ReadFile agree.  In every file system, with  *)
(* whatever links, for every path and length: what a write stores, a read   *)
(* of the same path returns.                                               *)
THEOREM FilesReadBack == RoundTrip
<1> SUFFICES ASSUME NEW tree \in Trees, NEW path \in Requested, NEW length \in Lengths
             PROVE  ReadsBack(path, length, WriteFile(tree, path, length))
  BY Zenon DEF RoundTrip
<1>1. IsTree(tree) /\ path \in FilePaths
  BY TreesAreFileSystems, PathsAreSequences
<1>2. length \in Nat
  BY FileBounds DEF Lengths
<1> QED BY <1>1, <1>2, WrittenReadsBack, Zenon

(* Whenever a file call reaches the executor, in every behaviour: reads    *)
(* and writes stay inside the root of the sandbox (executor.go:22-23).     *)
THEOREM FilesStayInsideHolds == Spec => []FilesStayInside
<1>1. FilesStayInside
  BY FilesAreContained, Zenon DEF FilesStayInside
<1> QED BY <1>1, PTL

(* And what has been written is read back. *)
THEOREM WrittenIsReadHolds == Spec => []WrittenIsRead
<1>1. WrittenIsRead
  BY FilesReadBack, Zenon DEF WrittenIsRead
<1> QED BY <1>1, PTL
=============================================================================
