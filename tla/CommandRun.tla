----------------------------- MODULE CommandRun -----------------------------
(***************************************************************************)
(* One command of ProcessExecutor.Exec (internal/envd/executor.go): a      *)
(* shell, what it leaves running, the pipe their output goes through, and  *)
(* the goroutines of os/exec that copy the pipe into a limitedWriter and   *)
(* kill the shell when the context ends.  stdout and stderr are alike and  *)
(* independent: one is modelled.  A byte is its position in the output.    *)
(***************************************************************************)
EXTENDS Integers, Sequences

CONSTANTS
  MaxOutput,   \* what the buffer takes
  PipeSize,    \* what the pipe holds
  MaxBytes     \* bound: what a command writes

ASSUME MaxOutputIsNatural == MaxOutput \in Nat
ASSUME PipeIsUsable == PipeSize \in Nat \ {0}
ASSUME BytesAreBounded == MaxBytes \in Nat

VARIABLE run   \* the command being executed, or NoRun

Codes == {0, 1}    \* success and failure
Signalled == -1    \* ExitCode of a shell that was killed

NoRun == [shell |-> "none"]

Runs == [shell       : {"running", "exited", "reaped"},
         code        : Codes \cup {Signalled},
         forked      : BOOLEAN,        \* a process other than the shell has the pipe
         owed        : 0..MaxBytes,    \* bytes yet to be written
         sent        : 0..MaxBytes,    \* bytes written into the pipe
         copied      : 0..MaxBytes,    \* bytes read from it
         buffer      : Seq(1..MaxBytes),
         expired     : BOOLEAN,        \* the context is done
         interrupted : BOOLEAN]        \* the shell was sent a kill for it

Running == run # NoRun

Started(n) ==
  [shell |-> "running", code |-> 0, forked |-> FALSE, owed |-> n, sent |-> 0,
   copied |-> 0, buffer |-> << >>, expired |-> FALSE, interrupted |-> FALSE]

(* Mutated: the last byte of a full buffer is lost. *)
WriteShort(buffer, p) ==
  LET room == MaxOutput - Len(buffer) IN
    IF room <= 0 THEN buffer
    ELSE IF Len(p) > room THEN buffer \o SubSeq(p, 1, room - 1)
    ELSE buffer \o p

(* limitedWriter: what does not fit is discarded. *)
Write(buffer, p) ==
  LET room == MaxOutput - Len(buffer) IN
    IF room <= 0 THEN buffer
    ELSE IF Len(p) > room THEN buffer \o SubSeq(p, 1, room)
    ELSE buffer \o p

Exec(n) == ~Running /\ run' = Started(n)

Fork ==
  /\ run.shell = "running" /\ ~run.forked
  /\ run' = [run EXCEPT !.forked = TRUE]

Emit ==
  /\ run.shell = "running" \/ run.forked
  /\ run.owed > 0 /\ run.sent - run.copied < PipeSize
  /\ run' = [run EXCEPT !.owed = @ - 1, !.sent = @ + 1]

(* The shell ends when its work is done, or leaves it to another process. *)
ShellExits(code) ==
  /\ run.shell = "running" /\ (run.owed = 0 \/ run.forked)
  /\ run' = [run EXCEPT !.shell = "exited", !.code = code]

LeftoverExits ==
  /\ run.forked /\ run.owed = 0
  /\ run' = [run EXCEPT !.forked = FALSE]

(* Mutated: a full buffer is not written to, so the pipe fills up. *)
CopyWhileRoom(n) ==
  /\ run.copied + n <= run.sent /\ Len(run.buffer) < MaxOutput
  /\ run' = [run EXCEPT !.copied = @ + n,
               !.buffer = Write(@, [i \in 1..n |-> run.copied + i])]

Copy(n) ==
  /\ run.copied + n <= run.sent
  /\ run' = [run EXCEPT !.copied = @ + n,
               !.buffer = Write(@, [i \in 1..n |-> run.copied + i])]

(* The timeout is over, or whoever asked is gone. *)
Expire == ~run.expired /\ run' = [run EXCEPT !.expired = TRUE]

(* A shell that has ended by itself, but not been waited for, can still be *)
(* sent the signal.  Whatever it has forked goes on.                       *)
Interrupt ==
  /\ run.expired /\ ~run.interrupted /\ run.shell \in {"running", "exited"}
  /\ run' = [run EXCEPT !.interrupted = TRUE, !.shell = "exited",
               !.code = IF run.shell = "running" THEN Signalled ELSE @]

Reap ==
  /\ run.shell = "exited"
  /\ run' = [run EXCEPT !.shell = "reaped"]

(* cmd.Run: the shell has been waited for, and the pipe read to its end.   *)
RunReturns == run.shell = "reaped" /\ ~run.forked /\ run.copied = run.sent

Failed == run.interrupted \/ run.code # 0

Outcome ==
  IF Failed /\ run.expired THEN "timeout"
  ELSE IF run.code = 0 THEN "success" ELSE "failure"

Step ==
  /\ Running
  /\ \/ Fork \/ Emit \/ LeftoverExits \/ Expire \/ Interrupt \/ Reap
     \/ \E code \in Codes \cup {Signalled} : ShellExits(code)
     \/ \E n \in 1..PipeSize : Copy(n)
=============================================================================
