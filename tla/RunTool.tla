------------------------------ MODULE RunTool -------------------------------
(***************************************************************************)
(* cli_executor.run_tool: one process, its stdout read to the byte cap and *)
(* its stderr read beside it by two tasks, the entry's timeout around the  *)
(* first and 2 s around the second, kill and bounded reap on timeout or    *)
(* overflow, an unbounded wait for the exit, and the envelope.             *)
(***************************************************************************)
EXTENDS Subprocess

ASSUME OneStage == N = 1

VARIABLES
  pc,      \* the await the coroutine is suspended at
  stderr,  \* "unread" | "kept" | "dropped": what the stderr await came to
  reply    \* the envelope

vars == <<procVars, streamVars, waiter, pc, stderr, reply>>

\* size is the number of stdout bytes the envelope carries; why is where its
\* result or error text comes from.
\* size counts the bytes of stdout that the result is decoded from; the text
\* then loses the whitespace around it (line 167).
Envelope(status, exit, truncated, size, why) ==
  [status |-> status, exit |-> exit, truncated |-> truncated,
   size |-> size, why |-> why]

NoReply == Envelope("none", "none", FALSE, 0, "none")
Failure(why) == Envelope("error", "none", FALSE, 0, why)

Err == 1

Init ==
  /\ SubprocessInit
  /\ pc = "start" /\ stderr = "unread" /\ reply = NoReply

-----------------------------------------------------------------------------
(* Up to the first await.                                                  *)

Unhealthy ==
  /\ pc = "start"
  /\ pc' = "returned" /\ reply' = Failure("unhealthy")
  /\ UNCHANGED <<procVars, streamVars, waiter, stderr>>

SpawnNotFound ==
  /\ pc = "start"
  /\ pc' = "returned" /\ reply' = Failure("not found")
  /\ UNCHANGED <<procVars, streamVars, waiter, stderr>>

\* shlex.split's ValueError, and every OSError of the spawn but
\* FileNotFoundError, leave the coroutine.
SpawnRaises ==
  /\ pc = "start"
  /\ pc' = "raised"
  /\ UNCHANGED <<procVars, streamVars, waiter, stderr, reply>>

Spawn ==
  /\ pc = "start"
  /\ os' = [os EXCEPT ![1] = "running"]
  /\ holds' = [holds EXCEPT ![1] = Own(1)]
  /\ task' = [s \in Streams |-> "reading"]
  /\ pc' = "stdout"
  /\ UNCHANGED <<code, rc, killed, orphan, waiter, stderr, reply>>
  /\ UNCHANGED <<pipe, buf, eof, got, over, wrote>>

-----------------------------------------------------------------------------
(* wait_for(stdout_task, timeout_seconds)                                  *)

GotStdout ==
  /\ pc = "stdout" /\ task[Out] = "done" /\ ~over[Out]
  /\ pc' = "stderr"
  /\ UNCHANGED <<procVars, streamVars, waiter, stderr, reply>>

\* A mutant of GotOverflow: the producer is left alive on overflow.
GotOverflow_NoKill ==
  /\ pc = "stdout" /\ task[Out] = "done" /\ over[Out]
  /\ StartWait(1)
  /\ pc' = "trunc_reap"
  /\ UNCHANGED <<procVars, streamVars, stderr, reply>>

GotOverflow ==
  /\ pc = "stdout" /\ task[Out] = "done" /\ over[Out]
  /\ SignalKill({1})
  /\ StartWait(1)
  /\ pc' = "trunc_reap"
  /\ UNCHANGED <<os, code, rc, holds, orphan, streamVars, stderr, reply>>

\* A mutant of StdoutTimeout: only the await is cancelled.
StdoutTimeout_NoKill ==
  /\ pc = "stdout"
  /\ Cancel({Out})
  /\ StartWait(1)
  /\ pc' = "timeout_reap"
  /\ UNCHANGED <<procVars, stderr, reply>>
  /\ UNCHANGED <<pipe, buf, eof, got, over, wrote>>

\* The entry's timeout may expire at any moment of the wait.
StdoutTimeout ==
  /\ pc = "stdout"
  /\ Cancel({Out})
  /\ SignalKill({1})
  /\ StartWait(1)
  /\ pc' = "timeout_reap"
  /\ UNCHANGED <<os, code, rc, holds, orphan, stderr, reply>>
  /\ UNCHANGED <<pipe, buf, eof, got, over, wrote>>

-----------------------------------------------------------------------------
(* _reap: over when the wait returns or after REAP_TIMEOUT_SECONDS.        *)

\* A mutant of Reaped: the wait for a killed process is not bounded.
Reaped_Unbounded == WaitReturns(1)

Reaped == WaitReturns(1) \/ ShortTimer

TimeoutReaped ==
  /\ pc = "timeout_reap" /\ Reaped
  /\ Cancel({Out, Err})
  /\ waiter' = FALSE
  /\ pc' = "returned" /\ reply' = Failure("timed out")
  /\ UNCHANGED <<procVars, stderr>>
  /\ UNCHANGED <<pipe, buf, eof, got, over, wrote>>

TruncReaped ==
  /\ pc = "trunc_reap" /\ Reaped
  /\ waiter' = FALSE
  /\ pc' = "stderr"
  /\ UNCHANGED <<procVars, streamVars, stderr, reply>>

-----------------------------------------------------------------------------
(* wait_for(stderr_task, 2), then proc.wait() and the envelope.            *)

GotStderr ==
  /\ pc = "stderr" /\ task[Err] = "done"
  /\ stderr' = "kept"
  /\ StartWait(1)
  /\ pc' = "wait"
  /\ UNCHANGED <<procVars, streamVars, reply>>

\* A mutant of StderrTimeout: stderr is taken only if its task is done by now.
StderrTimeout_AtOnce ==
  /\ pc = "stderr"
  /\ task[Err] = "reading"
  /\ Cancel({Err})
  /\ stderr' = "dropped"
  /\ StartWait(1)
  /\ pc' = "wait"
  /\ UNCHANGED <<procVars, reply>>
  /\ UNCHANGED <<pipe, buf, eof, got, over, wrote>>

StderrTimeout ==
  /\ pc = "stderr" /\ ShortTimer
  /\ task[Err] = "reading" \/ "slow" \in Quirks
  /\ Cancel({Err})
  /\ stderr' = "dropped"
  /\ StartWait(1)
  /\ pc' = "wait"
  /\ UNCHANGED <<procVars, reply>>
  /\ UNCHANGED <<pipe, buf, eof, got, over, wrote>>

\* The error text: the first that is not empty of stderr, stdout and the
\* exit status.
Reason == IF stderr = "kept" /\ got[Err] > 0 THEN "stderr"
          ELSE IF got[Out] > 0 THEN "stdout" ELSE "exit code"

\* Mutants of Result: overflow is not reported, an exit status is ignored,
\* stderr is not looked at.
Result_NoMark ==
  IF rc[1] = "ok" \/ over[Out]
  THEN Envelope("success", rc[1], FALSE, got[Out], "stdout")
  ELSE Envelope("error", rc[1], FALSE, 0, Reason)

Result_AnyExit ==
  Envelope("success", rc[1], over[Out], got[Out], "stdout")

Result_StdoutFirst ==
  IF rc[1] = "ok" \/ over[Out]
  THEN Envelope("success", rc[1], over[Out], got[Out], "stdout")
  ELSE Envelope("error", rc[1], FALSE, 0,
                IF got[Out] > 0 THEN "stdout" ELSE Reason)

Result ==
  IF rc[1] = "ok" \/ over[Out]
  THEN Envelope("success", rc[1], over[Out], got[Out], "stdout")
  ELSE Envelope("error", rc[1], FALSE, 0, Reason)

Return ==
  /\ pc = "wait" /\ WaitReturns(1)
  /\ waiter' = FALSE
  /\ pc' = "returned" /\ reply' = Result
  /\ UNCHANGED <<procVars, streamVars, stderr>>

\* The task running the call is cancelled: wait_for passes that on to the
\* reader it awaits; nothing is killed and the other reader goes on.  Only a
\* tool that is just being started is killed and reaped, by asyncio.
Cancelled ==
  /\ "cancel" \in Quirks
  /\ pc \in {"start", "stdout", "timeout_reap", "trunc_reap", "stderr", "wait"}
  /\ Cancel(CASE pc = "stdout" -> {Out} [] pc = "stderr" -> {Err} [] OTHER -> {})
  /\ waiter' = FALSE
  /\ pc' = "cancelled"
  /\ UNCHANGED <<procVars, stderr, reply>>
  /\ UNCHANGED <<pipe, buf, eof, got, over, wrote>>

-----------------------------------------------------------------------------

Coroutine ==
  \/ Unhealthy \/ SpawnNotFound \/ SpawnRaises \/ Spawn
  \/ GotStdout \/ GotOverflow \/ StdoutTimeout
  \/ TimeoutReaped \/ TruncReaped
  \/ GotStderr \/ StderrTimeout \/ Return

callVars == <<waiter, pc, stderr, reply>>

Environment == (Tools \/ EventLoop) /\ UNCHANGED callVars

Next == Coroutine \/ Cancelled \/ Environment

\* The event loop runs whatever can run and its timers expire; the tool owes
\* nothing: it may never write, never close, never exit.
Fairness ==
  /\ WF_vars(Coroutine)
  /\ \A s \in Streams : /\ WF_vars(Pump(s) /\ UNCHANGED callVars)
                        /\ WF_vars(SeeEof(s) /\ UNCHANGED callVars)
                        /\ WF_vars(ReadCapped(s) /\ UNCHANGED callVars)
  /\ \A i \in Stages : /\ WF_vars(Notice(i) /\ UNCHANGED callVars)
                       /\ WF_vars(Die(i) /\ UNCHANGED callVars)

Spec == Init /\ [][Next]_vars /\ Fairness

-----------------------------------------------------------------------------

Ended == pc \in {"returned", "raised", "cancelled"}

Envelopes ==
  [status : {"none", "success", "error"}, exit : Codes,
   truncated : BOOLEAN, size : Nat,
   why : {"none", "unhealthy", "not found", "timed out",
          "stderr", "stdout", "exit code"}]

(***************************************************************************)
(* Every variable has its type.                                            *)
(***************************************************************************)
TypeOK ==
  /\ SubprocessTypeOK
  /\ pc \in {"start", "stdout", "timeout_reap", "trunc_reap", "stderr", "wait",
             "returned", "raised", "cancelled"}
  /\ stderr \in {"unread", "kept", "dropped"}
  /\ reply \in Envelopes

(***************************************************************************)
(* A success not marked truncated is made from every byte the tool wrote,  *)
(* and no more can come; one marked truncated from exactly max_bytes of a  *)
(* longer output.  Whitespace around the output is excepted: it is         *)
(* counted, but strip() takes it off the text (line 167).  (_read_capped,  *)
(* its probe byte, and the envelope.)                                      *)
(***************************************************************************)
NoSilentLoss ==
  reply.status = "success" =>
    IF reply.truncated
    THEN reply.size = MaxBytes /\ wrote > MaxBytes
    ELSE reply.size = wrote /\ ~HeldBy(Out)

(***************************************************************************)
(* A call that returned leaves no tool running that nobody has killed, and *)
(* no reader task: whatever the tool did with its pipes and whichever      *)
(* timer fired first.  (The two _kill calls, the cancels, proc.wait().)    *)
(***************************************************************************)
NothingLeftRunning ==
  pc = "returned" =>
    /\ os[1] = "running" => killed[1]
    /\ \A s \in Streams : task[s] # "reading"

(***************************************************************************)
(* The exit status reported is the one the process ended with, an error is *)
(* never reported for status 0, and a success for another status only when *)
(* the output was cut: a kill by the cap is not mistaken for a failure,    *)
(* nor a failure for a result.                                             *)
(***************************************************************************)
TrueExitStatus ==
  /\ reply.exit # "none" => reply.exit = code[1]
  /\ reply.status = "success" => reply.exit = "ok" \/ reply.truncated
  /\ reply.status = "error" => reply.exit # "ok"

(***************************************************************************)
(* Unless the loop is late, the tool closes stdout or stderr before it     *)
(* exits, or a descendant keeps one open (Tidy), the error of a tool that  *)
(* failed after writing to stderr is taken from stderr: the 2 s on the     *)
(* stderr task never drop what a finished tool wrote.                      *)
(***************************************************************************)
StderrSurfaces ==
  pc = "returned" /\ reply.status = "error" /\ reply.exit # "none"
    /\ got[Err] > 0 => reply.why = "stderr"

(***************************************************************************)
(* Why the four hold, as an inductive invariant: besides what the layer    *)
(* keeps (Plumbing), what the coroutine has established by each await      *)
(* (AtAwait) and put into the envelope (EnvelopeKept), and that a tool     *)
(* which keeps its pipes until it exits has its stderr read to the end     *)
(* before the call waits for it, unless its stdout was cut (StderrAwaited).*)
(***************************************************************************)
AtAwait ==
  /\ pc = "start" => os[1] = "none" /\ \A s \in Streams : task[s] = "none"
  /\ pc \in {"trunc_reap", "stderr", "wait"} => task[Out] = "done"
  /\ pc \in {"timeout_reap", "trunc_reap"} => os[1] = "exited" \/ killed[1]
  /\ pc = "trunc_reap" => over[Out]
  /\ pc = "wait" => task[Err] # "reading" /\ (waiter \/ rc[1] # "none")

EnvelopeKept ==
  /\ pc # "returned" => reply = NoReply
  /\ reply.exit # "none" => os[1] = "exited"
  /\ reply.status = "success" => /\ task[Out] = "done"
                                 /\ reply.size = got[Out]
                                 /\ reply.truncated = over[Out]
  /\ reply.status = "error" => ~reply.truncated

\* No late timer, no tool that closes stdout or stderr early, no descendants.
Tidy == Quirks \cap {"slow", "close", "fork"} = {}

StderrAwaited ==
  Tidy =>
    /\ PipesUntilExit
    /\ stderr = "kept" => task[Err] = "done"
    /\ pc = "wait" => stderr = "kept" \/ over[Out]
    /\ reply.status = "error" /\ reply.exit # "none" => stderr = "kept"

IInv ==
  /\ TypeOK /\ Plumbing /\ AtAwait /\ EnvelopeKept /\ TrueExitStatus
  /\ NothingLeftRunning /\ StderrAwaited /\ (Tidy => StderrSurfaces)

(***************************************************************************)
(* Every call comes back, even if the tool never exits and however much    *)
(* it writes to stdout.  This holds for a tool that keeps its pipes open   *)
(* until it exits and whose stderr fits the cap; for any other it is what  *)
(* README.md:260 says ("Every tool returns a JSON envelope").              *)
(***************************************************************************)
Returns == <>Ended

(***************************************************************************)
(* cli_executor.py:4, "timeout actually kills the subprocess (not just     *)
(* cancels the await)": a tool never runs on for good, unkilled.           *)
(***************************************************************************)
TimeoutKills == [](os[1] = "running" => <>(os[1] = "exited" \/ killed[1]))

(***************************************************************************)
(* run_tool implements the contract of ToolCall.                           *)
(***************************************************************************)
phaseOf == CASE pc = "returned" -> "replied"
             [] pc \in {"raised", "cancelled"} -> pc
             [] OTHER -> "running"
liveOf == {i \in Stages : os[i] = "running" /\ ~killed[i]}

Contract == INSTANCE ToolCall WITH
  Procs <- Stages, LastProc <- N, MaxOut <- MaxBytes,
  phase <- phaseOf, live <- liveOf, written <- wrote, ended <- code[N],
  reply <- reply

ImplementsContract == Contract!CSpec
=============================================================================
