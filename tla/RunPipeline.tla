---------------------------- MODULE RunPipeline -----------------------------
(***************************************************************************)
(* cli_executor.run_pipeline: N >= 2 stages joined by os.pipe()s.  The     *)
(* stages are started one after the other, the last one's stdout and       *)
(* stderr are read by two tasks; a timeout kills and reaps every stage in  *)
(* turn, an overflow kills all, drains the last stdout and reaps; then     *)
(* every stage is awaited for at most 2 s and the envelope is built.       *)
(***************************************************************************)
EXTENDS Subprocess

ASSUME ManyStages == N >= 2

VARIABLES
  pc,      \* the await the coroutine is suspended at
  k,       \* the stage its current loop is at; in "spawn", the next to start
  fds,     \* pipe ends open in the server: <<stage, "r">>, <<stage, "w">>
  stderr,  \* "unread" | "kept" | "dropped": what the stderr await came to
  reply,   \* the envelope
  warned   \* the stages its "warning" entry lists

callVars == <<waiter, pc, k, fds, stderr, reply, warned>>
vars     == <<procVars, streamVars, callVars>>

\* size counts the bytes of stdout that the result is decoded from; the text
\* then loses the newlines at its end (line 313), and one that was cut has the
\* note about it at its end.
Envelope(status, exit, truncated, size, why) ==
  [status |-> status, exit |-> exit, truncated |-> truncated,
   size |-> size, why |-> why]

NoReply == Envelope("none", "none", FALSE, 0, "none")
Failure(why) == Envelope("error", "none", FALSE, 0, why)

Err == N   \* the last stage's stderr, the only one that is read

Init ==
  /\ SubprocessInit
  /\ pc = "start" /\ k = 1 /\ fds = {}
  /\ stderr = "unread" /\ reply = NoReply /\ warned = {}

\* What is unchanged by a step that only moves the coroutine.
Still == UNCHANGED <<procVars, streamVars, fds, stderr, warned>>

-----------------------------------------------------------------------------
(* Starting the stages.                                                    *)

Unhealthy ==
  /\ pc = "start"
  /\ pc' = "returned" /\ reply' = Failure("unhealthy")
  /\ Still /\ UNCHANGED <<waiter, k>>

AllHealthy ==
  /\ pc = "start"
  /\ pc' = "spawn"
  /\ Still /\ UNCHANGED <<waiter, k, reply>>

NewPipe(i)  == IF i = N THEN {} ELSE {<<i, "r">>, <<i, "w">>}
HandedTo(i) == {<<i - 1, "r">>, <<i, "w">>}
ReadTasks   == [s \in Streams |-> IF s \in {Out, Err} THEN "reading" ELSE "none"]

\* A mutant of SpawnStage: the server keeps the write end it handed over.
SpawnStage_KeepsWriteEnd ==
  /\ pc = "spawn"
  /\ os' = [os EXCEPT ![k] = "running"]
  /\ holds' = [holds EXCEPT ![k] = Own(k)]
  /\ fds' = (fds \cup NewPipe(k)) \ {<<k - 1, "r">>}
  /\ IF k < N
     THEN k' = k + 1 /\ UNCHANGED <<pc, task>>
     ELSE k' = k /\ pc' = "stdout" /\ task' = ReadTasks
  /\ UNCHANGED <<code, rc, killed, orphan, waiter, stderr, reply, warned>>
  /\ UNCHANGED <<pipe, buf, eof, got, over, wrote>>

\* One turn of the loop: a pipe to the next stage, the stage itself, and the
\* server's copies of the ends the stage now has are closed.
SpawnStage ==
  /\ pc = "spawn"
  /\ os' = [os EXCEPT ![k] = "running"]
  /\ holds' = [holds EXCEPT ![k] = Own(k)]
  /\ fds' = (fds \cup NewPipe(k)) \ HandedTo(k)
  /\ IF k < N
     THEN k' = k + 1 /\ UNCHANGED <<pc, task>>
     ELSE k' = k /\ pc' = "stdout" /\ task' = ReadTasks
  /\ UNCHANGED <<code, rc, killed, orphan, waiter, stderr, reply, warned>>
  /\ UNCHANGED <<pipe, buf, eof, got, over, wrote>>

\* FileNotFoundError: pipe_fds is empty, so every open end stays open; the
\* stages started so far are killed and reaped in turn.
SpawnNotFound ==
  /\ pc = "spawn"
  /\ fds' = fds \cup NewPipe(k)
  /\ k' = 1
  /\ IF k = 1
     THEN /\ pc' = "returned" /\ reply' = Failure("not found")
          /\ UNCHANGED <<waiter, killed>>
     ELSE /\ pc' = "fail_reap"
          /\ SignalKill({1}) /\ StartWait(1)
          /\ UNCHANGED reply
  /\ UNCHANGED <<os, code, rc, holds, orphan, streamVars, stderr, warned>>

\* shlex.split's ValueError (before the pipe is made), and every OSError of
\* the spawn but FileNotFoundError, leave the coroutine.
SpawnRaises ==
  /\ pc = "spawn"
  /\ \/ UNCHANGED fds
     \/ fds' = fds \cup NewPipe(k)
  /\ pc' = "raised"
  /\ UNCHANGED <<procVars, streamVars, waiter, k, stderr, reply, warned>>

-----------------------------------------------------------------------------
(* wait_for(stdout_task, timeout)                                          *)

GotStdout ==
  /\ pc = "stdout" /\ task[Out] = "done" /\ ~over[Out]
  /\ pc' = "stderr"
  /\ Still /\ UNCHANGED <<waiter, k, reply>>

GotOverflow ==
  /\ pc = "stdout" /\ task[Out] = "done" /\ over[Out]
  /\ SignalKill(Stages)
  /\ pc' = "drain"
  /\ UNCHANGED <<os, code, rc, holds, orphan, streamVars, waiter, k>>
  /\ UNCHANGED <<fds, stderr, reply, warned>>

StdoutTimeout ==
  /\ pc = "stdout"
  /\ Cancel({Out})
  /\ SignalKill({1}) /\ StartWait(1)
  /\ pc' = "timeout_reap" /\ k' = 1
  /\ UNCHANGED <<os, code, rc, holds, orphan, fds, stderr, reply, warned>>
  /\ UNCHANGED <<pipe, buf, eof, got, over, wrote>>

-----------------------------------------------------------------------------
(* for p in procs: await _kill(p), on both error paths.                    *)

Started == {i \in Stages : os[i] # "none"}

\* A mutant of Reaped: the wait for a killed stage is not bounded.
Reaped_Unbounded == WaitReturns(k)

Reaped == WaitReturns(k) \/ ShortTimer

KillNext ==
  /\ pc \in {"fail_reap", "timeout_reap"} /\ Reaped
  /\ k + 1 \in Started
  /\ k' = k + 1
  /\ SignalKill({k + 1}) /\ StartWait(k + 1)
  /\ UNCHANGED <<os, code, rc, holds, orphan, streamVars>>
  /\ UNCHANGED <<pc, fds, stderr, reply, warned>>

\* A mutant of AllKilled: the task that reads stderr is not cancelled.
AllKilled_KeepsReader ==
  /\ pc \in {"fail_reap", "timeout_reap"} /\ Reaped
  /\ k + 1 \notin Started
  /\ Cancel({Out})
  /\ waiter' = FALSE
  /\ pc' = "returned"
  /\ reply' = Failure(IF pc = "timeout_reap" THEN "timed out" ELSE "not found")
  /\ UNCHANGED <<procVars, k, fds, stderr, warned>>
  /\ UNCHANGED <<pipe, buf, eof, got, over, wrote>>

\* A mutant of AllKilled: it does not wait for the loop to end.
AllKilled_FirstOnly ==
  /\ pc \in {"fail_reap", "timeout_reap"} /\ Reaped
  /\ Cancel(IF pc = "timeout_reap" THEN {Out, Err} ELSE {})
  /\ waiter' = FALSE
  /\ pc' = "returned"
  /\ reply' = Failure(IF pc = "timeout_reap" THEN "timed out" ELSE "not found")
  /\ UNCHANGED <<procVars, k, fds, stderr, warned>>
  /\ UNCHANGED <<pipe, buf, eof, got, over, wrote>>

AllKilled ==
  /\ pc \in {"fail_reap", "timeout_reap"} /\ Reaped
  /\ k + 1 \notin Started
  /\ Cancel(IF pc = "timeout_reap" THEN {Out, Err} ELSE {})
  /\ waiter' = FALSE
  /\ pc' = "returned"
  /\ reply' = Failure(IF pc = "timeout_reap" THEN "timed out" ELSE "not found")
  /\ UNCHANGED <<procVars, k, fds, stderr, warned>>
  /\ UNCHANGED <<pipe, buf, eof, got, over, wrote>>

-----------------------------------------------------------------------------
(* _drain(last.stdout), then for p in procs: await _reap(p)                *)

DrainChunk ==
  /\ pc = "drain" /\ buf[Out] > 0
  /\ buf' = [buf EXCEPT ![Out] = 0]
  /\ UNCHANGED <<procVars, callVars>>
  /\ UNCHANGED <<pipe, eof, task, got, over, wrote>>

Drained ==
  /\ pc = "drain" /\ buf[Out] = 0 /\ eof[Out]
  /\ pc' = "trunc_reap" /\ k' = 1
  /\ StartWait(1)
  /\ Still /\ UNCHANGED reply

TruncReaped ==
  /\ pc = "trunc_reap" /\ Reaped
  /\ IF k < N
     THEN k' = k + 1 /\ StartWait(k + 1) /\ UNCHANGED pc
     ELSE k' = k /\ waiter' = FALSE /\ pc' = "stderr"
  /\ Still /\ UNCHANGED reply

-----------------------------------------------------------------------------
(* wait_for(stderr_task, 2), then every stage for at most 2 s.             *)

GotStderr ==
  /\ pc = "stderr" /\ task[Err] = "done"
  /\ stderr' = "kept"
  /\ pc' = "wait" /\ k' = 1 /\ StartWait(1)
  /\ UNCHANGED <<procVars, streamVars, fds, reply, warned>>

StderrTimeout ==
  /\ pc = "stderr" /\ ShortTimer
  /\ task[Err] = "reading" \/ "slow" \in Quirks
  /\ Cancel({Err})
  /\ stderr' = "dropped"
  /\ pc' = "wait" /\ k' = 1 /\ StartWait(1)
  /\ UNCHANGED <<procVars, fds, reply, warned>>
  /\ UNCHANGED <<pipe, buf, eof, got, over, wrote>>

Reason == IF stderr = "kept" /\ got[Err] > 0 THEN "stderr"
          ELSE IF got[Out] > 0 THEN "stdout" ELSE "exit code"

\* A mutant of Result: whether output was cut is told from the exit status of
\* the cap's kill, which a stage that had already exited does not have.
Result_CutIfKilled ==
  IF rc[N] = "ok" \/ over[Out]
  THEN Envelope("success", rc[N], rc[N] # "ok", got[Out], "stdout")
  ELSE Envelope("error", rc[N], FALSE, 0, Reason)

Result ==
  IF rc[N] = "ok" \/ over[Out]
  THEN Envelope("success", rc[N], over[Out], got[Out], "stdout")
  ELSE Envelope("error", rc[N], FALSE, 0, Reason)

\* A mutant of Warnings: a stage that was killed is not worth a warning.
Warnings_NotKilled == {i \in Stages \ {N} : rc[i] = "fail"}

Warnings == {i \in Stages \ {N} : rc[i] \notin {"ok", "none"}}

\* The coroutine is done with stage k of the last loop.
StageDone ==
  IF k < N
  THEN /\ k' = k + 1 /\ StartWait(k + 1) /\ pc' = "wait"
       /\ UNCHANGED <<reply, warned>>
  ELSE /\ k' = k /\ waiter' = FALSE /\ pc' = "returned"
       /\ reply' = Result /\ warned' = Warnings

\* A mutant of StageEnded: the loop goes on as soon as the process has ended,
\* whether or not its exit status has been recorded.
StageEnded_Polled ==
  /\ pc = "wait" /\ os[k] = "exited"
  /\ StageDone
  /\ UNCHANGED <<procVars, streamVars, fds, stderr>>

StageEnded ==
  /\ pc = "wait" /\ WaitReturns(k)
  /\ StageDone
  /\ UNCHANGED <<procVars, streamVars, fds, stderr>>

\* A mutant of StageWaitTimeout: the stage that did not end is left alone.
StageWaitTimeout_NoKill ==
  /\ pc = "wait" /\ ShortTimer
  /\ waiter
  /\ StartWait(k)
  /\ pc' = "wait_reap"
  /\ Still /\ UNCHANGED <<k, reply>>

StageWaitTimeout ==
  /\ pc = "wait" /\ ShortTimer
  /\ waiter
  /\ SignalKill({k}) /\ StartWait(k)
  /\ pc' = "wait_reap"
  /\ UNCHANGED <<os, code, rc, holds, orphan, streamVars>>
  /\ UNCHANGED <<k, fds, stderr, reply, warned>>

StageReaped ==
  /\ pc = "wait_reap" /\ Reaped
  /\ StageDone
  /\ UNCHANGED <<procVars, streamVars, fds, stderr>>

\* The task running the call is cancelled at an await.  During a spawn asyncio
\* kills and reaps the stage being started; the pipe made for it stays open.
Cancelled ==
  /\ "cancel" \in Quirks
  /\ pc \in {"spawn", "stdout", "fail_reap", "timeout_reap", "drain", "trunc_reap",
             "stderr", "wait", "wait_reap"}
  /\ Cancel(CASE pc = "stdout" -> {Out} [] pc = "stderr" -> {Err} [] OTHER -> {})
  /\ waiter' = FALSE
  /\ pc' = "cancelled"
  /\ fds' = IF pc = "spawn" THEN fds \cup NewPipe(k) ELSE fds
  /\ UNCHANGED <<procVars, k, stderr, reply, warned>>
  /\ UNCHANGED <<pipe, buf, eof, got, over, wrote>>

-----------------------------------------------------------------------------

\* Every step of the coroutine but the entry's timeout.
Untimed ==
  \/ Unhealthy \/ AllHealthy \/ SpawnStage \/ SpawnNotFound \/ SpawnRaises
  \/ GotStdout \/ GotOverflow \/ KillNext \/ AllKilled
  \/ DrainChunk \/ Drained \/ TruncReaped
  \/ GotStderr \/ StderrTimeout
  \/ StageEnded \/ StageWaitTimeout \/ StageReaped

Environment == (Tools \/ EventLoop) /\ UNCHANGED callVars

Next == Untimed \/ StdoutTimeout \/ Cancelled \/ Environment

LoopRuns ==
  /\ \A s \in Streams : /\ WF_vars(Pump(s) /\ UNCHANGED callVars)
                        /\ WF_vars(SeeEof(s) /\ UNCHANGED callVars)
                        /\ WF_vars(ReadCapped(s) /\ UNCHANGED callVars)
  /\ \A i \in Stages : /\ WF_vars(Notice(i) /\ UNCHANGED callVars)
                       /\ WF_vars(Die(i) /\ UNCHANGED callVars)

\* The event loop runs whatever can run and its timers expire; the stages
\* owe nothing: a stage may never write, never close, never exit.
Spec == Init /\ [][Next]_vars /\ LoopRuns /\ WF_vars(Untimed \/ StdoutTimeout)

\* The stages are filters: each exits once its stdin has ended.  Stage 1 has
\* /dev/null; the stdin of stage i ends when nobody, the server included, has
\* the write end of Link(i - 1).  The timeout need not expire.
StdinEnded(i) == i = 1 \/ (~HeldBy(Link(i - 1)) /\ <<i - 1, "w">> \notin fds)

FilterSpec ==
  /\ Init /\ [][Next]_vars /\ LoopRuns /\ WF_vars(Untimed)
  /\ \A i \in Stages : WF_vars(StdinEnded(i) /\ Exit(i) /\ UNCHANGED callVars)

-----------------------------------------------------------------------------

Ended == pc \in {"returned", "raised", "cancelled"}

Envelopes ==
  [status : {"none", "success", "error"}, exit : Codes,
   truncated : BOOLEAN, size : Nat,
   why : {"none", "unhealthy", "not found", "timed out",
          "stderr", "stdout", "exit code"}]

(***************************************************************************)
(* Every variable has its type.                                            *)
(***************************************************************************)
TypeOK ==
  /\ SubprocessTypeOK
  /\ pc \in {"start", "spawn", "stdout", "fail_reap", "timeout_reap", "drain",
             "trunc_reap", "stderr", "wait", "wait_reap",
             "returned", "raised", "cancelled"}
  /\ k \in Stages
  /\ fds \subseteq Stages \X {"r", "w"}
  /\ stderr \in {"unread", "kept", "dropped"}
  /\ reply \in Envelopes
  /\ warned \subseteq Stages \ {N}

(***************************************************************************)
(* A success not marked truncated is made from every byte the last stage   *)
(* wrote, and no more can come; one marked truncated from exactly          *)
(* max_bytes of a longer output.  Newlines at the end of the output are    *)
(* excepted: they are counted, but rstrip("\n") takes them off the text    *)
(* (line 313; tests/test_pipeline_executor.py:47).                         *)
(***************************************************************************)
NoSilentLoss ==
  reply.status = "success" =>
    IF reply.truncated
    THEN reply.size = MaxBytes /\ wrote > MaxBytes
    ELSE reply.size = wrote /\ ~HeldBy(Out)

(***************************************************************************)
(* When the call returns, every stage that was started has ended or has    *)
(* been sent SIGKILL, and no reader task is left: on every path, whichever *)
(* stage hangs, closes its pipes early, or outlives a timer.               *)
(***************************************************************************)
NothingLeftRunning ==
  pc = "returned" =>
    /\ \A i \in Stages : os[i] = "running" => killed[i]
    /\ \A s \in Streams : task[s] # "reading"

(***************************************************************************)
(* Unless the loop is late, a call that ran to its envelope warns of every *)
(* stage before the last that did not exit with status 0, of no other, and *)
(* a result never hides a failure of the last stage but the cap's kill.    *)
(***************************************************************************)
NoFailureHidden ==
  pc = "returned" /\ stderr # "unread" =>
    /\ warned = {i \in Stages \ {N} : code[i] # "ok"}
    /\ reply.exit = code[N]
    /\ reply.status = "success" <=> code[N] = "ok" \/ over[Out]

(***************************************************************************)
(* Every call comes back whatever the stages do with their pipes and even  *)
(* if none exits, as long as no stage leaves descendants behind.           *)
(***************************************************************************)
Returns == <>Ended

(***************************************************************************)
(* A pipeline of filters ends without the timeout: the end of the first    *)
(* stage's input travels down the links to the server.                     *)
(***************************************************************************)
EofTravels == [](pc = "stdout" => <>(pc # "stdout"))

(***************************************************************************)
(* A call that returns has closed every pipe end the server had, on every  *)
(* path but one: when the binary of a stage is missing, the ends made for  *)
(* it stay open, as pipe_fds, which cli_executor.py:200 calls "parent-side *)
(* fds we still need to close", is never filled.                           *)
(***************************************************************************)
EndsClosed == pc = "returned" /\ fds # {} => reply.why = "not found"

(***************************************************************************)
(* Why these hold, as an inductive invariant: besides what the layer keeps *)
(* (Plumbing), which stages exist at each await (InOrder), which of them   *)
(* the loop has dealt with (LoopsSoFar), the readers (ReadersAtAwait), the *)
(* server's pipe ends (EndsAtAwait), what the envelope was built from      *)
(* (EnvelopeKept), and that without late timers the last loop goes on only *)
(* with a known exit status (StatusesKnown).                               *)
(***************************************************************************)
Running == {"stdout", "timeout_reap", "drain", "trunc_reap", "stderr", "wait", "wait_reap"}
OutputRead == {"drain", "trunc_reap", "stderr", "wait", "wait_reap"}

InOrder ==
  /\ \A i, j \in Stages : i < j /\ j \in Started => i \in Started
  /\ pc = "start" => k = 1 /\ Started = {}
  /\ pc = "spawn" => \A i \in Stages : i \in Started <=> i < k
  /\ pc = "fail_reap" => k \in Started
  /\ pc \in Running => Started = Stages

Settled(i) == os[i] = "exited" \/ killed[i]

LoopsSoFar ==
  /\ pc \in {"fail_reap", "timeout_reap"} =>
       \A i \in Started : i <= k => Settled(i)
  /\ pc \in {"wait", "wait_reap"} =>
       /\ \A i \in Stages : i < k => Settled(i)
       /\ waiter \/ rc[k] # "none"
  /\ pc = "wait_reap" => Settled(k)

ReadersAtAwait ==
  /\ \A s \in Streams : task[s] # "none" => s \in {Out, Err}
  /\ pc \in {"start", "spawn", "fail_reap"} => \A s \in Streams : task[s] = "none"
  /\ pc \in OutputRead => task[Out] = "done"
  /\ pc = "drain" => over[Out]
  /\ pc \in {"wait", "wait_reap"} => task[Err] # "reading"

EndsAtAwait ==
  /\ pc \in {"start"} \cup Running => fds = {}
  /\ pc = "spawn" => fds = IF k = 1 THEN {} ELSE {<<k - 1, "r">>}

EnvelopeKept ==
  /\ pc # "returned" => reply = NoReply
  /\ reply.exit # "none" => os[N] = "exited" /\ reply.exit = code[N]
  /\ reply.status = "success" =>
       /\ task[Out] = "done"
       /\ reply.size = got[Out] /\ reply.truncated = over[Out]
       /\ reply.exit = "ok" \/ reply.truncated
  /\ reply.status = "error" => reply.exit # "ok" /\ ~reply.truncated

StatusesKnown ==
  /\ pc \notin {"wait", "wait_reap", "returned", "cancelled"} => stderr = "unread"
  /\ "slow" \notin Quirks =>
       /\ pc \in {"wait", "wait_reap"} => \A i \in Stages : i < k => rc[i] # "none"
       /\ pc = "returned" /\ stderr # "unread" =>
            task[Out] = "done" /\ \A i \in Stages : rc[i] # "none"
       /\ NoFailureHidden

IInv ==
  /\ TypeOK /\ Plumbing /\ InOrder /\ LoopsSoFar /\ ReadersAtAwait /\ EndsAtAwait
  /\ EnvelopeKept /\ StatusesKnown /\ NothingLeftRunning /\ EndsClosed

(***************************************************************************)
(* run_pipeline implements the contract of ToolCall.                       *)
(***************************************************************************)
phaseOf == CASE pc = "returned" -> "replied"
             [] pc \in {"raised", "cancelled"} -> pc
             [] OTHER -> "running"
liveOf == {i \in Stages : os[i] = "running" /\ ~killed[i]}

Contract == INSTANCE ToolCall WITH
  Procs <- Stages, LastProc <- N, MaxOut <- MaxBytes,
  phase <- phaseOf, live <- liveOf, written <- wrote, ended <- code[N],
  reply <- reply

ImplementsContract == Contract!CSpec
=============================================================================
