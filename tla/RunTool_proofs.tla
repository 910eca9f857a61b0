--------------------------- MODULE RunTool_proofs ---------------------------
(***************************************************************************)
(* Proofs about run_tool, for every max_bytes, stderr cap, pipe size and   *)
(* reader size, and for whatever the tool does (every value of Quirks).    *)
(***************************************************************************)
EXTENDS RunTool, Subprocess_proofs

USE OneStage

\* With one stage the index sets are small and both streams belong to it.
LEMMA OneStageFacts ==
  /\ Stages = {1} /\ Streams = {0, 1} /\ Out = 0 /\ Err = 1
  /\ StageOf(0) = 1 /\ StageOf(1) = 1
  /\ ReadBy(1) = {0, 1} /\ Own(1) = {0, 1}
BY DEF Stages, Streams, Out, Err, StageOf, ReadBy, Own

LEMMA InitIInv == Init => IInv
<1> SUFFICES ASSUME Init PROVE IInv
  OBVIOUS
<1> USE OneStageFacts DEF Init
<1>1. Plumbing
  BY InitPlumbing
<1>2. TypeOK
  BY <1>1 DEF TypeOK, Plumbing, Envelopes, NoReply, Envelope, Codes
<1>3. AtAwait /\ EnvelopeKept /\ TrueExitStatus /\ NothingLeftRunning
  BY DEF SubprocessInit, AtAwait, EnvelopeKept, NoReply, Envelope, TrueExitStatus,
         NothingLeftRunning
<1>4. StderrAwaited /\ StderrSurfaces
  BY DEF SubprocessInit, StderrAwaited, PipesUntilExit, StderrSurfaces, NoReply, Envelope
<1>5. QED
  BY <1>1, <1>2, <1>3, <1>4 DEF IInv

-----------------------------------------------------------------------------

\* A step of the tool or of the event loop.
LEMMA EnvironmentStep ==
  ASSUME IInv, Environment
  PROVE  IInv'
<1> USE OneStageFacts DEF IInv, callVars
<1>1. EnvironmentKeeps /\ UNCHANGED callVars
  BY EnvironmentKeepsIt DEF Environment
<1>2. Plumbing'
  BY EnvironmentPlumbing DEF Environment
<1>3. TypeOK'
  BY <1>1, <1>2 DEF TypeOK, Plumbing
<1>4. AtAwait' /\ NothingLeftRunning'
  BY <1>1 DEF EnvironmentKeeps, AtAwait, NothingLeftRunning
<1>5. EnvelopeKept' /\ TrueExitStatus'
  BY <1>1 DEF EnvironmentKeeps, EnvelopeKept, TrueExitStatus
<1>6. Tidy => StderrAwaited' /\ StderrSurfaces'
  <2> SUFFICES ASSUME Tidy PROVE StderrAwaited' /\ StderrSurfaces'
    OBVIOUS
  <2>1. PipesUntilExit'
    BY EnvironmentIsTidy DEF Tidy, StderrAwaited, Environment
  <2>2. stderr = "kept" => task'[Err] = "done" /\ got'[Err] = got[Err]
    BY <1>1 DEF EnvironmentKeeps, StderrAwaited
  <2>3. StderrAwaited'
    <3>1. over[Out] => over'[Out]
      BY <1>1 DEF EnvironmentKeeps, Plumbing, ReaderEnds
    <3>2. QED
      BY <1>1, <2>1, <2>2, <3>1 DEF StderrAwaited
  <2>4. StderrSurfaces'
    BY <1>1, <2>2 DEF StderrAwaited, StderrSurfaces
  <2>5. QED
    BY <2>3, <2>4
<1>7. QED
  BY <1>2, <1>3, <1>4, <1>5, <1>6 DEF StderrAwaited

-----------------------------------------------------------------------------
(* Steps of the coroutine.                                                 *)

\* The call ends before there is a process.
LEMMA NotSpawnedStep ==
  ASSUME IInv, Unhealthy \/ SpawnNotFound \/ SpawnRaises
  PROVE  IInv'
<1> USE OneStageFacts DEF IInv, procVars, streamVars
<1>1. /\ pc = "start" /\ UNCHANGED <<procVars, streamVars, waiter, stderr>>
      /\ \/ pc' = "returned" /\ reply' \in {Failure("unhealthy"), Failure("not found")}
         \/ pc' = "raised" /\ reply' = NoReply
  BY DEF Unhealthy, SpawnNotFound, SpawnRaises, EnvelopeKept
<1>2. /\ reply' \in Envelopes /\ reply'.exit = "none" /\ ~reply'.truncated
      /\ reply'.status # "success" /\ (pc' # "returned" => reply' = NoReply)
      /\ pc' \in {"returned", "raised"}
  <2>1. CASE pc' = "raised" /\ reply' = NoReply
    BY <2>1 DEF NoReply, Envelope, Envelopes, Codes
  <2>2. CASE pc' = "returned" /\ reply' = Failure("unhealthy")
    BY <2>2 DEF Failure, Envelope, Envelopes, Codes
  <2>3. CASE pc' = "returned" /\ reply' = Failure("not found")
    BY <2>3 DEF Failure, Envelope, Envelopes, Codes
  <2>4. QED
    BY <1>1, <2>1, <2>2, <2>3
<1>3. Plumbing'
  BY <1>1, ControlPlumbing DEF Plumbing, SubprocessTypeOK, ProcTypeOK
<1>4. TypeOK'
  BY <1>1, <1>2, <1>3 DEF TypeOK, Plumbing
<1>5. AtAwait' /\ EnvelopeKept' /\ TrueExitStatus' /\ NothingLeftRunning'
  BY <1>1, <1>2 DEF AtAwait, EnvelopeKept, TrueExitStatus, NothingLeftRunning
<1>6. StderrAwaited' /\ (Tidy => StderrSurfaces')
  BY <1>1, <1>2 DEF StderrAwaited, PipesUntilExit, StderrSurfaces
<1>7. QED
  BY <1>3, <1>4, <1>5, <1>6

\* A process and its two readers start with empty streams.
LEMMA SpawnStep ==
  ASSUME IInv, Spawn
  PROVE  IInv'
<1> USE OneStageFacts DEF IInv, Spawn
<1>1. Plumbing'
  BY SpawnPlumbing DEF AtAwait
<1>2. TypeOK'
  BY <1>1 DEF TypeOK, Plumbing
<1>3. AtAwait' /\ EnvelopeKept' /\ TrueExitStatus' /\ NothingLeftRunning'
  BY DEF AtAwait, EnvelopeKept, TrueExitStatus, NothingLeftRunning, NoReply, Envelope
<1>4. os'[1] = "running" /\ holds'[1] = Own(1) /\ task[Err] = "none"
  BY DEF AtAwait, Plumbing, SubprocessTypeOK, ProcTypeOK
<1>5. StderrAwaited' /\ (Tidy => StderrSurfaces')
  BY <1>4 DEF EnvelopeKept, NoReply, Envelope, StderrAwaited, PipesUntilExit,
              StderrSurfaces
<1>6. QED
  BY <1>1, <1>2, <1>3, <1>5

\* stdout has ended within the cap.
LEMMA GotStdoutStep ==
  ASSUME IInv, GotStdout
  PROVE  IInv'
<1> USE OneStageFacts DEF IInv, GotStdout, procVars, streamVars
<1>1. Plumbing'
  BY ControlPlumbing DEF Plumbing, SubprocessTypeOK, ProcTypeOK
<1>2. TypeOK'
  BY <1>1 DEF TypeOK, Plumbing
<1>3. AtAwait' /\ EnvelopeKept' /\ TrueExitStatus' /\ NothingLeftRunning'
  BY DEF AtAwait, EnvelopeKept, TrueExitStatus, NothingLeftRunning, NoReply, Envelope
<1>4. StderrAwaited' /\ (Tidy => StderrSurfaces')
  BY DEF StderrAwaited, PipesUntilExit, StderrSurfaces
<1>5. QED
  BY <1>1, <1>2, <1>3, <1>4

\* SIGKILL is sent unless the exit is known.
LEMMA GotOverflowStep ==
  ASSUME IInv, GotOverflow
  PROVE  IInv'
<1> USE OneStageFacts DEF IInv, GotOverflow, streamVars
<1>1. /\ killed' \in [Stages -> BOOLEAN] /\ (os[1] = "exited" \/ killed'[1])
      /\ waiter' \in BOOLEAN
  BY SignalKillIsFinal DEF StartWait
<1>2. Plumbing'
  BY <1>1, ControlPlumbing
<1>3. TypeOK'
  BY <1>2 DEF TypeOK, Plumbing
<1>4. AtAwait' /\ EnvelopeKept' /\ TrueExitStatus' /\ NothingLeftRunning'
  BY <1>1 DEF AtAwait, EnvelopeKept, TrueExitStatus, NothingLeftRunning, NoReply, Envelope
<1>5. StderrAwaited' /\ (Tidy => StderrSurfaces')
  BY DEF StderrAwaited, PipesUntilExit, StderrSurfaces
<1>6. QED
  BY <1>2, <1>3, <1>4, <1>5

\* The same when the entry's timeout expires; the stdout reader is cancelled.
LEMMA StdoutTimeoutStep ==
  ASSUME IInv, StdoutTimeout
  PROVE  IInv'
<1> USE OneStageFacts DEF IInv, StdoutTimeout
<1>1. /\ killed' \in [Stages -> BOOLEAN] /\ (os[1] = "exited" \/ killed'[1])
      /\ waiter' \in BOOLEAN
  BY SignalKillIsFinal DEF StartWait
<1>2. Plumbing'
  BY <1>1, ControlPlumbing
<1>3. TypeOK'
  BY <1>2 DEF TypeOK, Plumbing
<1>4. AtAwait' /\ EnvelopeKept' /\ TrueExitStatus' /\ NothingLeftRunning'
  BY <1>1 DEF AtAwait, EnvelopeKept, TrueExitStatus, NothingLeftRunning, NoReply, Envelope
<1>5. task'[Err] = task[Err]
  BY DEF Cancel
<1>6. StderrAwaited' /\ (Tidy => StderrSurfaces')
  BY <1>5 DEF StderrAwaited, PipesUntilExit, StderrSurfaces
<1>7. QED
  BY <1>2, <1>3, <1>4, <1>6

\* After a timeout both readers are cancelled with the envelope.
LEMMA TimeoutReapedStep ==
  ASSUME IInv, TimeoutReaped
  PROVE  IInv'
<1> USE OneStageFacts DEF IInv, TimeoutReaped, procVars
<1>1. Plumbing'
  BY ControlPlumbing DEF Plumbing, SubprocessTypeOK, ProcTypeOK
<1>2. TypeOK'
  BY <1>1 DEF TypeOK, Plumbing, Envelopes, Failure, Envelope, Codes
<1>3. \A s \in Streams : task'[s] # "reading" /\ (task[s] = "done" => task'[s] = "done")
  BY DEF Cancel
<1>4. AtAwait' /\ EnvelopeKept' /\ TrueExitStatus' /\ NothingLeftRunning'
  BY <1>3 DEF AtAwait, EnvelopeKept, TrueExitStatus, NothingLeftRunning, Failure, Envelope
<1>5. StderrAwaited' /\ (Tidy => StderrSurfaces')
  BY <1>3 DEF Failure, Envelope, StderrAwaited, PipesUntilExit, StderrSurfaces
<1>6. QED
  BY <1>1, <1>2, <1>4, <1>5

\* The stdout reader is done since the overflow.
LEMMA TruncReapedStep ==
  ASSUME IInv, TruncReaped
  PROVE  IInv'
<1> USE OneStageFacts DEF IInv, TruncReaped, procVars, streamVars
<1>1. Plumbing'
  BY ControlPlumbing DEF Plumbing, SubprocessTypeOK, ProcTypeOK
<1>2. TypeOK'
  BY <1>1 DEF TypeOK, Plumbing
<1>3. AtAwait' /\ EnvelopeKept' /\ TrueExitStatus' /\ NothingLeftRunning'
  BY DEF AtAwait, EnvelopeKept, TrueExitStatus, NothingLeftRunning, NoReply, Envelope
<1>4. StderrAwaited' /\ (Tidy => StderrSurfaces')
  BY DEF StderrAwaited, PipesUntilExit, StderrSurfaces
<1>5. QED
  BY <1>1, <1>2, <1>3, <1>4

\* Both readers are done before the final wait.
LEMMA GotStderrStep ==
  ASSUME IInv, GotStderr
  PROVE  IInv'
<1> USE OneStageFacts DEF IInv, GotStderr, procVars, streamVars
<1>1. Plumbing'
  BY ControlPlumbing DEF StartWait, Plumbing, SubprocessTypeOK, ProcTypeOK
<1>2. TypeOK'
  BY <1>1 DEF TypeOK, Plumbing
<1>3. AtAwait' /\ EnvelopeKept' /\ TrueExitStatus' /\ NothingLeftRunning'
  BY DEF AtAwait, StartWait, EnvelopeKept, TrueExitStatus, NothingLeftRunning,
         NoReply, Envelope
<1>4. StderrAwaited' /\ (Tidy => StderrSurfaces')
  BY DEF StderrAwaited, PipesUntilExit, StderrSurfaces
<1>5. QED
  BY <1>1, <1>2, <1>3, <1>4

\* The stderr reader is only given up on if the tool's output was cut: had its
\* stdout ended, the tool would have exited, and a loop that is not late would
\* have seen its stderr end too.
LEMMA StderrDroppedOnlyWhenCut ==
  ASSUME IInv, Tidy, StderrTimeout
  PROVE  over[Out]
<1> USE OneStageFacts, IndexFacts
<1> SUFFICES ASSUME ~over[Out] PROVE FALSE
  OBVIOUS
<1>1. /\ CaughtUp /\ task[Err] = "reading" /\ task[Out] = "done"
      /\ PipesUntilExit /\ Plumbing
  BY DEF IInv, Tidy, StderrTimeout, ShortTimer, AtAwait, StderrAwaited
<1>2. eof[Out] /\ ~HeldBy(Out)
  BY <1>1, OutputIsComplete DEF Plumbing, ReaderEnds
<1>3. os[1] = "exited"
  BY <1>1, <1>2 DEF HeldBy, PipesUntilExit, Plumbing, Lifecycle, SubprocessTypeOK, ProcTypeOK
<1>4. ~HeldBy(Err)
  BY <1>1, <1>3 DEF HeldBy, PipesUntilExit, Plumbing, Lifecycle
<1>5. buf[Err] = 0 /\ ~eof[Err] /\ ~CanPump(Err) /\ ~CanSeeEof(Err)
  BY <1>1 DEF CaughtUp
<1>6. pipe[Err] = 0
  BY <1>1, <1>5 DEF CanPump, Plumbing, SubprocessTypeOK, StreamTypeOK
<1>7. QED
  BY <1>3, <1>4, <1>5, <1>6 DEF CanSeeEof

\* The stderr reader is done or cancelled before the final wait.
LEMMA StderrTimeoutStep ==
  ASSUME IInv, StderrTimeout
  PROVE  IInv'
<1>1. Tidy => over[Out]
  BY StderrDroppedOnlyWhenCut
<1> USE OneStageFacts DEF IInv, StderrTimeout, procVars
<1>2. Plumbing'
  BY ControlPlumbing DEF StartWait, Plumbing, SubprocessTypeOK, ProcTypeOK
<1>3. TypeOK'
  BY <1>2 DEF TypeOK, Plumbing
<1>4. /\ task'[Err] # "reading" /\ task'[Out] = task[Out]
      /\ waiter' = (rc[1] = "none")
  BY DEF Cancel, StartWait
<1>5. AtAwait' /\ EnvelopeKept' /\ TrueExitStatus' /\ NothingLeftRunning'
  BY <1>4 DEF AtAwait, EnvelopeKept, TrueExitStatus, NothingLeftRunning, NoReply, Envelope
<1>6. StderrAwaited' /\ (Tidy => StderrSurfaces')
  BY <1>1 DEF StderrAwaited, PipesUntilExit, StderrSurfaces, EnvelopeKept, NoReply, Envelope
<1>7. QED
  BY <1>2, <1>3, <1>5, <1>6

\* The final wait returned, so the status in the envelope is the real one.
LEMMA ReturnStep ==
  ASSUME IInv, Return
  PROVE  IInv'
<1> USE OneStageFacts DEF IInv, Return, procVars, streamVars
<1>1. Plumbing'
  BY ControlPlumbing DEF Plumbing, SubprocessTypeOK, ProcTypeOK
<1>2. /\ rc[1] # "none" /\ os[1] = "exited" /\ rc[1] = code[1]
      /\ task[Out] = "done" /\ task[Err] # "reading"
  BY DEF WaitReturns, AtAwait, Plumbing, ExitKnown
<1>3. /\ rc[1] \in Codes /\ over[Out] \in BOOLEAN /\ got[Out] \in Nat
  BY DEF Plumbing, SubprocessTypeOK, ProcTypeOK, StreamTypeOK
<1>4. reply' \in Envelopes
  BY <1>3 DEF Result, Reason, Envelopes, Envelope, Codes
<1>5. TypeOK'
  BY <1>1, <1>4 DEF TypeOK, Plumbing
<1>6. AtAwait' /\ NothingLeftRunning'
  BY <1>2 DEF AtAwait, NothingLeftRunning
<1>7. EnvelopeKept' /\ TrueExitStatus'
  BY <1>2, <1>3 DEF Result, Envelope, EnvelopeKept, TrueExitStatus
<1>8. reply'.status = "error" => ~over[Out] /\ reply'.why = Reason
  BY DEF Result, Envelope
<1>9. StderrAwaited' /\ (Tidy => StderrSurfaces')
  BY <1>8 DEF Reason, StderrAwaited, PipesUntilExit, StderrSurfaces
<1>10. QED
  BY <1>1, <1>5, <1>6, <1>7, <1>9

\* A cancelled call has no envelope.
LEMMA CancelledStep ==
  ASSUME IInv, Cancelled
  PROVE  IInv'
<1> USE OneStageFacts DEF IInv, Cancelled, procVars
<1>1. \E S \in SUBSET Streams : Cancel(S)
  <2>1. CASE pc = "stdout"
    BY <2>1
  <2>2. CASE pc = "stderr"
    BY <2>2
  <2>3. CASE pc \notin {"stdout", "stderr"}
    BY <2>3
  <2>4. QED
    BY <2>1, <2>2, <2>3
<1>2. Plumbing'
  BY <1>1, ControlPlumbing DEF Plumbing, SubprocessTypeOK, ProcTypeOK
<1>3. TypeOK'
  BY <1>2 DEF TypeOK, Plumbing
<1>4. AtAwait' /\ EnvelopeKept' /\ TrueExitStatus' /\ NothingLeftRunning'
  BY DEF AtAwait, EnvelopeKept, TrueExitStatus, NothingLeftRunning, NoReply, Envelope
<1>5. task[Err] = "done" => task'[Err] = "done"
  BY <1>1 DEF Cancel
<1>6. StderrAwaited' /\ (Tidy => StderrSurfaces')
  BY <1>5 DEF StderrAwaited, PipesUntilExit, StderrSurfaces
<1>7. QED
  BY <1>2, <1>3, <1>4, <1>6

LEMMA CoroutineStep == IInv /\ (Coroutine \/ Cancelled) => IInv'
BY NotSpawnedStep, SpawnStep, GotStdoutStep, GotOverflowStep, StdoutTimeoutStep,
   TimeoutReapedStep, TruncReapedStep, GotStderrStep, StderrTimeoutStep, ReturnStep,
   CancelledStep
DEF Coroutine

LEMMA StutterStep ==
  ASSUME IInv, UNCHANGED vars
  PROVE  IInv'
<1> USE DEF IInv, vars, procVars, streamVars
<1>1. SubprocessTypeOK'
  BY DEF Plumbing, SubprocessTypeOK, ProcTypeOK, StreamTypeOK
<1>2. Plumbing'
  BY <1>1 DEF Plumbing, Lifecycle, ExitKnown, EofIsFinal, HeldBy, Conserved, ReaderEnds
<1>3. TypeOK' /\ AtAwait' /\ EnvelopeKept' /\ TrueExitStatus' /\ NothingLeftRunning'
  BY <1>1 DEF TypeOK, AtAwait, EnvelopeKept, TrueExitStatus, NothingLeftRunning
<1>4. StderrAwaited' /\ (Tidy => StderrSurfaces')
  BY DEF StderrAwaited, PipesUntilExit, StderrSurfaces
<1>5. QED
  BY <1>2, <1>3, <1>4

-----------------------------------------------------------------------------

\* What the results have in common: IInv holds of every state of a call.
THEOREM Invariance == Spec => []IInv
<1>1. IInv /\ [Next]_vars => IInv'
  BY EnvironmentStep, CoroutineStep, StutterStep DEF Next
<1>2. QED
  BY InitIInv, <1>1, PTL DEF Spec

\* Every variable keeps its type.
THEOREM TypeCorrect == Spec => []TypeOK
<1>1. IInv => TypeOK
  BY DEF IInv
<1>2. QED
  BY Invariance, <1>1, PTL

\* A result not marked truncated is made from all the tool wrote or will write;
\* one marked truncated from exactly max_bytes of a longer output.  strip() then
\* takes the whitespace around it off the text.
THEOREM ResultsAreComplete == Spec => []NoSilentLoss
<1>1. IInv => NoSilentLoss
  BY OutputIsComplete DEF IInv, EnvelopeKept, NoSilentLoss
<1>2. QED
  BY Invariance, <1>1, PTL

\* A call that returned leaves neither an unkilled process nor a reader.
THEOREM NothingOutlivesACall == Spec => []NothingLeftRunning
<1>1. IInv => NothingLeftRunning
  BY DEF IInv
<1>2. QED
  BY Invariance, <1>1, PTL

\* The exit status reported is the real one, and decides success.
THEOREM ExitStatusIsTrue == Spec => []TrueExitStatus
<1>1. IInv => TrueExitStatus
  BY DEF IInv
<1>2. QED
  BY Invariance, <1>1, PTL

\* If no timer is late and the tool keeps its pipes to itself until it exits,
\* what a failed tool wrote to stderr is what the caller is told.
THEOREM StderrIsReported ==
  ASSUME Tidy
  PROVE  Spec => []StderrSurfaces
<1>1. IInv => StderrSurfaces
  BY DEF IInv
<1>2. QED
  BY Invariance, <1>1, PTL

-----------------------------------------------------------------------------
(* run_tool implements the contract of ToolCall.                           *)

\* The answer of a call that ended in an envelope is honest.
LEMMA ReplyStep ==
  ASSUME IInv, IInv', pc # "returned", pc \notin {"raised", "cancelled"},
         pc' = "returned", reply'.status \in {"success", "error"},
         UNCHANGED <<os, code, killed, wrote, over, got>>,
         reply'.status = "success" => task[Out] = "done"
  PROVE  Contract!CReply
<1> USE OneStageFacts
<1>1. phaseOf = "running" /\ phaseOf' = "replied"
  BY DEF phaseOf
<1>2. liveOf = {} /\ UNCHANGED <<liveOf, wrote, code[N]>>
  BY DEF IInv, NothingLeftRunning, liveOf
<1>3. Contract!Honest(reply')
  <2>1. reply'.status = "success" =>
          /\ reply'.size = got[Out] /\ reply'.truncated = over[Out]
          /\ ~over[Out] => got[Out] = wrote
          /\ over[Out] => got[Out] = MaxBytes /\ wrote > MaxBytes
    BY OutputIsComplete DEF IInv, EnvelopeKept
  <2>2. /\ reply'.exit \in {"none", code[N]}
        /\ reply'.status = "success" => reply'.exit = "ok" \/ reply'.truncated
        /\ reply'.status = "error" => reply'.exit # "ok" /\ ~reply'.truncated
    BY DEF IInv, TrueExitStatus, EnvelopeKept
  <2>3. QED
    BY <2>1, <2>2 DEF Contract!Honest
<1>4. QED
  BY <1>1, <1>2, <1>3 DEF Contract!CReply

\* The tool and the event loop: written bytes, the end of the tool, or nothing.
LEMMA EnvironmentImplements ==
  ASSUME IInv, Environment
  PROVE  [Contract!CNext]_Contract!cvars
<1> USE DEF callVars
<1>1. UNCHANGED callVars /\ UNCHANGED phaseOf /\ liveOf = Live /\ liveOf' = Live'
  BY DEF Environment, phaseOf, liveOf, Live
<1>2. CASE Wrote
  <2>1. ~Contract!Complete
    BY <1>2, OutputIsComplete
    DEF Wrote, Contract!Complete, phaseOf, IInv, EnvelopeKept
  <2>2. Contract!CWrite
    BY <1>1, <1>2, <2>1 DEF Wrote, Contract!CWrite
  <2>3. QED
    BY <2>2 DEF Contract!CNext
<1>3. CASE Finished
  BY <1>1, <1>3 DEF Finished, Contract!CEnd, Contract!CNext
<1>4. CASE Unseen
  <2>1. liveOf' = liveOf \ (liveOf \ liveOf')
    BY <1>1, <1>4 DEF Unseen
  <2>2. Contract!CStop
    BY <1>1, <1>4, <2>1 DEF Unseen, Contract!CStop
  <2>3. QED
    BY <2>2 DEF Contract!CNext
<1>5. QED
  BY <1>2, <1>3, <1>4, EnvironmentFromOutside DEF IInv, Environment

\* Each step of the coroutine starts the tool, signals it, answers, gives up, or
\* is not seen from outside.
LEMMA CoroutineImplements ==
  ASSUME IInv, IInv', Coroutine \/ Cancelled
  PROVE  [Contract!CNext]_Contract!cvars
<1> USE OneStageFacts DEF procVars, streamVars
<1>1. CASE Unhealthy \/ SpawnNotFound
  <2>1. reply'.status = "error"
    <3>1. CASE Unhealthy
      BY <3>1 DEF Unhealthy, Failure, Envelope
    <3>2. CASE SpawnNotFound
      BY <3>2 DEF SpawnNotFound, Failure, Envelope
    <3>3. QED
      BY <1>1, <3>1, <3>2
  <2>2. Contract!CReply
    BY <1>1, <2>1, ReplyStep DEF Unhealthy, SpawnNotFound
  <2>3. QED
    BY <2>2 DEF Contract!CNext
<1>2. CASE SpawnRaises \/ Cancelled
  <2>1. Contract!CGiveUp
    BY <1>2 DEF SpawnRaises, Cancelled, phaseOf, liveOf, Contract!CGiveUp
  <2>2. QED
    BY <2>1 DEF Contract!CNext
<1>3. CASE Spawn
  <2>1. liveOf' = liveOf \cup {1} \/ liveOf' = liveOf
    BY <1>3 DEF Spawn, liveOf, IInv, Plumbing, SubprocessTypeOK, ProcTypeOK
  <2>2. phaseOf = "running" /\ UNCHANGED <<phaseOf, wrote, code, reply>>
    BY <1>3 DEF Spawn, phaseOf
  <2>3. QED
    BY <2>1, <2>2 DEF Contract!CStart, Contract!CNext, Contract!cvars
<1>4. CASE GotOverflow \/ StdoutTimeout
  <2>1. liveOf' \in SUBSET liveOf
    BY <1>4, SignalKillIsFinal DEF GotOverflow, StdoutTimeout, liveOf, IInv
  <2>2. liveOf' = liveOf \ (liveOf \ liveOf')
    BY <2>1
  <2>3. UNCHANGED <<phaseOf, wrote, code, reply>>
    BY <1>4 DEF GotOverflow, StdoutTimeout, phaseOf
  <2>4. QED
    BY <2>1, <2>2, <2>3 DEF Contract!CStop, Contract!CNext
<1>5. CASE GotStdout \/ TruncReaped \/ GotStderr \/ StderrTimeout
  <2>1. UNCHANGED <<phaseOf, liveOf, wrote, code, reply>>
    BY <1>5 DEF GotStdout, TruncReaped, GotStderr, StderrTimeout, phaseOf, liveOf
  <2>2. QED
    BY <2>1 DEF Contract!cvars
<1>6. CASE TimeoutReaped
  <2>1. reply'.status = "error"
    BY <1>6 DEF TimeoutReaped, Failure, Envelope
  <2>2. Contract!CReply
    BY <1>6, <2>1, ReplyStep DEF TimeoutReaped
  <2>3. QED
    BY <2>2 DEF Contract!CNext
<1>7. CASE Return
  <2>1. reply'.status \in {"success", "error"}
    BY <1>7 DEF Return, Result, Envelope
  <2>2. Contract!CReply
    BY <1>7, <2>1, ReplyStep DEF Return, IInv, AtAwait
  <2>3. QED
    BY <2>2 DEF Contract!CNext
<1>8. QED
  BY <1>1, <1>2, <1>3, <1>4, <1>5, <1>6, <1>7 DEF Coroutine

\* Seen from outside, run_tool does nothing but what the contract of ToolCall
\* allows: it answers once, honestly, with nothing left running unattended.
THEOREM KeepsTheContract == Spec => ImplementsContract
<1>1. Init => Contract!CInit
  BY OneStageFacts DEF Init, SubprocessInit, Contract!CInit, phaseOf, liveOf, NoReply,
     Envelope, Contract!NoReply
<1>2. IInv /\ IInv' /\ [Next]_vars => [Contract!CNext]_Contract!cvars
  <2>1. ASSUME UNCHANGED vars PROVE UNCHANGED Contract!cvars
    BY <2>1 DEF vars, procVars, streamVars, Contract!cvars, phaseOf, liveOf
  <2>2. QED
    BY <2>1, EnvironmentImplements, CoroutineImplements DEF Next
<1>3. QED
  BY <1>1, <1>2, Invariance, PTL DEF Spec, ImplementsContract, Contract!CSpec
=============================================================================
