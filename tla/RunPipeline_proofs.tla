------------------------- MODULE RunPipeline_proofs -------------------------
(***************************************************************************)
(* Proofs about run_pipeline, for every number of stages, every cap, pipe  *)
(* and reader size, and for whatever the tools do (every value of Quirks). *)
(***************************************************************************)
EXTENDS RunPipeline, Subprocess_proofs

USE ManyStages

\* The last stage's stderr is not its stdout, and there is a stage before it.
LEMMA PipelineFacts ==
  /\ Err = N /\ Err \in Streams /\ Err # Out /\ Out \in Streams
  /\ N \in Stages /\ 1 \in Stages /\ N >= 2 /\ Stages = 1..N /\ Stages \subseteq Streams
BY IndexFacts DEF Err, Stages, Streams, Out

LEMMA InitIInv == Init => IInv
<1> SUFFICES ASSUME Init PROVE IInv
  OBVIOUS
<1> USE PipelineFacts DEF Init
<1>1. Plumbing
  BY InitPlumbing
<1>2. TypeOK
  BY <1>1 DEF TypeOK, Plumbing, Envelopes, NoReply, Envelope, Codes
<1>3. InOrder /\ LoopsSoFar /\ ReadersAtAwait /\ EndsAtAwait
  BY DEF SubprocessInit, InOrder, Started, LoopsSoFar, ReadersAtAwait, EndsAtAwait,
         Running, OutputRead
<1>4. EnvelopeKept /\ StatusesKnown /\ NothingLeftRunning /\ EndsClosed
  BY DEF EnvelopeKept, NoReply, Envelope, StatusesKnown, NoFailureHidden,
         NothingLeftRunning, EndsClosed
<1>5. QED
  BY <1>1, <1>2, <1>3, <1>4 DEF IInv

\* A step of the tools or of the event loop.
LEMMA EnvironmentStep ==
  ASSUME IInv, Environment
  PROVE  IInv'
<1> USE PipelineFacts DEF IInv, callVars
<1>1. EnvironmentKeeps /\ UNCHANGED callVars
  BY EnvironmentKeepsIt DEF Environment
<1>2. Plumbing'
  BY EnvironmentPlumbing DEF Environment
<1>3. TypeOK'
  BY <1>1, <1>2 DEF TypeOK, Plumbing
<1>4. InOrder'
  BY <1>1 DEF EnvironmentKeeps, InOrder, Started
<1>5. LoopsSoFar'
  BY <1>1 DEF EnvironmentKeeps, LoopsSoFar, Settled, Started, TypeOK
<1>6. ReadersAtAwait' /\ EndsAtAwait' /\ EndsClosed'
  BY <1>1 DEF EnvironmentKeeps, ReadersAtAwait, EndsAtAwait, EndsClosed, OutputRead
<1>7. EnvelopeKept'
  BY <1>1 DEF EnvironmentKeeps, EnvelopeKept
<1>8. StatusesKnown'
  <2>1. CASE pc = "returned" /\ stderr # "unread" /\ "slow" \notin Quirks
    <3>1. /\ \A i \in Stages : /\ rc'[i] # "none" /\ code'[i] = code[i]
                               /\ rc[i] # "none"
          /\ task[Out] = "done" /\ over'[Out] = over[Out] /\ task'[Out] = "done"
      BY <1>1, <2>1 DEF EnvironmentKeeps, StatusesKnown, Plumbing, ExitKnown
    <3>2. NoFailureHidden'
      BY <1>1, <2>1, <3>1 DEF StatusesKnown, NoFailureHidden
    <3>3. QED
      BY <1>1, <2>1, <3>1, <3>2 DEF StatusesKnown
  <2>2. CASE ~(pc = "returned" /\ stderr # "unread" /\ "slow" \notin Quirks)
    BY <1>1, <2>2 DEF EnvironmentKeeps, StatusesKnown, NoFailureHidden, TypeOK
  <2>3. QED
    BY <2>1, <2>2
<1>9. NothingLeftRunning'
  BY <1>1 DEF EnvironmentKeeps, NothingLeftRunning
<1>10. QED
  BY <1>2, <1>3, <1>4, <1>5, <1>6, <1>7, <1>8, <1>9

-----------------------------------------------------------------------------
(* Starting the stages.                                                    *)

\* No process exists yet.
LEMMA UnhealthyStep ==
  ASSUME IInv, Unhealthy
  PROVE  IInv'
<1> USE PipelineFacts DEF IInv, Unhealthy, Still, procVars, streamVars
<1>1. Plumbing'
  BY ControlPlumbing DEF Plumbing, SubprocessTypeOK, ProcTypeOK
<1>2. TypeOK'
  BY <1>1 DEF TypeOK, Plumbing, Envelopes, Failure, Envelope, Codes
<1>3. InOrder' /\ LoopsSoFar'
  BY DEF InOrder, LoopsSoFar, Started, Settled, Running, TypeOK
<1>4. ReadersAtAwait'
  BY DEF ReadersAtAwait, OutputRead
<1>5. EndsAtAwait' /\ EndsClosed'
  BY DEF EndsAtAwait, EndsClosed, EnvelopeKept, Running, TypeOK
<1>6. EnvelopeKept'
  BY DEF EnvelopeKept, NoReply, Failure, Envelope
<1>7. StatusesKnown'
  BY DEF StatusesKnown, NoFailureHidden
<1>8. NothingLeftRunning'
  BY DEF NothingLeftRunning, InOrder, ReadersAtAwait, Started
<1>9. QED
  BY <1>1, <1>2, <1>3, <1>4, <1>5, <1>6, <1>7, <1>8

\* The first stage is next.
LEMMA AllHealthyStep ==
  ASSUME IInv, AllHealthy
  PROVE  IInv'
<1> USE PipelineFacts DEF IInv, AllHealthy, Still, procVars, streamVars
<1>1. Plumbing'
  BY ControlPlumbing DEF Plumbing, SubprocessTypeOK, ProcTypeOK
<1>2. TypeOK'
  BY <1>1 DEF TypeOK, Plumbing
<1>3. InOrder' /\ LoopsSoFar'
  BY DEF InOrder, LoopsSoFar, Started, Settled, Running, TypeOK
<1>4. ReadersAtAwait'
  BY DEF ReadersAtAwait, OutputRead
<1>5. EndsAtAwait' /\ EndsClosed'
  BY DEF EndsAtAwait, EndsClosed, EnvelopeKept, Running, TypeOK, InOrder
<1>6. EnvelopeKept'
  BY DEF EnvelopeKept
<1>7. StatusesKnown'
  BY DEF StatusesKnown, NoFailureHidden
<1>8. NothingLeftRunning'
  BY DEF NothingLeftRunning
<1>9. QED
  BY <1>1, <1>2, <1>3, <1>4, <1>5, <1>6, <1>7, <1>8

\* An exception: there is no envelope.
LEMMA SpawnRaisesStep ==
  ASSUME IInv, SpawnRaises
  PROVE  IInv'
<1> USE PipelineFacts DEF IInv, SpawnRaises, procVars, streamVars
<1>1. Plumbing'
  BY ControlPlumbing DEF Plumbing, SubprocessTypeOK, ProcTypeOK
<1>2. TypeOK'
  BY <1>1 DEF TypeOK, Plumbing, NewPipe
<1>3. InOrder' /\ LoopsSoFar'
  BY DEF InOrder, LoopsSoFar, Started, Settled, Running, TypeOK
<1>4. ReadersAtAwait'
  BY DEF ReadersAtAwait, OutputRead
<1>5. EndsAtAwait' /\ EndsClosed'
  BY DEF EndsAtAwait, EndsClosed, EnvelopeKept, Running, TypeOK
<1>6. EnvelopeKept'
  BY DEF EnvelopeKept
<1>7. StatusesKnown'
  BY DEF StatusesKnown, NoFailureHidden
<1>8. NothingLeftRunning'
  BY DEF NothingLeftRunning
<1>9. QED
  BY <1>1, <1>2, <1>3, <1>4, <1>5, <1>6, <1>7, <1>8

\* One more stage exists, with its ends of the pipes; after the last one the
\* readers are started.
LEMMA SpawnStageStep ==
  ASSUME IInv, SpawnStage
  PROVE  IInv'
<1> USE PipelineFacts DEF IInv, SpawnStage
<1>1. /\ k \in Stages /\ os[k] = "none" /\ k \in Streams
      /\ \A s \in Streams : task[s] = "none"
  BY DEF TypeOK, InOrder, Started, ReadersAtAwait
<1>2. /\ task' \in [Streams -> {"none", "reading", "done", "cancelled"}]
      /\ task'[Out] \in {"none", "reading"}
      /\ \A s \in Streams : task'[s] # "none" => s \in {Out, Err}
      /\ k < N => task' = task
  <2>1. CASE k < N
    BY <1>1, <2>1 DEF Plumbing, SubprocessTypeOK, StreamTypeOK
  <2>2. CASE ~(k < N)
    BY <2>2 DEF ReadTasks
  <2>3. QED
    BY <2>1, <2>2
<1>3. Plumbing'
  BY <1>1, <1>2, SpawnPlumbing
<1>4. TypeOK'
  BY <1>3 DEF TypeOK, Plumbing, NewPipe, HandedTo
<1>5. \A i \in Stages : i \in Started' <=> i <= k
  BY <1>1 DEF InOrder, Started, TypeOK, Plumbing, SubprocessTypeOK, ProcTypeOK
<1>6. InOrder' /\ LoopsSoFar'
  BY <1>1, <1>5 DEF InOrder, LoopsSoFar, Running, TypeOK, Started
<1>7. ReadersAtAwait'
  <2>1. CASE k < N
    BY <1>1, <1>2, <2>1 DEF ReadersAtAwait, OutputRead
  <2>2. CASE ~(k < N)
    <3>1. pc' = "stdout"
      BY <2>2
    <3> HIDE DEF SpawnStage, IInv
    <3>2. QED
      BY <1>2, <3>1 DEF ReadersAtAwait, OutputRead
  <2>3. QED
    BY <2>1, <2>2
<1>8. EndsAtAwait' /\ EndsClosed'
  <2>1. fds = IF k = 1 THEN {} ELSE {<<k - 1, "r">>}
    BY DEF EndsAtAwait
  <2>2. CASE k < N
    BY <1>1, <2>1, <2>2 DEF EndsAtAwait, EndsClosed, NewPipe, HandedTo, Running
  <2>3. CASE k = N
    <3>1. fds' = {} /\ pc' = "stdout"
      BY <2>1, <2>3 DEF NewPipe, HandedTo
    <3>2. QED
      BY <3>1 DEF EndsAtAwait, EndsClosed, Running
  <2>4. QED
    BY <1>1, <2>2, <2>3
<1>9. EnvelopeKept' /\ StatusesKnown' /\ NothingLeftRunning'
  BY <1>1, <1>2 DEF EnvelopeKept, NoReply, Envelope, StatusesKnown, NoFailureHidden,
                    NothingLeftRunning
<1>10. QED
  BY <1>3, <1>4, <1>6, <1>7, <1>8, <1>9

\* With no stage started the call just answers; the pipe stays open.
LEMMA FirstNotFoundStep ==
  ASSUME IInv, SpawnNotFound, k = 1
  PROVE  IInv'
<1> USE PipelineFacts DEF IInv
<1>1. /\ pc = "spawn" /\ pc' = "returned" /\ reply' = Failure("not found")
      /\ fds' = fds \cup NewPipe(1) /\ k' = 1
      /\ UNCHANGED <<os, code, rc, killed, holds, orphan, streamVars, waiter, stderr, warned>>
  BY DEF SpawnNotFound
<1>2. /\ \A i \in Stages : os[i] = "none"
      /\ \A s \in Streams : task[s] = "none"
  <2>1. \A i \in Stages : i \in Started <=> i < 1
    BY <1>1 DEF InOrder
  <2>2. \A i \in Stages : i \notin Started
    BY <2>1
  <2>3. \A i \in Stages : os[i] = "none"
    BY <2>2 DEF Started
  <2>4. QED
    BY <1>1, <2>3 DEF ReadersAtAwait
<1>3. Plumbing'
  BY <1>1, ControlPlumbing DEF streamVars, Plumbing, SubprocessTypeOK, ProcTypeOK
<1>4. TypeOK'
  <2>1. Failure("not found") \in Envelopes
    BY DEF Envelopes, Failure, Envelope, Codes
  <2>2. NewPipe(1) \subseteq Stages \X {"r", "w"}
    BY DEF NewPipe
  <2>3. QED
    BY <1>1, <1>3, <2>1, <2>2 DEF TypeOK, Plumbing
<1>5. InOrder' /\ LoopsSoFar'
  BY <1>1, <1>2 DEF InOrder, LoopsSoFar, Running, Started
<1>6. ReadersAtAwait' /\ EndsAtAwait' /\ EndsClosed'
  BY <1>1, <1>2 DEF streamVars, ReadersAtAwait, OutputRead, EndsAtAwait, EndsClosed,
                    Running, Failure, Envelope
<1>7. EnvelopeKept' /\ StatusesKnown' /\ NothingLeftRunning'
  BY <1>1, <1>2 DEF streamVars, EnvelopeKept, Failure, Envelope, StatusesKnown,
                    NoFailureHidden, NothingLeftRunning
<1>8. QED
  BY <1>3, <1>4, <1>5, <1>6, <1>7

\* The stages started so far are to be killed in turn; the ends stay open.
LEMMA LaterNotFoundStep ==
  ASSUME IInv, SpawnNotFound, k # 1
  PROVE  IInv'
<1> USE PipelineFacts DEF IInv
<1>1. /\ pc = "spawn" /\ pc' = "fail_reap" /\ SignalKill({1}) /\ StartWait(1)
      /\ fds' = fds \cup NewPipe(k) /\ k' = 1
      /\ UNCHANGED <<os, code, rc, holds, orphan, streamVars, reply, stderr, warned>>
  BY DEF SpawnNotFound
<1>2. /\ killed' \in [Stages -> BOOLEAN] /\ waiter' \in BOOLEAN
      /\ os[1] = "exited" \/ killed'[1]
  BY <1>1, SignalKillIsFinal DEF StartWait
<1>3. /\ \A i \in Stages : i \in Started <=> i < k
      /\ 1 \in Started /\ Started' = Started
  BY <1>1 DEF InOrder, Started, TypeOK
<1>4. Plumbing'
  BY <1>1, <1>2, ControlPlumbing DEF streamVars
<1>5. TypeOK'
  BY <1>1, <1>4 DEF TypeOK, Plumbing, NewPipe
<1>6. InOrder' /\ LoopsSoFar'
  <2>1. InOrder'
    BY <1>1, <1>3 DEF InOrder, Running
  <2>2. \A i \in Stages : i <= 1 => i = 1
    OBVIOUS
  <2>3. LoopsSoFar'
    BY <1>1, <1>2, <1>3, <2>2 DEF LoopsSoFar, Settled, Started
  <2>4. QED
    BY <2>1, <2>3
<1>7. ReadersAtAwait' /\ EndsAtAwait' /\ EndsClosed'
  BY <1>1 DEF streamVars, ReadersAtAwait, OutputRead, EndsAtAwait, EndsClosed, Running
<1>8. EnvelopeKept' /\ StatusesKnown' /\ NothingLeftRunning'
  BY <1>1 DEF streamVars, EnvelopeKept, NoReply, Envelope, StatusesKnown,
              NoFailureHidden, NothingLeftRunning
<1>9. QED
  BY <1>4, <1>5, <1>6, <1>7, <1>8

-----------------------------------------------------------------------------
(* The timeout of the first wait, and killing the stages in turn.          *)

\* The reader of stdout has ended.
LEMMA GotStdoutStep ==
  ASSUME IInv, GotStdout
  PROVE  IInv'
<1> USE PipelineFacts DEF IInv, GotStdout, Still, procVars, streamVars
<1>1. Plumbing'
  BY ControlPlumbing DEF Plumbing, SubprocessTypeOK, ProcTypeOK
<1>2. TypeOK'
  BY <1>1 DEF TypeOK, Plumbing
<1>3. InOrder' /\ LoopsSoFar'
  BY DEF InOrder, LoopsSoFar, Started, Settled, Running, TypeOK
<1>4. ReadersAtAwait'
  BY DEF ReadersAtAwait, OutputRead, Plumbing, ReaderEnds
<1>5. EndsAtAwait' /\ EndsClosed'
  BY DEF EndsAtAwait, EndsClosed, EnvelopeKept, Running, TypeOK
<1>6. EnvelopeKept'
  BY DEF EnvelopeKept
<1>7. StatusesKnown'
  BY DEF StatusesKnown, NoFailureHidden
<1>8. NothingLeftRunning'
  BY DEF NothingLeftRunning
<1>9. QED
  BY <1>1, <1>2, <1>3, <1>4, <1>5, <1>6, <1>7, <1>8

\* It ended past the cap; SIGKILL is sent to all.
LEMMA GotOverflowStep ==
  ASSUME IInv, GotOverflow
  PROVE  IInv'
<1> USE PipelineFacts DEF IInv, GotOverflow, streamVars
<1>1. Plumbing'
  BY SignalKillIsFinal, ControlPlumbing DEF Plumbing, SubprocessTypeOK, ProcTypeOK
<1>2. TypeOK'
  BY <1>1 DEF TypeOK, Plumbing
<1>3. InOrder' /\ LoopsSoFar'
  BY DEF InOrder, LoopsSoFar, Started, Settled, Running, TypeOK
<1>4. ReadersAtAwait'
  BY DEF ReadersAtAwait, OutputRead, Plumbing, ReaderEnds
<1>5. EndsAtAwait' /\ EndsClosed'
  BY DEF EndsAtAwait, EndsClosed, EnvelopeKept, Running, TypeOK
<1>6. EnvelopeKept'
  BY DEF EnvelopeKept
<1>7. StatusesKnown'
  BY DEF StatusesKnown, NoFailureHidden
<1>8. NothingLeftRunning'
  BY DEF NothingLeftRunning
<1>9. QED
  BY <1>1, <1>2, <1>3, <1>4, <1>5, <1>6, <1>7, <1>8

\* The timeout: the first stage is killed, the reader cancelled.
LEMMA StdoutTimeoutStep ==
  ASSUME IInv, StdoutTimeout
  PROVE  IInv'
<1> USE PipelineFacts DEF IInv, StdoutTimeout
<1>1. Plumbing'
  BY SignalKillIsFinal, ControlPlumbing
     DEF StartWait, Plumbing, SubprocessTypeOK, ProcTypeOK
<1>2. TypeOK'
  BY <1>1 DEF TypeOK, Plumbing
<1>3. InOrder' /\ LoopsSoFar'
  BY SignalKillIsFinal DEF InOrder, LoopsSoFar, Started, Settled, Running, TypeOK
<1>4. ReadersAtAwait'
  BY DEF ReadersAtAwait, OutputRead, Cancel, InOrder
<1>5. EndsAtAwait' /\ EndsClosed'
  BY DEF EndsAtAwait, EndsClosed, EnvelopeKept, Running, TypeOK
<1>6. EnvelopeKept'
  BY DEF EnvelopeKept, NoReply, Envelope
<1>7. StatusesKnown'
  BY DEF StatusesKnown, NoFailureHidden
<1>8. NothingLeftRunning'
  BY DEF NothingLeftRunning
<1>9. QED
  BY <1>1, <1>2, <1>3, <1>4, <1>5, <1>6, <1>7, <1>8

\* The next stage is killed; those before it have been.
LEMMA KillNextStep ==
  ASSUME IInv, KillNext
  PROVE  IInv'
<1> USE PipelineFacts DEF IInv, KillNext, streamVars
<1>1. Plumbing'
  BY SignalKillIsFinal, ControlPlumbing
     DEF StartWait, Plumbing, SubprocessTypeOK, ProcTypeOK
<1>2. TypeOK'
  BY <1>1 DEF TypeOK, Plumbing, Started
<1>3. InOrder' /\ LoopsSoFar'
  BY SignalKillIsFinal DEF InOrder, LoopsSoFar, Started, Settled, Running, TypeOK
<1>4. ReadersAtAwait'
  BY DEF ReadersAtAwait, OutputRead
<1>5. EndsAtAwait' /\ EndsClosed'
  BY DEF EndsAtAwait, EndsClosed, EnvelopeKept, Running, TypeOK
<1>6. EnvelopeKept'
  BY DEF EnvelopeKept
<1>7. StatusesKnown'
  BY DEF StatusesKnown, NoFailureHidden
<1>8. NothingLeftRunning'
  BY DEF NothingLeftRunning
<1>9. QED
  BY <1>1, <1>2, <1>3, <1>4, <1>5, <1>6, <1>7, <1>8

LEMMA StartedUpTo ==
  ASSUME InOrder, k \in Stages, k + 1 \notin Started
  PROVE  \A i \in Started : i <= k
<1> SUFFICES ASSUME NEW i \in Stages, i \in Started, ~(i <= k) PROVE FALSE
  BY DEF Started
<1>1. k + 1 \in Stages /\ (k + 1 < i \/ k + 1 = i)
  BY PipelineFacts
<1>2. QED
  BY <1>1 DEF InOrder

\* Every stage that was started has been dealt with, and no reader is left.
LEMMA AllKilledStep ==
  ASSUME IInv, AllKilled
  PROVE  IInv'
<1> USE PipelineFacts DEF IInv, AllKilled, procVars
<1>1. Plumbing'
  BY ControlPlumbing DEF Plumbing, SubprocessTypeOK, ProcTypeOK
<1>2. TypeOK'
  BY <1>1 DEF TypeOK, Plumbing, Envelopes, Failure, Envelope, Codes
<1>3. InOrder' /\ LoopsSoFar'
  BY DEF InOrder, LoopsSoFar, Running, Started
<1>4. ReadersAtAwait'
  BY DEF ReadersAtAwait, OutputRead, Cancel
<1>5. EndsAtAwait' /\ EndsClosed'
  BY DEF EndsAtAwait, EndsClosed, Running, Failure, Envelope
<1>6. EnvelopeKept' /\ StatusesKnown'
  BY DEF EnvelopeKept, NoReply, Failure, Envelope, StatusesKnown, NoFailureHidden
<1>7. \A i \in Started : i <= k
  BY StartedUpTo DEF TypeOK
<1>8. NothingLeftRunning'
  <2>1. \A i \in Stages : os[i] = "running" => killed[i]
    BY <1>7 DEF LoopsSoFar, Settled, Started
  <2>2. \A s \in Streams : task'[s] # "reading"
    BY DEF Cancel, ReadersAtAwait
  <2>3. QED
    BY <2>1, <2>2 DEF NothingLeftRunning
<1>9. QED
  BY <1>1, <1>2, <1>3, <1>4, <1>5, <1>6, <1>8

-----------------------------------------------------------------------------
(* After an overflow.                                                      *)

\* What is drained is beyond the cap and was never to be kept.
LEMMA DrainChunkStep ==
  ASSUME IInv, DrainChunk
  PROVE  IInv'
<1> USE PipelineFacts DEF IInv, DrainChunk, procVars, callVars
<1>1. over[Out]
  BY DEF ReadersAtAwait
<1>2. SubprocessTypeOK'
  <2>1. 0 \in 0..BufCap
    BY IndexFacts
  <2>2. StreamTypeOK'
    BY <2>1 DEF Plumbing, SubprocessTypeOK, StreamTypeOK
  <2>3. ProcTypeOK' /\ waiter' \in BOOLEAN
    BY DEF Plumbing, SubprocessTypeOK, ProcTypeOK
  <2>4. QED
    BY <2>2, <2>3 DEF SubprocessTypeOK
<1>3. Plumbing'
  BY <1>1, <1>2 DEF Plumbing, Lifecycle, ExitKnown, EofIsFinal, HeldBy, Conserved,
                    ReaderEnds
<1>4. TypeOK' /\ InOrder' /\ LoopsSoFar'
  BY <1>2 DEF TypeOK, InOrder, Started, LoopsSoFar, Settled
<1>5. ReadersAtAwait' /\ EndsAtAwait' /\ EndsClosed'
  BY DEF ReadersAtAwait, EndsAtAwait, EndsClosed
<1>6. EnvelopeKept' /\ StatusesKnown' /\ NothingLeftRunning'
  BY DEF EnvelopeKept, StatusesKnown, NoFailureHidden, NothingLeftRunning
<1>7. QED
  BY <1>3, <1>4, <1>5, <1>6

\* The last stdout is at EOF; the stages are reaped in turn.
LEMMA DrainedStep ==
  ASSUME IInv, Drained
  PROVE  IInv'
<1> USE PipelineFacts DEF IInv, Drained, Still, procVars, streamVars
<1>1. Plumbing'
  BY ControlPlumbing DEF StartWait, Plumbing, SubprocessTypeOK, ProcTypeOK
<1>2. TypeOK'
  BY <1>1 DEF TypeOK, Plumbing
<1>3. InOrder' /\ LoopsSoFar'
  BY DEF InOrder, LoopsSoFar, Started, Settled, Running, TypeOK
<1>4. ReadersAtAwait'
  BY DEF ReadersAtAwait, OutputRead
<1>5. EndsAtAwait' /\ EndsClosed'
  BY DEF EndsAtAwait, EndsClosed, EnvelopeKept, Running, TypeOK
<1>6. EnvelopeKept'
  BY DEF EnvelopeKept
<1>7. StatusesKnown'
  BY DEF StatusesKnown, NoFailureHidden
<1>8. NothingLeftRunning'
  BY DEF NothingLeftRunning
<1>9. QED
  BY <1>1, <1>2, <1>3, <1>4, <1>5, <1>6, <1>7, <1>8

\* Reaped or given up on; after the last, stderr is awaited.
LEMMA TruncReapedStep ==
  ASSUME IInv, TruncReaped
  PROVE  IInv'
<1> USE PipelineFacts DEF IInv, TruncReaped, Still, procVars, streamVars
<1>1. Plumbing'
  BY ControlPlumbing DEF StartWait, Plumbing, SubprocessTypeOK, ProcTypeOK
<1>2. TypeOK'
  BY <1>1 DEF TypeOK, Plumbing
<1>3. InOrder' /\ LoopsSoFar'
  BY DEF InOrder, LoopsSoFar, Started, Settled, Running, TypeOK
<1>4. ReadersAtAwait'
  BY DEF ReadersAtAwait, OutputRead
<1>5. EndsAtAwait' /\ EndsClosed'
  BY DEF EndsAtAwait, EndsClosed, EnvelopeKept, Running, TypeOK
<1>6. EnvelopeKept'
  BY DEF EnvelopeKept
<1>7. StatusesKnown'
  BY DEF StatusesKnown, NoFailureHidden
<1>8. NothingLeftRunning'
  BY DEF NothingLeftRunning
<1>9. QED
  BY <1>1, <1>2, <1>3, <1>4, <1>5, <1>6, <1>7, <1>8

-----------------------------------------------------------------------------
(* The wait for stderr and the last loop.                                  *)

\* The reader of stderr has ended; the last loop starts.
LEMMA GotStderrStep ==
  ASSUME IInv, GotStderr
  PROVE  IInv'
<1> USE PipelineFacts DEF IInv, GotStderr, procVars, streamVars
<1>1. Plumbing'
  BY ControlPlumbing DEF StartWait, Plumbing, SubprocessTypeOK, ProcTypeOK
<1>2. TypeOK'
  BY <1>1 DEF TypeOK, Plumbing
<1>3. InOrder' /\ LoopsSoFar'
  <2>1. /\ pc' = "wait" /\ k' = 1 /\ waiter' = (rc[1] = "none") /\ os' = os
        /\ killed' = killed /\ rc' = rc /\ Started' = Started
    BY DEF StartWait, Started
  <2>2. \A i \in Stages : ~(i < 1)
    OBVIOUS
  <2>3. InOrder'
    BY <2>1 DEF InOrder, Running
  <2>4. LoopsSoFar'
    BY <2>1, <2>2 DEF LoopsSoFar
  <2>5. QED
    BY <2>3, <2>4
<1>4. ReadersAtAwait'
  BY DEF ReadersAtAwait, OutputRead
<1>5. EndsAtAwait' /\ EndsClosed'
  BY DEF EndsAtAwait, EndsClosed, EnvelopeKept, Running, TypeOK
<1>6. EnvelopeKept'
  BY DEF EnvelopeKept
<1>7. StatusesKnown'
  BY DEF StatusesKnown, NoFailureHidden
<1>8. NothingLeftRunning'
  BY DEF NothingLeftRunning
<1>9. QED
  BY <1>1, <1>2, <1>3, <1>4, <1>5, <1>6, <1>7, <1>8

\* The reader of stderr is cancelled; the last loop starts.
LEMMA StderrTimeoutStep ==
  ASSUME IInv, StderrTimeout
  PROVE  IInv'
<1> USE PipelineFacts DEF IInv, StderrTimeout, procVars
<1>1. Plumbing'
  BY ControlPlumbing DEF StartWait, Plumbing, SubprocessTypeOK, ProcTypeOK
<1>2. TypeOK'
  BY <1>1 DEF TypeOK, Plumbing
<1>3. InOrder' /\ LoopsSoFar'
  <2>1. /\ pc' = "wait" /\ k' = 1 /\ waiter' = (rc[1] = "none") /\ os' = os
        /\ killed' = killed /\ rc' = rc /\ Started' = Started
    BY DEF StartWait, Started
  <2>2. \A i \in Stages : ~(i < 1)
    OBVIOUS
  <2>3. InOrder'
    BY <2>1 DEF InOrder, Running
  <2>4. LoopsSoFar'
    BY <2>1, <2>2 DEF LoopsSoFar
  <2>5. QED
    BY <2>3, <2>4
<1>4. ReadersAtAwait'
  BY DEF ReadersAtAwait, OutputRead, Cancel
<1>5. EndsAtAwait' /\ EndsClosed'
  BY DEF EndsAtAwait, EndsClosed, EnvelopeKept, Running, TypeOK
<1>6. EnvelopeKept'
  BY DEF EnvelopeKept, NoReply, Envelope
<1>7. StatusesKnown'
  BY DEF StatusesKnown, NoFailureHidden
<1>8. NothingLeftRunning'
  BY DEF NothingLeftRunning
<1>9. QED
  BY <1>1, <1>2, <1>3, <1>4, <1>5, <1>6, <1>7, <1>8

\* The last loop is done with a stage: it is settled, and unless timers fire
\* late its status is known.  After the last stage the envelope is built.
LEMMA StageDoneStep ==
  ASSUME IInv, pc \in {"wait", "wait_reap"}, StageDone, Settled(k),
         "slow" \notin Quirks => rc[k] # "none",
         UNCHANGED <<procVars, streamVars, fds, stderr>>
  PROVE  IInv'
<1> USE PipelineFacts DEF IInv, procVars, streamVars
<1>1. /\ task[Out] = "done" /\ task[Err] # "reading" /\ Started = Stages
      /\ fds = {} /\ reply = NoReply /\ k \in Stages
      /\ \A i \in Stages : i <= k => Settled(i)
      /\ "slow" \notin Quirks => \A i \in Stages : i <= k => rc[i] # "none"
  BY DEF InOrder, LoopsSoFar, ReadersAtAwait, EndsAtAwait, EnvelopeKept,
         StatusesKnown, Running, OutputRead, TypeOK
<1>2. CASE k < N
  <2>1. /\ k' = k + 1 /\ k + 1 \in Stages /\ pc' = "wait"
        /\ waiter' = (rc[k + 1] = "none") /\ UNCHANGED <<reply, warned>>
    BY <1>1, <1>2 DEF StageDone, StartWait
  <2>2. Plumbing'
    BY <2>1, ControlPlumbing DEF Plumbing, SubprocessTypeOK, ProcTypeOK
  <2>3. TypeOK'
    BY <2>1, <2>2 DEF TypeOK, Plumbing
  <2>4. \A i \in Stages : i < k + 1 => i <= k
    BY <1>1
  <2>5. InOrder' /\ LoopsSoFar'
    BY <1>1, <2>1, <2>4 DEF InOrder, Started, LoopsSoFar, Settled, Running
  <2>6. ReadersAtAwait' /\ EndsAtAwait' /\ EndsClosed'
    BY <1>1, <2>1 DEF ReadersAtAwait, OutputRead, EndsAtAwait, EndsClosed
  <2>7. EnvelopeKept' /\ StatusesKnown' /\ NothingLeftRunning'
    BY <1>1, <2>1, <2>4 DEF EnvelopeKept, NoReply, Envelope, StatusesKnown,
                            NoFailureHidden, NothingLeftRunning
  <2>8. QED
    BY <2>2, <2>3, <2>5, <2>6, <2>7
<1>3. CASE ~(k < N)
  <2>1. /\ k = N /\ k' = k /\ pc' = "returned" /\ waiter' = FALSE
        /\ reply' = Result /\ warned' = Warnings
        /\ \A i \in Stages : i <= k
    BY <1>1, <1>3 DEF StageDone
  <2>2. Plumbing'
    BY <2>1, ControlPlumbing DEF Plumbing, SubprocessTypeOK, ProcTypeOK
  <2>3. Result \in Envelopes
    BY DEF Result, Reason, Envelopes, Envelope, Plumbing, SubprocessTypeOK,
           ProcTypeOK, StreamTypeOK, Codes
  <2>4. TypeOK'
    BY <2>1, <2>2, <2>3 DEF TypeOK, Plumbing, Warnings
  <2>5. InOrder' /\ LoopsSoFar'
    BY <1>1, <2>1 DEF InOrder, Started, LoopsSoFar, Running
  <2>6. ReadersAtAwait' /\ EndsAtAwait' /\ EndsClosed'
    BY <1>1, <2>1 DEF ReadersAtAwait, OutputRead, EndsAtAwait, EndsClosed, Running
  <2>7. EnvelopeKept'
    BY <1>1, <2>1 DEF EnvelopeKept, Result, Envelope, Plumbing, ExitKnown
  <2>8. StatusesKnown'
    <3>1. CASE "slow" \notin Quirks
      <4>1. \A i \in Stages : rc[i] # "none" /\ rc[i] = code[i]
        BY <1>1, <2>1, <3>1 DEF Plumbing, ExitKnown
      <4>2. Warnings = {i \in Stages \ {N} : code[i] # "ok"}
        BY <4>1 DEF Warnings
      <4>3. NoFailureHidden'
        BY <2>1, <4>1, <4>2 DEF NoFailureHidden, Result, Envelope
      <4>4. QED
        BY <1>1, <2>1, <3>1, <4>1, <4>3 DEF StatusesKnown
    <3>2. CASE "slow" \in Quirks
      BY <2>1, <3>2 DEF StatusesKnown
    <3>3. QED
      BY <3>1, <3>2
  <2>9. NothingLeftRunning'
    <3>1. \A i \in Stages : os[i] = "running" => killed[i]
      BY <1>1, <2>1 DEF Settled
    <3>2. \A s \in Streams : task[s] # "reading"
      BY <1>1 DEF ReadersAtAwait
    <3>3. QED
      BY <3>1, <3>2 DEF NothingLeftRunning
  <2>10. QED
    BY <2>2, <2>4, <2>5, <2>6, <2>7, <2>8, <2>9
<1>4. QED
  BY <1>2, <1>3

\* The wait for a stage returned: its exit status is known.
LEMMA StageEndedStep ==
  ASSUME IInv, StageEnded
  PROVE  IInv'
<1>1. rc[k] # "none"
  BY DEF IInv, LoopsSoFar, StageEnded, WaitReturns
<1>2. Settled(k)
  BY <1>1 DEF IInv, TypeOK, Plumbing, ExitKnown, Settled
<1>3. QED
  BY <1>1, <1>2, StageDoneStep DEF StageEnded

\* The stage that did not end is killed.
LEMMA StageWaitTimeoutStep ==
  ASSUME IInv, StageWaitTimeout
  PROVE  IInv'
<1> USE PipelineFacts DEF IInv, StageWaitTimeout, streamVars
<1>1. Plumbing'
  BY SignalKillIsFinal, ControlPlumbing
     DEF StartWait, Plumbing, SubprocessTypeOK, ProcTypeOK
<1>2. TypeOK'
  BY <1>1 DEF TypeOK, Plumbing
<1>3. InOrder' /\ LoopsSoFar'
  BY SignalKillIsFinal DEF InOrder, LoopsSoFar, Started, Settled, Running, TypeOK, StartWait
<1>4. ReadersAtAwait'
  BY DEF ReadersAtAwait, OutputRead
<1>5. EndsAtAwait' /\ EndsClosed'
  BY DEF EndsAtAwait, EndsClosed, EnvelopeKept, Running, TypeOK
<1>6. EnvelopeKept'
  BY DEF EnvelopeKept
<1>7. StatusesKnown'
  BY DEF StatusesKnown, NoFailureHidden
<1>8. NothingLeftRunning'
  BY DEF NothingLeftRunning
<1>9. QED
  BY <1>1, <1>2, <1>3, <1>4, <1>5, <1>6, <1>7, <1>8

\* The killed stage was reaped, or the reap was given up: only a late timer
\* gives up before the exit status is known.
LEMMA StageReapedStep ==
  ASSUME IInv, StageReaped
  PROVE  IInv'
<1>1. /\ pc = "wait_reap" /\ Reaped /\ k \in Stages /\ Settled(k)
      /\ waiter \/ rc[k] # "none"
      /\ os[k] \in {"running", "exited"}
  BY DEF IInv, TypeOK, Plumbing, SubprocessTypeOK, ProcTypeOK, InOrder, Started, LoopsSoFar, StageReaped, Running
<1>2. ASSUME "slow" \notin Quirks PROVE rc[k] # "none"
  <2>1. CASE WaitReturns(k)
    BY <1>1, <2>1 DEF WaitReturns
  <2>2. CASE CaughtUp
    BY <1>1, <2>2 DEF CaughtUp, Settled
  <2>3. QED
    BY <1>1, <1>2, <2>1, <2>2 DEF Reaped, ShortTimer
<1>3. QED
  BY <1>1, <1>2, StageDoneStep DEF StageReaped

\* A cancelled call has no envelope.
LEMMA CancelledStep ==
  ASSUME IInv, Cancelled
  PROVE  IInv'
<1> USE PipelineFacts DEF IInv, Cancelled, procVars
<1>1. Plumbing'
  BY ControlPlumbing DEF Plumbing, SubprocessTypeOK, ProcTypeOK
<1>2. TypeOK'
  BY <1>1 DEF TypeOK, Plumbing, NewPipe
<1>3. InOrder' /\ LoopsSoFar'
  BY DEF InOrder, LoopsSoFar, Started, Settled, Running, TypeOK
<1>4. ReadersAtAwait'
  BY DEF ReadersAtAwait, OutputRead, Cancel
<1>5. EndsAtAwait' /\ EndsClosed'
  BY DEF EndsAtAwait, EndsClosed, EnvelopeKept, Running, TypeOK
<1>6. EnvelopeKept'
  BY DEF EnvelopeKept, NoReply, Envelope
<1>7. StatusesKnown'
  BY DEF StatusesKnown, NoFailureHidden
<1>8. NothingLeftRunning'
  BY DEF NothingLeftRunning
<1>9. QED
  BY <1>1, <1>2, <1>3, <1>4, <1>5, <1>6, <1>7, <1>8

-----------------------------------------------------------------------------

LEMMA CoroutineStep ==
  ASSUME IInv, Untimed \/ StdoutTimeout \/ Cancelled
  PROVE  IInv'
BY UnhealthyStep, AllHealthyStep, SpawnStageStep, FirstNotFoundStep, LaterNotFoundStep,
   SpawnRaisesStep, GotStdoutStep, GotOverflowStep, StdoutTimeoutStep, KillNextStep,
   AllKilledStep, DrainChunkStep, DrainedStep, TruncReapedStep, GotStderrStep,
   StderrTimeoutStep, StageEndedStep, StageWaitTimeoutStep, StageReapedStep,
   CancelledStep
DEF Untimed

LEMMA StutterStep ==
  ASSUME IInv, UNCHANGED vars
  PROVE  IInv'
<1> USE DEF IInv, vars, procVars, streamVars, callVars
<1>1. SubprocessTypeOK'
  BY DEF Plumbing, SubprocessTypeOK, ProcTypeOK, StreamTypeOK
<1>2. Plumbing'
  BY <1>1 DEF Plumbing, Lifecycle, ExitKnown, EofIsFinal, HeldBy, Conserved, ReaderEnds
<1>3. TypeOK' /\ InOrder' /\ LoopsSoFar'
  BY <1>1 DEF TypeOK, InOrder, Started, LoopsSoFar, Settled
<1>4. ReadersAtAwait' /\ EndsAtAwait' /\ EndsClosed'
  BY DEF ReadersAtAwait, EndsAtAwait, EndsClosed
<1>5. EnvelopeKept' /\ StatusesKnown' /\ NothingLeftRunning'
  BY DEF EnvelopeKept, StatusesKnown, NoFailureHidden, NothingLeftRunning
<1>6. QED
  BY <1>2, <1>3, <1>4, <1>5

\* IInv holds of every state of a call.
THEOREM Invariance == Spec => []IInv
<1>1. IInv /\ [Next]_vars => IInv'
  BY EnvironmentStep, CoroutineStep, StutterStep DEF Next
<1>2. QED
  BY InitIInv, <1>1, PTL DEF Spec

\* Every variable keeps its type.
THEOREM TypeCorrect == Spec => []TypeOK
<1>1. IInv => TypeOK
  BY DEF IInv
<1>2. QED
  BY Invariance, <1>1, PTL

\* A result not marked truncated is made from all the last stage wrote or will
\* write; one marked truncated from exactly max_bytes of a longer output.
\* rstrip("\n") then takes the newlines at the end off the text.
THEOREM ResultsAreComplete == Spec => []NoSilentLoss
<1>1. IInv => NoSilentLoss
  BY OutputIsComplete DEF IInv, EnvelopeKept, NoSilentLoss
<1>2. QED
  BY Invariance, <1>1, PTL

\* A call that returned leaves neither an unkilled stage nor a reader.
THEOREM NothingOutlivesACall == Spec => []NothingLeftRunning
<1>1. IInv => NothingLeftRunning
  BY DEF IInv
<1>2. QED
  BY Invariance, <1>1, PTL

\* A call that returned has closed its pipe ends, unless a binary was missing.
THEOREM PipeEndsAreClosed == Spec => []EndsClosed
<1>1. IInv => EndsClosed
  BY DEF IInv
<1>2. QED
  BY Invariance, <1>1, PTL

\* Unless timers fire late, a pipeline warns of every stage that failed and of
\* no other, and never turns a failure of the last stage into a result.
THEOREM FailuresAreTold ==
  ASSUME "slow" \notin Quirks
  PROVE  Spec => []NoFailureHidden
<1>1. IInv => NoFailureHidden
  BY DEF IInv, StatusesKnown
<1>2. QED
  BY Invariance, <1>1, PTL


-----------------------------------------------------------------------------
(* run_pipeline implements the contract of ToolCall.                       *)

\* The answer of a call that ended in an envelope is honest.
LEMMA ReplyStep ==
  ASSUME IInv, IInv', pc \notin {"returned", "raised", "cancelled"},
         pc' = "returned", reply'.status \in {"success", "error"},
         UNCHANGED <<os, code, killed, wrote, over, got>>,
         reply'.status = "success" => task[Out] = "done"
  PROVE  Contract!CReply
<1> USE PipelineFacts
<1>1. phaseOf = "running" /\ phaseOf' = "replied"
  BY DEF phaseOf
<1>2. liveOf = {} /\ UNCHANGED <<liveOf, wrote, code[N]>>
  BY DEF IInv, NothingLeftRunning, liveOf
<1>3. Contract!Honest(reply')
  <2>1. reply'.status = "success" =>
          /\ reply'.size = got[Out] /\ reply'.truncated = over[Out]
          /\ ~over[Out] => got[Out] = wrote
          /\ over[Out] => got[Out] = MaxBytes /\ wrote > MaxBytes
    BY OutputIsComplete DEF IInv, EnvelopeKept
  <2>2. /\ reply'.exit \in {"none", code[N]}
        /\ reply'.status = "success" => reply'.exit = "ok" \/ reply'.truncated
        /\ reply'.status = "error" => reply'.exit # "ok" /\ ~reply'.truncated
    BY DEF IInv, EnvelopeKept
  <2>3. QED
    BY <2>1, <2>2 DEF Contract!Honest
<1>4. QED
  BY <1>1, <1>2, <1>3 DEF Contract!CReply

\* Stages are signalled.
LEMMA StopStep ==
  ASSUME IInv, NEW S, SignalKill(S), UNCHANGED <<phaseOf, os, wrote, code, reply>>
  PROVE  Contract!CStop
<1>1. liveOf' \in SUBSET liveOf
  BY SignalKillIsFinal DEF liveOf, IInv
<1>2. liveOf' = liveOf \ (liveOf \ liveOf')
  BY <1>1
<1>3. QED
  BY <1>1, <1>2 DEF Contract!CStop

\* The stages and the event loop: written bytes, the end of a stage, or nothing.
LEMMA EnvironmentImplements ==
  ASSUME IInv, Environment
  PROVE  [Contract!CNext]_Contract!cvars
<1> USE DEF callVars
<1>1. UNCHANGED callVars /\ UNCHANGED phaseOf /\ liveOf = Live /\ liveOf' = Live'
  BY DEF Environment, phaseOf, liveOf, Live
<1>2. CASE Wrote
  <2>1. ~Contract!Complete
    BY <1>2, OutputIsComplete
    DEF Wrote, Contract!Complete, phaseOf, IInv, EnvelopeKept
  <2>2. Contract!CWrite
    BY <1>1, <1>2, <2>1 DEF Wrote, Contract!CWrite
  <2>3. QED
    BY <2>2 DEF Contract!CNext
<1>3. CASE Finished
  BY <1>1, <1>3 DEF Finished, Contract!CEnd, Contract!CNext
<1>4. CASE Unseen
  <2>1. liveOf' = liveOf \ (liveOf \ liveOf')
    BY <1>1, <1>4 DEF Unseen
  <2>2. Contract!CStop
    BY <1>1, <1>4, <2>1 DEF Unseen, Contract!CStop
  <2>3. QED
    BY <2>2 DEF Contract!CNext
<1>5. QED
  BY <1>2, <1>3, <1>4, EnvironmentFromOutside DEF IInv, Environment

\* Starting the stages: each is started once, until one of them cannot be.
LEMMA SpawningImplements ==
  ASSUME IInv, IInv',
         Unhealthy \/ AllHealthy \/ SpawnStage \/ SpawnNotFound \/ SpawnRaises
  PROVE  [Contract!CNext]_Contract!cvars
<1> USE PipelineFacts DEF procVars, streamVars
<1>1. CASE Unhealthy
  <2>1. reply'.status = "error"
    BY <1>1 DEF Unhealthy, Failure, Envelope
  <2>2. Contract!CReply
    BY <1>1, <2>1, ReplyStep DEF Unhealthy, Still
  <2>3. QED
    BY <2>2 DEF Contract!CNext
<1>2. CASE AllHealthy
  BY <1>2 DEF AllHealthy, Still, phaseOf, liveOf, Contract!cvars
<1>3. CASE SpawnStage
  <2>1. k \in Stages /\ os \in [Stages -> {"none", "running", "exited"}]
    BY DEF IInv, TypeOK, SubprocessTypeOK, ProcTypeOK
  <2>2. liveOf' = liveOf \cup {k} \/ liveOf' = liveOf
    BY <1>3, <2>1 DEF SpawnStage, liveOf
  <2>3. pc = "spawn" /\ pc' \in {"spawn", "stdout"} /\ UNCHANGED <<wrote, code, reply>>
    BY <1>3 DEF SpawnStage
  <2>4. phaseOf = "running" /\ phaseOf' = "running"
    BY <2>3 DEF phaseOf
  <2>5. QED
    BY <2>1, <2>2, <2>3, <2>4 DEF Contract!CStart, Contract!CNext, Contract!cvars
<1>4. CASE SpawnNotFound /\ k = 1
  <2>1. reply'.status = "error"
    <3>1. reply' = Failure("not found")
      BY <1>4 DEF SpawnNotFound
    <3>2. QED
      BY <3>1 DEF Failure, Envelope
  <2>2. Contract!CReply
    BY <1>4, <2>1, ReplyStep DEF SpawnNotFound
  <2>3. QED
    BY <2>2 DEF Contract!CNext
<1>5. CASE SpawnNotFound /\ k # 1
  <2>1. SignalKill({1}) /\ UNCHANGED <<phaseOf, os, wrote, code, reply>>
    BY <1>5 DEF SpawnNotFound, phaseOf
  <2>2. QED
    BY <2>1, StopStep DEF Contract!CNext
<1>6. CASE SpawnRaises
  <2>1. Contract!CGiveUp
    BY <1>6 DEF SpawnRaises, phaseOf, liveOf, Contract!CGiveUp
  <2>2. QED
    BY <2>1 DEF Contract!CNext
<1>7. QED
  BY <1>1, <1>2, <1>3, <1>4, <1>5, <1>6

\* Ending the stages: they are signalled, waited for, and then the call answers.
LEMMA EndingImplements ==
  ASSUME IInv, IInv',
         \/ GotStdout \/ GotOverflow \/ StdoutTimeout \/ KillNext \/ AllKilled
         \/ DrainChunk \/ Drained \/ TruncReaped \/ GotStderr \/ StderrTimeout
         \/ StageEnded \/ StageWaitTimeout \/ StageReaped \/ Cancelled
  PROVE  [Contract!CNext]_Contract!cvars
<1> USE PipelineFacts DEF procVars, streamVars
<1>1. CASE GotOverflow \/ StdoutTimeout \/ KillNext \/ StageWaitTimeout
  <2>1. /\ \E S : SignalKill(S)
        /\ UNCHANGED <<phaseOf, os, wrote, code, reply>>
    BY <1>1 DEF GotOverflow, StdoutTimeout, KillNext, StageWaitTimeout, phaseOf
  <2>2. QED
    BY <2>1, StopStep DEF Contract!CNext
<1>2. CASE GotStdout \/ DrainChunk \/ Drained \/ TruncReaped \/ GotStderr \/ StderrTimeout
  <2>1. UNCHANGED <<phaseOf, os, killed, wrote, code, reply>>
    BY <1>2 DEF GotStdout, DrainChunk, Drained, TruncReaped, GotStderr, StderrTimeout,
                Still, callVars, phaseOf
  <2>2. QED
    BY <2>1 DEF liveOf, Contract!cvars
<1>3. CASE AllKilled
  <2>1. reply'.status = "error"
    BY <1>3 DEF AllKilled, Failure, Envelope
  <2>2. Contract!CReply
    BY <1>3, <2>1, ReplyStep DEF AllKilled
  <2>3. QED
    BY <2>2 DEF Contract!CNext
<1>4. CASE StageEnded \/ StageReaped
  <2>1. /\ pc \in {"wait", "wait_reap"} /\ StageDone /\ task[Out] = "done"
        /\ UNCHANGED <<os, killed, code, wrote, over, got>>
    BY <1>4 DEF StageEnded, StageReaped, IInv, ReadersAtAwait, OutputRead
  <2>2. CASE k < N
    BY <2>1, <2>2 DEF StageDone, phaseOf, liveOf, Contract!cvars
  <2>3. CASE ~(k < N)
    <3>1. pc' = "returned" /\ reply' = Result
      BY <2>1, <2>3 DEF StageDone
    <3>2. reply'.status \in {"success", "error"}
      BY <3>1 DEF Result, Envelope
    <3>3. Contract!CReply
      BY <2>1, <3>1, <3>2, ReplyStep
    <3>4. QED
      BY <3>3 DEF Contract!CNext
  <2>4. QED
    BY <2>2, <2>3
<1>5. CASE Cancelled
  <2>1. Contract!CGiveUp
    BY <1>5 DEF Cancelled, phaseOf, liveOf, Contract!CGiveUp
  <2>2. QED
    BY <2>1 DEF Contract!CNext
<1>6. QED
  BY <1>1, <1>2, <1>3, <1>4, <1>5

\* Seen from outside, run_pipeline does nothing but what the contract of ToolCall
\* allows: it answers once, honestly, with nothing left running unattended.
THEOREM KeepsTheContract == Spec => ImplementsContract
<1>1. Init => Contract!CInit
  BY PipelineFacts DEF Init, SubprocessInit, Contract!CInit, phaseOf, liveOf, NoReply,
     Envelope, Contract!NoReply
<1>2. IInv /\ IInv' /\ [Next]_vars => [Contract!CNext]_Contract!cvars
  <2>1. ASSUME UNCHANGED vars PROVE UNCHANGED Contract!cvars
    BY <2>1 DEF vars, procVars, streamVars, callVars, Contract!cvars, phaseOf, liveOf
  <2>2. QED
    BY <2>1, EnvironmentImplements, SpawningImplements, EndingImplements DEF Next, Untimed
<1>3. QED
  BY <1>1, <1>2, Invariance, PTL DEF Spec, ImplementsContract, Contract!CSpec
=============================================================================
