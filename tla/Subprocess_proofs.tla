-------------------------- MODULE Subprocess_proofs --------------------------
(***************************************************************************)
(* What the processes and the event loop keep true, for every number of    *)
(* stages, every cap, pipe and reader size, and whatever the tools do: the *)
(* facts that the proofs about run_tool and run_pipeline share.            *)
(***************************************************************************)
EXTENDS Subprocess, TLAPS

USE SubprocessAssumption

\* Stages are streams too (their stderr), and every stream has its stage.
LEMMA IndexFacts ==
  /\ N \in Nat /\ N >= 1 /\ MaxBytes \in Nat /\ StderrCap \in Nat
  /\ PipeCap \in Nat /\ PipeCap >= 1 /\ BufCap \in Nat /\ BufCap >= 1
  /\ Out \in Streams /\ N \in Stages /\ 1 \in Stages /\ Stages \subseteq Streams
  /\ Out \notin Stages /\ Streams \subseteq Ends
  /\ \A s \in Streams : StageOf(s) \in Stages /\ Cap(s) \in Nat
  /\ Cap(Out) = MaxBytes /\ StageOf(Out) = N
  /\ \A i \in Stages : Own(i) \subseteq Ends /\ ReadBy(i) \subseteq Streams
  /\ \A i \in Stages, s \in Streams : /\ s \in Own(i) <=> StageOf(s) = i
                                      /\ s \in ReadBy(i) <=> StageOf(s) = i
BY DEF Stages, Streams, Out, Ends, StageOf, Cap, ReadBy, Own, Link

-----------------------------------------------------------------------------
(* Steps of the tools.                                                     *)

\* A byte is only written while EOF has not been seen, so it is counted.
LEMMA WritePlumbing ==
  ASSUME Plumbing, NEW s \in Streams, Write(s), UNCHANGED waiter
  PROVE  Plumbing'
<1> USE IndexFacts DEF Plumbing, SubprocessTypeOK, procVars, Write
<1>1. SubprocessTypeOK'
  BY DEF ProcTypeOK, StreamTypeOK, Codes
<1>2. Lifecycle' /\ ExitKnown'
  BY DEF Lifecycle, ExitKnown
<1>3. EofIsFinal'
  BY DEF StreamTypeOK, EofIsFinal, HeldBy
<1>4. Conserved' /\ ReaderEnds'
  BY DEF StreamTypeOK, Conserved, ReaderEnds, EofIsFinal
<1>5. QED
  BY <1>1, <1>2, <1>3, <1>4

\* A step that only moves processes on, gives no pipe a new kind of holder and
\* tells the server nothing.
LEMMA ProcessPlumbing ==
  ASSUME Plumbing, UNCHANGED <<streamVars, waiter, rc, killed>>, ProcTypeOK',
         Lifecycle',
         \A i \in Stages : os[i] = "exited" => os'[i] = "exited" /\ code'[i] = code[i],
         \A e \in Ends : HeldBy(e)' => HeldBy(e)
  PROVE  Plumbing'
<1> USE IndexFacts DEF Plumbing, SubprocessTypeOK, streamVars
<1>1. SubprocessTypeOK' /\ Lifecycle'
  BY DEF StreamTypeOK
<1>2. ExitKnown'
  BY DEF ExitKnown
<1>3. EofIsFinal'
  BY DEF EofIsFinal
<1>4. Conserved' /\ ReaderEnds'
  BY DEF Conserved, ReaderEnds
<1>5. QED
  BY <1>1, <1>2, <1>3, <1>4

\* The holders of a pipe become fewer.
LEMMA CloseEndPlumbing ==
  ASSUME Plumbing, NEW i \in Stages, NEW e \in Own(i), CloseEnd(i, e), UNCHANGED waiter
  PROVE  Plumbing'
<1> USE IndexFacts DEF Plumbing, SubprocessTypeOK, ProcTypeOK, CloseEnd
<1>1. ProcTypeOK'
  OBVIOUS
<1>2. Lifecycle'
  BY DEF Lifecycle, streamVars
<1>3. \A x \in Ends : HeldBy(x)' => HeldBy(x)
  BY DEF HeldBy
<1>4. QED
  BY <1>1, <1>2, <1>3, ProcessPlumbing DEF streamVars

\* A descendant holds only what the tool held.
LEMMA ForkPlumbing ==
  ASSUME Plumbing, NEW i \in Stages, Fork(i), UNCHANGED waiter
  PROVE  Plumbing'
<1> USE IndexFacts DEF Plumbing, SubprocessTypeOK, ProcTypeOK, Fork
<1>1. ProcTypeOK'
  OBVIOUS
<1>2. Lifecycle'
  BY DEF Lifecycle, streamVars
<1>3. \A x \in Ends : HeldBy(x)' => HeldBy(x)
  BY DEF HeldBy
<1>4. QED
  BY <1>1, <1>2, <1>3, ProcessPlumbing DEF streamVars

LEMMA OrphanClosePlumbing ==
  ASSUME Plumbing, NEW e \in Ends, OrphanClose(e), UNCHANGED waiter
  PROVE  Plumbing'
<1> USE IndexFacts DEF Plumbing, SubprocessTypeOK, ProcTypeOK, OrphanClose
<1>1. ProcTypeOK'
  OBVIOUS
<1>2. Lifecycle'
  BY DEF Lifecycle, streamVars
<1>3. \A x \in Ends : HeldBy(x)' => HeldBy(x)
  BY DEF HeldBy
<1>4. QED
  BY <1>1, <1>2, <1>3, ProcessPlumbing DEF streamVars

\* A process ends, of itself or killed; the server does not know yet.
LEMMA EndPlumbing ==
  ASSUME Plumbing, NEW i \in Stages, Exit(i) \/ Die(i), UNCHANGED waiter
  PROVE  Plumbing'
<1> USE IndexFacts DEF Plumbing, SubprocessTypeOK, ProcTypeOK
<1>1. PICK c \in {"ok", "fail", "kill"} :
         /\ os[i] = "running"
         /\ os' = [os EXCEPT ![i] = "exited"]
         /\ holds' = [holds EXCEPT ![i] = {}]
         /\ code' = [code EXCEPT ![i] = c]
         /\ UNCHANGED <<rc, killed, orphan, streamVars>>
  BY DEF Exit, Die
<1>2. ProcTypeOK'
  BY <1>1 DEF Codes
<1>3. Lifecycle'
  BY <1>1 DEF Lifecycle, streamVars
<1>4. \A x \in Ends : HeldBy(x)' => HeldBy(x)
  BY <1>1 DEF HeldBy
<1>5. \A j \in Stages : os[j] = "exited" => os'[j] = "exited" /\ code'[j] = code[j]
  BY <1>1
<1>6. QED
  BY <1>1, <1>2, <1>3, <1>4, <1>5, ProcessPlumbing

-----------------------------------------------------------------------------
(* Steps of the event loop.                                                *)

\* returncode is taken from the process that exited.
LEMMA NoticePlumbing ==
  ASSUME Plumbing, NEW i \in Stages, Notice(i), UNCHANGED waiter
  PROVE  Plumbing'
<1> USE IndexFacts DEF Plumbing, SubprocessTypeOK, streamVars, Notice
<1>1. SubprocessTypeOK'
  BY DEF ProcTypeOK, StreamTypeOK
<1>2. Lifecycle' /\ ExitKnown'
  BY DEF ProcTypeOK, Lifecycle, ExitKnown
<1>3. EofIsFinal' /\ Conserved' /\ ReaderEnds'
  BY DEF EofIsFinal, HeldBy, Conserved, ReaderEnds
<1>4. QED
  BY <1>1, <1>2, <1>3

\* A byte moves from the pipe to the reader: none is lost.
LEMMA PumpPlumbing ==
  ASSUME Plumbing, NEW s \in Streams, Pump(s), UNCHANGED waiter
  PROVE  Plumbing'
<1> USE IndexFacts DEF Plumbing, SubprocessTypeOK, procVars, Pump, CanPump
<1>1. SubprocessTypeOK'
  BY DEF ProcTypeOK, StreamTypeOK
<1>2. Lifecycle' /\ ExitKnown'
  BY DEF Lifecycle, ExitKnown
<1>3. EofIsFinal'
  BY DEF StreamTypeOK, EofIsFinal, HeldBy
<1>4. Conserved' /\ ReaderEnds'
  BY DEF StreamTypeOK, Conserved, ReaderEnds, EofIsFinal
<1>5. QED
  BY <1>1, <1>2, <1>3, <1>4

\* EOF is seen only on an empty pipe that nobody holds.
LEMMA SeeEofPlumbing ==
  ASSUME Plumbing, NEW s \in Streams, SeeEof(s), UNCHANGED waiter
  PROVE  Plumbing'
<1> USE IndexFacts DEF Plumbing, SubprocessTypeOK, procVars, SeeEof, CanSeeEof
<1>1. SubprocessTypeOK'
  BY DEF ProcTypeOK, StreamTypeOK
<1>2. Lifecycle' /\ ExitKnown'
  BY DEF StreamTypeOK, Lifecycle, ExitKnown
<1>3. EofIsFinal'
  BY DEF StreamTypeOK, EofIsFinal, HeldBy
<1>4. Conserved' /\ ReaderEnds'
  BY DEF StreamTypeOK, Conserved, ReaderEnds
<1>5. QED
  BY <1>1, <1>2, <1>3, <1>4

\* A reader takes at most what the cap leaves room for; a byte read at the cap
\* proves that more than max_bytes were written; otherwise it ends at EOF.
LEMMA ReadCappedPlumbing ==
  ASSUME Plumbing, NEW s \in Streams, ReadCapped(s), UNCHANGED waiter
  PROVE  Plumbing'
<1> USE IndexFacts DEF Plumbing, SubprocessTypeOK, procVars
<1>1. /\ task[s] = "reading" /\ UNCHANGED <<pipe, eof, wrote, procVars, waiter>>
      /\ buf[s] \in 0..BufCap /\ got[s] \in Nat /\ got[s] <= Cap(s) /\ Cap(s) \in Nat
  BY DEF ReadCapped, StreamTypeOK
<1>2. ProcTypeOK' /\ waiter' \in BOOLEAN /\ Lifecycle' /\ ExitKnown' /\ EofIsFinal'
  BY <1>1 DEF ProcTypeOK, Lifecycle, ExitKnown, EofIsFinal, HeldBy
<1>3. CASE got[s] < Cap(s) /\ buf[s] > 0
  <2> DEFINE room == Cap(s) - got[s]
             n    == IF buf[s] < room THEN buf[s] ELSE room
  <2>1. n \in Nat /\ n <= buf[s] /\ got[s] + n <= Cap(s)
    BY <1>1, <1>3
  <2>2. /\ got' = [got EXCEPT ![s] = @ + n]
        /\ buf' = [buf EXCEPT ![s] = @ - n]
        /\ UNCHANGED <<pipe, eof, task, over, wrote>>
    BY <1>1, <1>3 DEF ReadCapped
  <2> HIDE DEF n
  <2>3. StreamTypeOK'
    BY <1>1, <2>1, <2>2 DEF StreamTypeOK
  <2>4. /\ buf'[Out] + got'[Out] = buf[Out] + got[Out]
        /\ s # Out => buf'[Out] = buf[Out] /\ got'[Out] = got[Out]
        /\ pipe[Out] \in Nat /\ buf[Out] \in Nat /\ got[Out] \in Nat
        /\ pipe'[Out] = pipe[Out] /\ buf'[Out] \in Nat /\ got'[Out] \in Nat
        /\ wrote \in Nat
    BY <1>1, <2>1, <2>2, <2>3 DEF StreamTypeOK
  <2>5. Conserved'
    BY <1>1, <2>2, <2>4 DEF Conserved, ReaderEnds
  <2>6. ReaderEnds'
    BY <1>1, <2>2, <2>4 DEF ReaderEnds
  <2>7. QED
    BY <1>2, <2>3, <2>5, <2>6
<1>4. CASE got[s] >= Cap(s) /\ buf[s] > 0
  <2>1. /\ buf'  = [buf EXCEPT ![s] = @ - 1]
        /\ over' = [over EXCEPT ![s] = TRUE]
        /\ task' = [task EXCEPT ![s] = "done"]
        /\ UNCHANGED <<pipe, eof, got, wrote>>
    BY <1>1, <1>4 DEF ReadCapped
  <2>2. StreamTypeOK'
    BY <1>1, <1>4, <2>1 DEF StreamTypeOK
  <2>3. Conserved' /\ ReaderEnds'
    BY <1>1, <1>4, <2>1 DEF StreamTypeOK, Conserved, ReaderEnds
  <2>4. QED
    BY <1>2, <2>2, <2>3
<1>5. CASE buf[s] = 0 /\ eof[s]
  <2>1. /\ task' = [task EXCEPT ![s] = "done"]
        /\ UNCHANGED <<pipe, buf, eof, got, over, wrote>>
    BY <1>1, <1>5 DEF ReadCapped
  <2>2. StreamTypeOK'
    BY <2>1 DEF StreamTypeOK
  <2>3. Conserved' /\ ReaderEnds'
    BY <1>1, <1>5, <2>1 DEF StreamTypeOK, Conserved, ReaderEnds
  <2>4. QED
    BY <1>2, <2>2, <2>3
<1>6. QED
  BY <1>3, <1>4, <1>5 DEF ReadCapped

LEMMA EnvironmentPlumbing ==
  ASSUME Plumbing, Tools \/ EventLoop, UNCHANGED waiter
  PROVE  Plumbing'
<1>1. CASE Tools
  BY <1>1, WritePlumbing, CloseEndPlumbing, ForkPlumbing, OrphanClosePlumbing,
     EndPlumbing DEF Tools
<1>2. CASE EventLoop
  BY <1>2, NoticePlumbing, PumpPlumbing, SeeEofPlumbing, ReadCappedPlumbing,
     EndPlumbing DEF EventLoop
<1>3. QED
  BY <1>1, <1>2

-----------------------------------------------------------------------------
(* What the environment leaves alone.  A proof about a coroutine cites     *)
(* this instead of going through the steps of tools and event loop again.  *)

EnvironmentKeeps ==
  /\ killed' = killed
  /\ \A i \in Stages :
       /\ os'[i] = "none" <=> os[i] = "none"
       /\ os'[i] = "running" => os[i] = "running"
       /\ os[i] = "exited" => os'[i] = "exited" /\ code'[i] = code[i]
       /\ rc[i] # "none" => rc'[i] = rc[i]
  /\ \A s \in Streams :
       /\ task'[s] = "reading" => task[s] = "reading"
       /\ task[s] # "reading" => /\ task'[s] = task[s]
                                 /\ got'[s] = got[s] /\ over'[s] = over[s]
       /\ ~HeldBy(s) => ~HeldBy(s)'
  /\ ~HeldBy(Out) => wrote' = wrote

LEMMA EnvironmentKeepsIt ==
  ASSUME Plumbing, Tools \/ EventLoop
  PROVE  EnvironmentKeeps
<1> USE IndexFacts DEF Plumbing, SubprocessTypeOK
<1>1. ASSUME NEW s \in Streams, Write(s) PROVE EnvironmentKeeps
  BY <1>1 DEF Write, procVars, HeldBy, EnvironmentKeeps
<1>2. ASSUME NEW i \in Stages, NEW e \in Own(i), CloseEnd(i, e) PROVE EnvironmentKeeps
  BY <1>2 DEF CloseEnd, streamVars, HeldBy, EnvironmentKeeps, ProcTypeOK
<1>3. ASSUME NEW i \in Stages, Fork(i) PROVE EnvironmentKeeps
  BY <1>3 DEF Fork, streamVars, HeldBy, EnvironmentKeeps, ProcTypeOK
<1>4. ASSUME NEW e \in Ends, OrphanClose(e) PROVE EnvironmentKeeps
  BY <1>4 DEF OrphanClose, streamVars, HeldBy, EnvironmentKeeps, ProcTypeOK
<1>5. ASSUME NEW i \in Stages, Exit(i) \/ Die(i) PROVE EnvironmentKeeps
  <2>1. /\ os[i] = "running" /\ os' = [os EXCEPT ![i] = "exited"]
        /\ holds' = [holds EXCEPT ![i] = {}]
        /\ \E c \in Codes : code' = [code EXCEPT ![i] = c]
        /\ UNCHANGED <<rc, killed, orphan, streamVars>>
    BY <1>5 DEF Exit, Die, Codes
  <2>2. QED
    BY <2>1 DEF streamVars, HeldBy, EnvironmentKeeps, ProcTypeOK
<1>6. ASSUME NEW s \in Streams, Pump(s) \/ SeeEof(s) PROVE EnvironmentKeeps
  BY <1>6 DEF Pump, SeeEof, procVars, HeldBy, EnvironmentKeeps
<1>7. ASSUME NEW s \in Streams, ReadCapped(s) PROVE EnvironmentKeeps
  <2>1. /\ task[s] = "reading" /\ task'[s] \in {"reading", "done"}
        /\ \A t \in Streams \ {s} : /\ task'[t] = task[t] /\ got'[t] = got[t]
                                    /\ over'[t] = over[t]
        /\ UNCHANGED <<pipe, eof, wrote, procVars>>
    BY <1>7 DEF ReadCapped, StreamTypeOK
  <2>2. QED
    BY <2>1 DEF procVars, HeldBy, EnvironmentKeeps
<1>8. ASSUME NEW i \in Stages, Notice(i) PROVE EnvironmentKeeps
  BY <1>8 DEF Notice, streamVars, HeldBy, EnvironmentKeeps, ProcTypeOK
<1>9. QED
  BY <1>1, <1>2, <1>3, <1>4, <1>5, <1>6, <1>7, <1>8 DEF Tools, EventLoop

\* Nobody but a running stage ever holds a pipe, unless by a quirk.
LEMMA EnvironmentIsTidy ==
  ASSUME Plumbing, PipesUntilExit, Quirks \cap {"close", "fork"} = {}, Tools \/ EventLoop
  PROVE  PipesUntilExit'
<1> USE IndexFacts DEF Plumbing, SubprocessTypeOK, PipesUntilExit
<1>1. ASSUME NEW i \in Stages, Exit(i) \/ Die(i) PROVE PipesUntilExit'
  <2>1. /\ os' = [os EXCEPT ![i] = "exited"] /\ holds' = [holds EXCEPT ![i] = {}]
        /\ UNCHANGED orphan
    BY <1>1 DEF Exit, Die
  <2>2. QED
    BY <2>1 DEF ProcTypeOK
<1>2. ASSUME NEW e \in Ends, OrphanClose(e) PROVE PipesUntilExit'
  BY <1>2 DEF OrphanClose
<1>3. ASSUME UNCHANGED <<os, holds, orphan>> PROVE PipesUntilExit'
  BY <1>3
<1>4. QED
  BY <1>1, <1>2, <1>3
  DEF Tools, EventLoop, Write, Fork, CloseEnd, Pump, SeeEof, ReadCapped, Notice, procVars

\* What a caller could notice of such a step: a byte of output, which only a
\* holder of stdout writes, the end of the last stage, or of some other.
Live == {i \in Stages : os[i] = "running" /\ ~killed[i]}

Wrote ==
  /\ HeldBy(Out) /\ wrote <= MaxBytes /\ wrote' = wrote + 1
  /\ Live' = Live /\ code'[N] = code[N]

Finished ==
  /\ code[N] = "none" /\ code'[N] \in {"ok", "fail", "kill"}
  /\ Live' = Live \ {N} /\ wrote' = wrote

Unseen ==
  /\ Live' \in SUBSET Live
  /\ code'[N] = code[N] /\ wrote' = wrote

LEMMA EnvironmentFromOutside ==
  ASSUME Plumbing, Tools \/ EventLoop
  PROVE  Wrote \/ Finished \/ Unseen
<1> USE IndexFacts DEF Live
<1>1. ASSUME NEW s \in Streams, Write(s) PROVE Wrote \/ Unseen
  BY <1>1 DEF Write, procVars, Wrote, Unseen
<1>2. ASSUME NEW i \in Stages, Exit(i) \/ Die(i) PROVE Finished \/ Unseen
  <2>1. /\ os[i] = "running" /\ os' = [os EXCEPT ![i] = "exited"]
        /\ \E c \in {"ok", "fail", "kill"} : code' = [code EXCEPT ![i] = c]
        /\ UNCHANGED <<killed, wrote>>
    BY <1>2 DEF Exit, Die, streamVars
  <2>2. /\ os \in [Stages -> {"none", "running", "exited"}] /\ code \in [Stages -> Codes]
        /\ code[i] = "none"
    BY <2>1 DEF Plumbing, SubprocessTypeOK, ProcTypeOK, Lifecycle
  <2>3. Live' = Live \ {i}
    BY <2>1, <2>2
  <2>4. QED
    BY <2>1, <2>2, <2>3 DEF Finished, Unseen
<1>3. ASSUME UNCHANGED <<os, killed, code, wrote>> PROVE Unseen
  BY <1>3 DEF Unseen
<1>4. QED
  BY <1>1, <1>2, <1>3
  DEF Tools, EventLoop, Fork, CloseEnd, OrphanClose, Pump, SeeEof, ReadCapped, Notice,
      procVars, streamVars

-----------------------------------------------------------------------------
(* What a coroutine does to the layer.                                     *)

\* Sending SIGKILL and cancelling readers that are not done breaks nothing.
LEMMA ControlPlumbing ==
  ASSUME Plumbing,
         UNCHANGED <<os, code, rc, holds, orphan, pipe, buf, eof, got, over, wrote>>,
         killed' \in [Stages -> BOOLEAN], waiter' \in BOOLEAN,
         task' = task \/ \E S \in SUBSET Streams : Cancel(S)
  PROVE  Plumbing'
<1> USE IndexFacts DEF Plumbing, SubprocessTypeOK
<1>1. /\ task' \in [Streams -> {"none", "reading", "done", "cancelled"}]
      /\ \A s \in Streams : task'[s] = "done" <=> task[s] = "done"
  BY DEF Cancel, StreamTypeOK
<1>2. SubprocessTypeOK'
  BY <1>1 DEF ProcTypeOK, StreamTypeOK
<1>3. Lifecycle' /\ ExitKnown' /\ EofIsFinal' /\ Conserved'
  BY DEF Lifecycle, ExitKnown, EofIsFinal, HeldBy, Conserved
<1>4. ReaderEnds'
  BY <1>1 DEF ReaderEnds
<1>5. QED
  BY <1>2, <1>3, <1>4

\* A process is created, its pipes not at EOF; its readers may be started.
LEMMA SpawnPlumbing ==
  ASSUME Plumbing, NEW i \in Stages, os[i] = "none",
         os' = [os EXCEPT ![i] = "running"], holds' = [holds EXCEPT ![i] = Own(i)],
         UNCHANGED <<code, rc, killed, orphan, waiter, pipe, buf, eof, got, over, wrote>>,
         task' \in [Streams -> {"none", "reading", "done", "cancelled"}],
         task[Out] = "none", task'[Out] \in {"none", "reading"}
  PROVE  Plumbing'
<1> USE IndexFacts DEF Plumbing, SubprocessTypeOK
<1>1. SubprocessTypeOK'
  BY DEF ProcTypeOK, StreamTypeOK
<1>2. Lifecycle' /\ ExitKnown'
  BY DEF Lifecycle, ExitKnown, ProcTypeOK
<1>3. EofIsFinal'
  <2> SUFFICES ASSUME NEW s \in Streams, eof[s] PROVE pipe[s] = 0 /\ ~HeldBy(s)'
    BY DEF EofIsFinal
  <2>1. s \notin Own(i)
    BY DEF Lifecycle
  <2>2. QED
    BY <2>1 DEF EofIsFinal, HeldBy, ProcTypeOK
<1>4. Conserved' /\ ReaderEnds'
  BY DEF Conserved, ReaderEnds
<1>5. QED
  BY <1>1, <1>2, <1>3, <1>4

\* Nothing has been created or read yet.
LEMMA InitPlumbing == SubprocessInit => Plumbing
<1> SUFFICES ASSUME SubprocessInit PROVE Plumbing
  OBVIOUS
<1> USE IndexFacts DEF SubprocessInit
<1>1. ProcTypeOK /\ waiter \in BOOLEAN
  BY DEF ProcTypeOK, Codes
<1>2. StreamTypeOK
  BY DEF StreamTypeOK
<1>3. Lifecycle /\ ExitKnown
  BY DEF Lifecycle, ExitKnown
<1>4. EofIsFinal /\ Conserved /\ ReaderEnds
  BY DEF EofIsFinal, Conserved, ReaderEnds
<1>5. QED
  BY <1>1, <1>2, <1>3, <1>4 DEF Plumbing, SubprocessTypeOK

\* A reader that ended within its cap has collected all that was written, and
\* nobody is left to write more; one that ended past it has cap bytes of more.
LEMMA OutputIsComplete ==
  ASSUME Plumbing, task[Out] = "done"
  PROVE  /\ ~over[Out] => got[Out] = wrote /\ ~HeldBy(Out)
         /\ over[Out] => got[Out] = MaxBytes /\ wrote > MaxBytes
<1> USE IndexFacts DEF Plumbing, SubprocessTypeOK
<1>1. CASE over[Out]
  BY <1>1 DEF Conserved
<1>2. CASE ~over[Out]
  <2>1. eof[Out] /\ buf[Out] = 0 /\ pipe[Out] = 0 /\ ~HeldBy(Out)
    BY <1>2 DEF ReaderEnds, EofIsFinal
  <2>2. got[Out] = wrote
    BY <1>2, <2>1 DEF StreamTypeOK, Conserved
  <2>3. QED
    BY <1>2, <2>1, <2>2
<1>3. QED
  BY <1>1, <1>2

\* Signalling a set of processes leaves each of them ended or signalled.
LEMMA SignalKillIsFinal ==
  ASSUME Plumbing, NEW S, SignalKill(S), UNCHANGED os
  PROVE  /\ killed' \in [Stages -> BOOLEAN]
         /\ \A i \in Stages : killed[i] => killed'[i]
         /\ \A i \in Stages : i \in S => os[i] = "exited" \/ killed'[i]
BY DEF Plumbing, SubprocessTypeOK, ProcTypeOK, ExitKnown, SignalKill

=============================================================================
