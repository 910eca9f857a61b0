----------------------------- MODULE Subprocess -----------------------------
(***************************************************************************)
(* What the executor (cli_mcp/cli_executor.py) runs on: the stages of one  *)
(* call as operating-system processes, the pipes they write to, asyncio's  *)
(* StreamReaders and Process objects, and the helper coroutines of the     *)
(* executor that work on one process or one stream.                        *)
(*                                                                         *)
(* A call has stages 1..N (N = 1 for run_tool).  Stream 0 is the stdout of *)
(* the last stage; stream i is the stderr of stage i; both have the parent *)
(* at the read end.  Link(i) is the os.pipe() between stages i and i+1,    *)
(* whose bytes the server never sees: only who holds its write end counts. *)
(* Bytes are counted, not stored.                                          *)
(***************************************************************************)
EXTENDS Integers

CONSTANTS
  N,          \* number of stages
  MaxBytes,   \* max_bytes of the last stage's catalog entry
  StderrCap,  \* STDERR_CAP_BYTES
  PipeCap,    \* bytes a kernel pipe holds before a writer blocks
  BufCap,     \* bytes a StreamReader holds before its transport stops reading
  Quirks      \* what may happen around the call, a subset of AllQuirks

(***************************************************************************)
(* close  a stage may close its stdout or stderr and keep running          *)
(* fork   a stage may leave descendants behind that hold its pipes         *)
(* flood  a stage may write more than StderrCap bytes to its stderr        *)
(* slow   a 2 s timer may fire before the event loop has caught up with a  *)
(*        kill, an exit or bytes already written                           *)
(* cancel the task that runs the call may be cancelled at an await         *)
(***************************************************************************)
AllQuirks == {"close", "fork", "flood", "slow", "cancel"}

ASSUME SubprocessAssumption ==
  /\ N \in Nat \ {0}
  /\ MaxBytes \in Nat
  /\ StderrCap \in Nat
  /\ PipeCap \in Nat \ {0}
  /\ BufCap \in Nat \ {0}
  /\ Quirks \subseteq AllQuirks

VARIABLES
  os,      \* stage -> "none" | "running" | "exited"
  code,    \* stage -> how the process ended
  rc,      \* stage -> Process.returncode, "none" until the exit is noticed
  killed,  \* stage -> SIGKILL has been sent
  holds,   \* stage -> write ends the stage process itself has open
  orphan,  \* write ends that descendants of the stages have open
  pipe,    \* stream -> bytes in the kernel pipe
  buf,     \* stream -> bytes in the StreamReader
  eof,     \* stream -> the read transport has seen EOF and disconnected
  task,    \* stream -> the _read_capped task, if any
  got,     \* stream -> bytes that task has collected
  over,    \* stream -> the task read a byte beyond its cap
  wrote,   \* history: bytes ever written to stream 0, counted to MaxBytes + 1
  waiter   \* the pending Process.wait() was called before the exit was noticed

procVars   == <<os, code, rc, killed, holds, orphan>>
streamVars == <<pipe, buf, eof, task, got, over, wrote>>

-----------------------------------------------------------------------------

Out     == 0
Stages  == 1..N
Streams == 0..N
Link(i) == -i
Ends    == -N..N

Cap(s) == IF s = Out THEN MaxBytes ELSE StderrCap

\* The stage whose process was created with stream s, and back.
StageOf(s) == IF s = Out THEN N ELSE s
ReadBy(i)  == {s \in Streams : StageOf(s) = i}
Own(i)     == ReadBy(i) \cup (IF i = N THEN {} ELSE {Link(i)})

HeldBy(e) == e \in orphan \/ \E i \in Stages : e \in holds[i]

Codes == {"none", "ok", "fail", "kill"}

ProcTypeOK ==
  /\ os     \in [Stages -> {"none", "running", "exited"}]
  /\ code   \in [Stages -> Codes]
  /\ rc     \in [Stages -> Codes]
  /\ killed \in [Stages -> BOOLEAN]
  /\ holds  \in [Stages -> SUBSET Ends]
  /\ orphan \in SUBSET Ends

StreamTypeOK ==
  /\ pipe   \in [Streams -> 0..PipeCap]
  /\ buf    \in [Streams -> 0..BufCap]
  /\ eof    \in [Streams -> BOOLEAN]
  /\ task   \in [Streams -> {"none", "reading", "done", "cancelled"}]
  /\ got    \in [Streams -> Nat] /\ \A s \in Streams : got[s] <= Cap(s)
  /\ over   \in [Streams -> BOOLEAN]
  /\ wrote  \in 0..(MaxBytes + 1)

SubprocessTypeOK == ProcTypeOK /\ StreamTypeOK /\ waiter \in BOOLEAN

SubprocessInit ==
  /\ os     = [i \in Stages |-> "none"]
  /\ code   = [i \in Stages |-> "none"]
  /\ rc     = [i \in Stages |-> "none"]
  /\ killed = [i \in Stages |-> FALSE]
  /\ holds  = [i \in Stages |-> {}]
  /\ orphan = {}
  /\ pipe   = [s \in Streams |-> 0]
  /\ buf    = [s \in Streams |-> 0]
  /\ eof    = [s \in Streams |-> FALSE]
  /\ task   = [s \in Streams |-> "none"]
  /\ got    = [s \in Streams |-> 0]
  /\ over   = [s \in Streams |-> FALSE]
  /\ wrote  = 0
  /\ waiter = FALSE

-----------------------------------------------------------------------------
(* The tools: processes that may do anything at any time, or nothing.      *)

\* A stage, or a descendant of one, writes a byte; it blocks on a full pipe.
Write(s) ==
  /\ HeldBy(s)
  /\ pipe[s] < PipeCap
  /\ s = Out \/ "flood" \in Quirks \/ got[s] + buf[s] + pipe[s] < StderrCap
  /\ pipe' = [pipe EXCEPT ![s] = @ + 1]
  /\ wrote' = IF s = Out /\ wrote <= MaxBytes THEN wrote + 1 ELSE wrote
  /\ UNCHANGED <<buf, eof, task, got, over>>
  /\ UNCHANGED procVars

CloseEnd(i, e) ==
  /\ "close" \in Quirks
  /\ os[i] = "running" /\ e \in holds[i]
  /\ holds' = [holds EXCEPT ![i] = @ \ {e}]
  /\ UNCHANGED <<os, code, rc, killed, orphan>>
  /\ UNCHANGED streamVars

Fork(i) ==
  /\ "fork" \in Quirks
  /\ os[i] = "running"
  /\ orphan' = orphan \cup holds[i]
  /\ UNCHANGED <<os, code, rc, killed, holds>>
  /\ UNCHANGED streamVars

OrphanClose(e) ==
  /\ e \in orphan
  /\ orphan' = orphan \ {e}
  /\ UNCHANGED <<os, code, rc, killed, holds>>
  /\ UNCHANGED streamVars

Exit(i) ==
  /\ os[i] = "running"
  /\ os' = [os EXCEPT ![i] = "exited"]
  /\ holds' = [holds EXCEPT ![i] = {}]
  /\ \E c \in {"ok", "fail"} : code' = [code EXCEPT ![i] = c]
  /\ UNCHANGED <<rc, killed, orphan>>
  /\ UNCHANGED streamVars

\* SIGKILL takes effect: on the process itself, not on its descendants.
Die(i) ==
  /\ killed[i] /\ os[i] = "running"
  /\ os' = [os EXCEPT ![i] = "exited"]
  /\ holds' = [holds EXCEPT ![i] = {}]
  /\ code' = [code EXCEPT ![i] = "kill"]
  /\ UNCHANGED <<rc, killed, orphan>>
  /\ UNCHANGED streamVars

Tools ==
  \/ \E s \in Streams : Write(s)
  \/ \E i \in Stages : Fork(i) \/ Exit(i) \/ \E e \in Own(i) : CloseEnd(i, e)
  \/ \E e \in Ends : OrphanClose(e)

-----------------------------------------------------------------------------
(* asyncio: pipes are pumped into StreamReaders until a reader is full,    *)
(* EOF is seen only by a transport that is still reading, and the exit     *)
(* status arrives on its own.                                              *)

CanPump(s) == pipe[s] > 0 /\ buf[s] < BufCap
CanSeeEof(s) ==
  /\ ~eof[s] /\ os[StageOf(s)] # "none"
  /\ ~HeldBy(s) /\ pipe[s] = 0 /\ buf[s] < BufCap

Pump(s) ==
  /\ CanPump(s)
  /\ pipe' = [pipe EXCEPT ![s] = @ - 1]
  /\ buf'  = [buf EXCEPT ![s] = @ + 1]
  /\ UNCHANGED <<eof, task, got, over, wrote>>
  /\ UNCHANGED procVars

SeeEof(s) ==
  /\ CanSeeEof(s)
  /\ eof' = [eof EXCEPT ![s] = TRUE]
  /\ UNCHANGED <<pipe, buf, task, got, over, wrote>>
  /\ UNCHANGED procVars

Notice(i) ==
  /\ os[i] = "exited" /\ rc[i] = "none"
  /\ rc' = [rc EXCEPT ![i] = code[i]]
  /\ UNCHANGED <<os, code, killed, holds, orphan>>
  /\ UNCHANGED streamVars

-----------------------------------------------------------------------------
(* Helpers of the executor.                                                *)

\* A mutant of ReadCapped: every read asks for as much as there is.
ReadCapped_AsksTooMuch(s) ==
  /\ task[s] = "reading"
  /\ \/ /\ got[s] < Cap(s) /\ buf[s] > 0
        /\ got' = [got EXCEPT ![s] = @ + buf[s]]
        /\ buf' = [buf EXCEPT ![s] = 0]
        /\ UNCHANGED <<task, over>>
     \/ /\ got[s] >= Cap(s) /\ buf[s] > 0
        /\ buf'  = [buf EXCEPT ![s] = @ - 1]
        /\ over' = [over EXCEPT ![s] = TRUE]
        /\ task' = [task EXCEPT ![s] = "done"]
        /\ UNCHANGED got
     \/ /\ buf[s] = 0 /\ eof[s]
        /\ task' = [task EXCEPT ![s] = "done"]
        /\ UNCHANGED <<got, buf, over>>
  /\ UNCHANGED <<pipe, eof, wrote>>
  /\ UNCHANGED procVars

\* A mutant of ReadCapped: the byte beyond the cap is never probed for.
ReadCapped_NoProbe(s) ==
  /\ task[s] = "reading"
  /\ \/ /\ got[s] < Cap(s) /\ buf[s] > 0
        /\ LET room  == Cap(s) - got[s]
               chunk == IF buf[s] < room THEN buf[s] ELSE room
           IN /\ got' = [got EXCEPT ![s] = @ + chunk]
              /\ buf' = [buf EXCEPT ![s] = @ - chunk]
        /\ UNCHANGED <<task, over>>
     \/ /\ got[s] >= Cap(s) \/ (buf[s] = 0 /\ eof[s])
        /\ task' = [task EXCEPT ![s] = "done"]
        /\ UNCHANGED <<got, buf, over>>
  /\ UNCHANGED <<pipe, eof, wrote>>
  /\ UNCHANGED procVars

\* One resumption of _read_capped(stream, cap): take what is buffered up to
\* the cap; at the cap, one more byte means truncated; EOF ends either read.
ReadCapped(s) ==
  /\ task[s] = "reading"
  /\ \/ /\ got[s] < Cap(s) /\ buf[s] > 0
        /\ LET room  == Cap(s) - got[s]
               chunk == IF buf[s] < room THEN buf[s] ELSE room
           IN /\ got' = [got EXCEPT ![s] = @ + chunk]
              /\ buf' = [buf EXCEPT ![s] = @ - chunk]
        /\ UNCHANGED <<task, over>>
     \/ /\ got[s] >= Cap(s) /\ buf[s] > 0
        /\ buf'  = [buf EXCEPT ![s] = @ - 1]
        /\ over' = [over EXCEPT ![s] = TRUE]
        /\ task' = [task EXCEPT ![s] = "done"]
        /\ UNCHANGED got
     \/ /\ buf[s] = 0 /\ eof[s]
        /\ task' = [task EXCEPT ![s] = "done"]
        /\ UNCHANGED <<got, buf, over>>
  /\ UNCHANGED <<pipe, eof, wrote>>
  /\ UNCHANGED procVars

EventLoop ==
  \/ \E s \in Streams : Pump(s) \/ SeeEof(s) \/ ReadCapped(s)
  \/ \E i \in Stages : Notice(i) \/ Die(i)

\* Task.cancel(): a task that has finished keeps its result.
Cancel(S) ==
  task' = [s \in Streams |-> IF s \in S /\ task[s] = "reading"
                             THEN "cancelled" ELSE task[s]]

\* _signal_kill(proc) for every proc of S: only one whose exit is unknown.
SignalKill(S) ==
  killed' = [i \in Stages |-> killed[i] \/ (i \in S /\ rc[i] = "none")]

\* Calling proc.wait(): it returns at once when returncode is set ...
StartWait(i) == waiter' = (rc[i] = "none")

\* ... and otherwise only once every pipe of the process has disconnected.
WaitReturns(i) == waiter => (rc[i] # "none" /\ \A s \in ReadBy(i) : eof[s])

\* The event loop has nothing left to do about what already happened.
CaughtUp ==
  /\ \A i \in Stages : /\ killed[i] => os[i] # "running"
                       /\ os[i] = "exited" => rc[i] # "none"
  /\ \A s \in Streams : /\ ~CanPump(s) /\ ~CanSeeEof(s)
                        /\ task[s] = "reading" => (buf[s] = 0 /\ ~eof[s])

\* A timer of REAP_TIMEOUT_SECONDS, or of the literal 2 s, may expire.
ShortTimer == "slow" \in Quirks \/ CaughtUp

-----------------------------------------------------------------------------
(* What holds of the layer whoever uses it, as an inductive invariant.     *)

\* A stage owns its pipe ends while it runs, has a status once it has ended,
\* and a pipe is not at EOF before its process exists.
Lifecycle ==
  \A i \in Stages :
    /\ os[i] # "running" => holds[i] = {}
    /\ os[i] = "exited" <=> code[i] # "none"
    /\ os[i] = "none" => \A s \in ReadBy(i) : ~eof[s]

\* returncode is never a guess.
ExitKnown ==
  \A i \in Stages : rc[i] # "none" => os[i] = "exited" /\ rc[i] = code[i]

\* EOF is never seen early and is final.
EofIsFinal == \A s \in Streams : eof[s] => pipe[s] = 0 /\ ~HeldBy(s)

\* Every byte written to stdout is in the pipe, in the reader or collected,
\* until one was read beyond the cap.
Conserved ==
  LET held == pipe[Out] + buf[Out] + got[Out]
  IN /\ ~over[Out] /\ wrote <= MaxBytes => held = wrote
     /\ ~over[Out] /\ wrote > MaxBytes => held > MaxBytes
     /\ over[Out] => got[Out] = MaxBytes /\ wrote > MaxBytes

\* A reader ends past the cap, or at EOF with nothing left to read.
ReaderEnds ==
  /\ over[Out] => task[Out] = "done"
  /\ task[Out] = "done" /\ ~over[Out] => eof[Out] /\ buf[Out] = 0

Plumbing ==
  /\ SubprocessTypeOK
  /\ Lifecycle /\ ExitKnown /\ EofIsFinal /\ Conserved /\ ReaderEnds

\* Stages that neither close a pipe early nor leave descendants behind.
PipesUntilExit ==
  /\ orphan = {}
  /\ \A i \in Stages : os[i] = "running" => holds[i] = Own(i)
=============================================================================
