------------------------------ MODULE ToolCall ------------------------------
(***************************************************************************)
(* What a caller of cli_executor.run_tool or run_pipeline may rely on,     *)
(* without the pipes, readers, tasks and timers behind it: processes start *)
(* and stop, the last one writes output, and at most once the call answers *)
(* with an envelope that is honest about both.  RunTool and RunPipeline    *)
(* are shown to implement this contract.                                   *)
(***************************************************************************)
EXTENDS Integers

CONSTANTS
  Procs,      \* the processes of the call
  LastProc,   \* the one whose stdout is the result
  MaxOut      \* the cap on that stdout

VARIABLES
  phase,      \* "running" | "replied" | "raised" | "cancelled"
  live,       \* processes started, not ended and not sent SIGKILL
  written,    \* bytes the last process wrote, counted to MaxOut + 1
  ended,      \* how the last process ended, or "none"
  reply       \* the envelope, meaningful in phase "replied"

cvars == <<phase, live, written, ended, reply>>

NoReply == [status |-> "none", exit |-> "none", truncated |-> FALSE,
            size |-> 0, why |-> "none"]

\* A complete result is made from exactly what was written by a process that
\* succeeded; a truncated one says so and is made from the full MaxOut bytes;
\* a reported exit status is the real one.  (Bytes count before whitespace at
\* the ends of the text is stripped.)
Honest(r) ==
  /\ r.exit \in {"none", ended}
  /\ r.truncated => r.status = "success" /\ r.size = MaxOut /\ written > MaxOut
  /\ r.status = "success" /\ ~r.truncated => r.size = written /\ r.exit = "ok"
  /\ r.status = "error" => r.exit # "ok"

\* After a complete result there is nothing left to write.
Complete == phase = "replied" /\ reply.status = "success" /\ ~reply.truncated

-----------------------------------------------------------------------------

CInit ==
  /\ phase = "running" /\ live = {}
  /\ written = 0 /\ ended = "none" /\ reply = NoReply

CStart ==
  /\ phase = "running"
  /\ \E p \in Procs : live' = live \cup {p}
  /\ UNCHANGED <<phase, written, ended, reply>>

CWrite ==
  /\ ~Complete
  /\ written' = written + 1 /\ written <= MaxOut
  /\ UNCHANGED <<phase, live, ended, reply>>

\* SIGKILL is sent, or a process other than the last one ends.
CStop ==
  /\ \E P \in SUBSET live : live' = live \ P
  /\ UNCHANGED <<phase, written, ended, reply>>

CEnd ==
  /\ ended = "none" /\ ended' \in {"ok", "fail", "kill"}
  /\ live' = live \ {LastProc}
  /\ UNCHANGED <<phase, written, reply>>

\* The answer comes once, when nothing is left running unattended.
CReply ==
  /\ phase = "running" /\ phase' = "replied"
  /\ live = {}
  /\ Honest(reply')
  /\ UNCHANGED <<live, written, ended>>

CGiveUp ==
  /\ phase = "running" /\ phase' \in {"raised", "cancelled"}
  /\ UNCHANGED <<live, written, ended, reply>>

CNext == CStart \/ CWrite \/ CStop \/ CEnd \/ CReply \/ CGiveUp

CSpec == CInit /\ [][CNext]_cvars
=============================================================================
