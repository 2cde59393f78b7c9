------------------------------ MODULE RunExec ------------------------------
(***************************************************************************)
(* One command: run_exec of tools/commands.py, the process group it starts *)
(* (tools/proc_unix.py), the capped buffer its output goes to              *)
(* (tools/output.py), and the two tools that answer the model with the     *)
(* result.  A byte is a unit of output; nothing depends on its value.      *)
(*                                                                         *)
(* The shell may leave a job behind in its group, with or without the      *)
(* output pipe.  The pipe is at its end when nobody holds it.              *)
(***************************************************************************)
EXTENDS Integers, FiniteSets

CONSTANTS
  DefaultBytes, \* default_output_bytes
  MaxBytes,     \* max_output_bytes
  MaxWritten,   \* bound: what the group writes
  TaskCancels   \* whether the task that runs the command may be cancelled

ExecAssumption ==
  /\ DefaultBytes \in Nat \ {0} /\ MaxBytes \in Nat /\ DefaultBytes <= MaxBytes
  /\ MaxWritten \in Nat /\ TaskCancels \in BOOLEAN

VARIABLES
  tool,       \* "bash", "run_command", or "continue": run_command with continue_on_error
  requested,  \* the limit the model asked for
  shell,      \* "running", "exited" or "killed"
  code,       \* the exit status of the shell
  job,        \* "none", "holding" the pipe, "detached" from it, or "gone"
  reaped,     \* process.returncode is known
  written,    \* bytes written to the pipe
  consumed,   \* bytes the reader has taken out of it
  kept,       \* bytes in the capped buffer
  truncated,  \* capped_buffer._truncated
  reader,     \* "reading", "ended" (the stream), "done" or "cancelled"
  cancelled,  \* the run of the call is cancelled
  stage,      \* "waiting", "killing", "returned" or "abandoned"
  reason,     \* what run_exec returns: "none", "exit", "timeout" or "cancel"
  lateCut     \* the shell had been reaped when the command was cut short

vars == <<tool, requested, shell, code, job, reaped, written, consumed, kept, truncated,
          reader, cancelled, stage, reason, lateCut>>
group == <<shell, code, job, reaped>>
sink == <<consumed, kept, truncated>>
call == <<tool, requested>>

Lesser(a, b) == IF a <= b THEN a ELSE b

OutputLimit == IF requested <= 0 THEN DefaultBytes ELSE Lesser(requested, MaxBytes)

-----------------------------------------------------------------------------
(* The process group.                                                      *)

PipeHeld == shell = "running" \/ job = "holding"

Writes ==
  /\ PipeHeld /\ written < MaxWritten
  /\ written' = written + 1
  /\ UNCHANGED <<call, group, sink, reader, cancelled, stage, reason, lateCut>>

StartsJob ==
  /\ shell = "running" /\ job = "none"
  /\ job' \in {"holding", "detached"}
  /\ UNCHANGED <<call, shell, code, reaped, written, sink, reader, cancelled, stage, reason, lateCut>>

ShellExits ==
  /\ shell = "running"
  /\ shell' = "exited" /\ code' \in {0, 1}
  /\ UNCHANGED <<call, job, reaped, written, sink, reader, cancelled, stage, reason, lateCut>>

JobEnds ==
  /\ job \in {"holding", "detached"}
  /\ job' = "gone"
  /\ UNCHANGED <<call, shell, code, reaped, written, sink, reader, cancelled, stage, reason, lateCut>>

(* The loop learns of the exit.                                            *)
Reap ==
  /\ shell # "running" /\ ~reaped
  /\ reaped' = TRUE
  /\ UNCHANGED <<call, shell, code, job, written, sink, reader, cancelled, stage, reason, lateCut>>

-----------------------------------------------------------------------------
(* The reader, a task of its own.                                          *)

(* Mutant: a chunk that does not fit is dropped whole.                     *)
KeepWholeChunks(n) ==
  IF n <= OutputLimit - kept THEN kept' = kept + n /\ UNCHANGED truncated
                             ELSE truncated' = TRUE /\ UNCHANGED kept

(* Mutant: the buffer takes what it is given.                              *)
KeepAll(n) == kept' = kept + n /\ UNCHANGED truncated

Keep(n) ==
  LET room == OutputLimit - kept
  IN /\ kept' = kept + Lesser(n, room)
     /\ truncated' = (truncated \/ n > room)

ReadChunk(n) ==
  /\ reader = "reading" /\ n <= written - consumed
  /\ consumed' = consumed + n
  /\ Keep(n)
  /\ UNCHANGED <<call, group, written, reader, cancelled, stage, reason, lateCut>>

StreamEnds ==
  /\ reader = "reading" /\ consumed = written /\ ~PipeHeld
  /\ reader' = "ended"
  /\ UNCHANGED <<call, group, written, sink, cancelled, stage, reason, lateCut>>

ReaderDone ==
  /\ reader = "ended" /\ reaped
  /\ reader' = "done"
  /\ UNCHANGED <<call, group, written, sink, cancelled, stage, reason, lateCut>>

-----------------------------------------------------------------------------
(* run_exec.                                                               *)

CancelRun ==
  /\ ~cancelled
  /\ cancelled' = TRUE
  /\ UNCHANGED <<call, group, written, sink, reader, stage, reason, lateCut>>

(* Mutant: the exit of the shell is enough.                                *)
FinishOnExit ==
  /\ stage = "waiting" /\ reaped
  /\ stage' = "returned"
  /\ reason' = IF code = 0 THEN "none" ELSE "exit"
  /\ UNCHANGED <<call, group, written, sink, reader, cancelled, lateCut>>

Finish ==
  /\ stage = "waiting" /\ reader = "done"
  /\ stage' = "returned"
  /\ reason' = IF code = 0 THEN "none" ELSE "exit"
  /\ UNCHANGED <<call, group, written, sink, reader, cancelled, lateCut>>

(* Mutant: only the direct child is killed.                                *)
KillShell ==
  /\ shell' = IF shell = "running" THEN "killed" ELSE shell
  /\ UNCHANGED job

KillGroup ==
  /\ shell' = IF shell = "running" THEN "killed" ELSE shell
  /\ job' = IF job = "none" THEN "none" ELSE "gone"

(* The time is up or the run is cancelled: the group is killed, unless the *)
(* exit of the shell is already known.                                     *)
Cut ==
  /\ stage = "waiting" /\ reader # "done"
  /\ stage' = "killing"
  /\ reason' = IF cancelled THEN "cancel" ELSE "timeout"
  /\ lateCut' = reaped
  /\ IF reaped THEN UNCHANGED <<shell, job>> ELSE KillGroup
  /\ UNCHANGED <<call, code, reaped, written, sink, reader, cancelled>>

(* Mutant: the reader is awaited, not cancelled.                           *)
SettleAwaits ==
  /\ stage = "killing" /\ reader = "done"
  /\ stage' = "returned"
  /\ UNCHANGED <<call, group, written, sink, reader, cancelled, reason, lateCut>>

(* After at most two seconds the reader is cancelled where it is.          *)
Settle ==
  /\ stage = "killing"
  /\ reader' = IF reader = "done" THEN "done" ELSE "cancelled"
  /\ stage' = "returned"
  /\ UNCHANGED <<call, group, written, sink, cancelled, reason, lateCut>>

(* The task itself is cancelled: nothing is killed.                        *)
TaskCancelled ==
  /\ TaskCancels /\ stage = "waiting"
  /\ stage' = "abandoned"
  /\ UNCHANGED <<call, group, written, sink, reader, cancelled, reason, lateCut>>

-----------------------------------------------------------------------------
(* What the tool makes of it.                                              *)

(* Mutant: bash returns the output of whatever stopped the command.        *)
OutcomeWithoutTimeout ==
  IF reason = "none" \/ tool = "continue" \/ (tool = "bash" /\ ~cancelled)
  THEN "result" ELSE "error"

Outcome ==
  IF reason = "none" THEN "result"
  ELSE IF tool = "bash"
    THEN IF cancelled THEN "error" ELSE IF reason = "exit" THEN "result" ELSE "error"
    ELSE IF tool = "continue" THEN "result" ELSE "error"

Init ==
  /\ tool \in {"bash", "run_command", "continue"}
  /\ requested \in {0} \cup 1..(MaxBytes + 1)
  /\ tool = "bash" => requested = 0
  /\ shell = "running" /\ code = 0 /\ job = "none" /\ reaped = FALSE
  /\ written = 0 /\ consumed = 0 /\ kept = 0 /\ truncated = FALSE
  /\ reader = "reading" /\ cancelled = FALSE
  /\ stage = "waiting" /\ reason = "none" /\ lateCut = FALSE

Next ==
  \/ Writes \/ StartsJob \/ ShellExits \/ JobEnds \/ Reap
  \/ \E n \in 1..MaxWritten : ReadChunk(n)
  \/ StreamEnds \/ ReaderDone
  \/ CancelRun \/ Finish \/ Cut \/ Settle \/ TaskCancelled

Spec == Init /\ [][Next]_vars

(* The deadline runs out, and tasks that can run are run.                  *)
FairSpec == Spec /\ WF_vars(Cut) /\ WF_vars(Finish) /\ WF_vars(Settle)

-----------------------------------------------------------------------------
ExecTypeOK ==
  /\ shell \in {"running", "exited", "killed"} /\ job \in {"none", "holding", "detached", "gone"}
  /\ kept <= OutputLimit /\ kept <= consumed /\ consumed <= written /\ written <= MaxWritten
  /\ reader \in {"reading", "ended", "done", "cancelled"}
  /\ stage \in {"waiting", "killing", "returned", "abandoned"}
  /\ reason \in {"none", "exit", "timeout", "cancel"}

Alive == shell = "running" \/ job \in {"holding", "detached"}
IsCut == reason \in {"timeout", "cancel"}

(* A command that is not cut short returns all its group has written, or   *)
(* as much as the limit allows and the mark that there was more.           *)
WholeOutputReturned ==
  stage = "returned" /\ ~IsCut =>
    kept = Lesser(written, OutputLimit) /\ truncated = (written > OutputLimit)

(* A command that is cut short while its shell runs leaves nothing of its  *)
(* group behind.                                                           *)
CutGroupIsGone == stage = "returned" /\ IsCut /\ ~lateCut => ~Alive

(* A call that was cut short is an error to the model.                     *)
CutIsReported == stage = "returned" /\ IsCut /\ tool # "continue" => Outcome = "error"

(* Its output, its processes and its ending are all accounted for.         *)
CommandIsAccountedFor == WholeOutputReturned /\ CutGroupIsGone /\ CutIsReported

Ended == stage \in {"returned", "abandoned"}

(* run_exec returns although a job may hold the pipe for ever.             *)
CommandEnds == <>Ended

(* "a grandchild that outlived the direct child dies with it".             *)
GrandchildDies == stage = "returned" /\ IsCut => ~Alive

(* "running, both after the tool call has already returned".               *)
NothingRunsAfterCancellation == stage = "abandoned" => ~Alive

(* "The reason is None on a normal exit and on a non-zero exit".           *)
ReasonMeansCut == stage = "returned" /\ reason # "none" => IsCut
=============================================================================
