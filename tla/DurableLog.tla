----------------------------- MODULE DurableLog -----------------------------
(***************************************************************************)
(* What the session store promises: a session is created with its first    *)
(* records in it, records are added at its end, and leave from its end     *)
(* when the log is cut or with the session.  A crash is not visible here.  *)
(* This says what may happen to a log and not by whom: which steps of the  *)
(* store may cut or delete is RecordsStay of Store, and on a full disk     *)
(* LossOnFullDiskStep.                                                     *)
(***************************************************************************)
EXTENDS Naturals, Sequences

CONSTANTS
  Sessions,  \* the session ids
  Records,   \* what a log line can hold
  NoLog      \* the log of a session that cannot be opened

VARIABLE logs  \* the records of each session, in order

LogInit == logs = [s \in Sessions |-> NoLog]

CreateLog(s) ==
  /\ logs[s] = NoLog
  /\ logs'[s] \in Seq(Records)
  /\ logs' = [logs EXCEPT ![s] = logs'[s]]

AppendLog(s) ==
  /\ logs[s] # NoLog
  /\ \E r \in Records : logs' = [logs EXCEPT ![s] = Append(@, r)]

CutLog(s) ==
  /\ logs[s] # NoLog
  /\ \E n \in 1..Len(logs[s]) : logs' = [logs EXCEPT ![s] = SubSeq(@, 1, n)]

DeleteLog(s) ==
  /\ logs[s] # NoLog
  /\ logs' = [logs EXCEPT ![s] = NoLog]

LogNext == \E s \in Sessions : CreateLog(s) \/ AppendLog(s) \/ CutLog(s) \/ DeleteLog(s)

LogSpec == LogInit /\ [][LogNext]_logs
=============================================================================
