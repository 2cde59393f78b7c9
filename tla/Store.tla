------------------------------- MODULE Store --------------------------------
(***************************************************************************)
(* The session store (store/store.py): one directory per session, with an  *)
(* append-only log of one record per line, and the metadata by which the   *)
(* session is found.  The store's lock makes each method one step; what    *)
(* can come between the writes of a method is a crash.                     *)
(*                                                                         *)
(* A file is its lines and what follows the last newline.  Whatever is not *)
(* exactly one record on its line is Corrupt.  Every append is synced, and *)
(* metadata and rewritten logs are renamed into place, so a crash leaves   *)
(* the line being written in doubt and nothing else.  A write is one call  *)
(* of os.write whose result nobody reads: on a full disk it may write a    *)
(* part, and the method goes on.                                           *)
(***************************************************************************)
EXTENDS Naturals, Sequences

CONSTANTS
  Sessions,       \* the session ids
  Records,        \* the records a caller may append
  Started,        \* the session_started record
  InitialRecords, \* the messages a session may be created with
  Residues,       \* what a crash may leave of the line being written
  Corrupt,        \* a line that is no record
  Clean,          \* nothing behind the last newline
  Torn,           \* part of a record behind the last newline
  NoFile,         \* the log file does not exist
  NoLog,          \* the session cannot be opened
  MaxRecords      \* bound: no new record in a log of this length

Lines == Records \cup {Corrupt}
Tails == Records \cup {Clean, Torn}
File == [lines : Seq(Lines), tail : Tails]

EmptyFile == [lines |-> <<>>, tail |-> Clean]

ASSUME StoreAssumption ==
  /\ Started \in Records
  /\ Corrupt \notin Records /\ Clean \notin Records /\ Torn \notin Records
  /\ Clean # Torn
  /\ NoFile \notin File
  /\ NoLog \notin Seq(Records)
  /\ InitialRecords \subseteq Seq(Records)
  /\ Residues \subseteq {"nothing", "partial", "noNewline", "whole"}
  /\ MaxRecords \in Nat

VARIABLES
  files,   \* events.jsonl of each session, or NoFile
  meta,    \* whether meta.json of each session exists
  up,      \* whether the process runs
  opened   \* the sessions it has created or loaded, and may append to

svars == <<files, meta, up, opened>>

-----------------------------------------------------------------------------
(* Writing.                                                                *)

WriteLine(f, r) ==
  [lines |-> Append(f.lines, IF f.tail = Clean THEN r ELSE Corrupt), tail |-> Clean]

(* What the file is when only a part of the line was written.              *)
Interrupted(f, r, residue) ==
  CASE residue = "nothing"   -> f
    [] residue = "partial"   -> [lines |-> f.lines, tail |-> Torn]
    [] residue = "noNewline" -> [lines |-> f.lines, tail |-> IF f.tail = Clean THEN r ELSE Torn]
    [] residue = "whole"     -> WriteLine(f, r)

WholeFile(records) == [lines |-> records, tail |-> Clean]

-----------------------------------------------------------------------------
(* Reading.                                                                *)

AllLines(f) ==
  f.lines \o (IF f.tail = Clean THEN <<>> ELSE << IF f.tail = Torn THEN Corrupt ELSE f.tail >>)

BadLines(f) == { i \in DOMAIN AllLines(f) : AllLines(f)[i] = Corrupt }

(* Mutant: a torn last line hides a bad line before it.                    *)
ReadableTail(f) == BadLines(f) = {} \/ Len(AllLines(f)) \in BadLines(f)

(* A bad line anywhere but at the end fails loudly.                        *)
Readable(f) == BadLines(f) \subseteq {Len(AllLines(f))}

(* Mutant: the record before the torn line goes too.                       *)
ContentsLessOne(f) ==
  IF BadLines(f) = {} THEN AllLines(f) ELSE SubSeq(AllLines(f), 1, Len(AllLines(f)) - 2)

Contents(f) ==
  IF BadLines(f) = {} THEN AllLines(f) ELSE SubSeq(AllLines(f), 1, Len(AllLines(f)) - 1)

(* Reading truncates back to the last complete record.                     *)
Healed(f) == IF BadLines(f) = {} THEN f ELSE WholeFile(Contents(f))

-----------------------------------------------------------------------------
Init ==
  /\ files = [s \in Sessions |-> NoFile]
  /\ meta = [s \in Sessions |-> FALSE]
  /\ up = TRUE
  /\ opened = {}

(* Ids are taken from the clock: nothing of a new session is on disk.      *)
Fresh(s) == files[s] = NoFile /\ ~meta[s]

(* The log first and the metadata last.                                    *)
Create(s, initial) ==
  /\ up
  /\ Fresh(s)
  /\ files' = [files EXCEPT ![s] = WholeFile(<<Started>> \o initial)]
  /\ meta' = [meta EXCEPT ![s] = TRUE]
  /\ opened' = opened \cup {s}
  /\ UNCHANGED up

(* Mutant: the metadata is written first.                                  *)
CrashInCreateMetaFirst(s, initial, n, residue) ==
  /\ up
  /\ Fresh(s)
  /\ n < Len(<<Started>> \o initial)
  /\ files' = [files EXCEPT ![s] =
       Interrupted(WholeFile(SubSeq(<<Started>> \o initial, 1, n)), (<<Started>> \o initial)[n + 1], residue)]
  /\ meta' = [meta EXCEPT ![s] = TRUE]
  /\ up' = FALSE
  /\ opened' = {}

(* The process dies after n records of the new log.                        *)
CrashInCreate(s, initial, n, residue) ==
  /\ up
  /\ Fresh(s)
  /\ n < Len(<<Started>> \o initial)
  /\ files' = [files EXCEPT ![s] =
       Interrupted(WholeFile(SubSeq(<<Started>> \o initial, 1, n)), (<<Started>> \o initial)[n + 1], residue)]
  /\ up' = FALSE
  /\ opened' = {}
  /\ UNCHANGED meta

(* The log as an append finds it: the file is created if it is not there,  *)
(* as for a session that was deleted while a child of it still ran.        *)
LogFile(s) == IF files[s] = NoFile THEN EmptyFile ELSE files[s]

AppendRecord(s, r) ==
  /\ up
  /\ s \in opened
  /\ Len(LogFile(s).lines) < MaxRecords
  /\ files' = [files EXCEPT ![s] = WriteLine(LogFile(s), r)]
  /\ UNCHANGED <<meta, up, opened>>

CrashInAppend(s, r, residue) ==
  /\ up
  /\ s \in opened
  /\ Len(LogFile(s).lines) < MaxRecords
  /\ files' = [files EXCEPT ![s] = Interrupted(LogFile(s), r, residue)]
  /\ up' = FALSE
  /\ opened' = {}
  /\ UNCHANGED meta

(* The disk fills up: a part of the line is written, and append returns.   *)
ShortAppend(s, r) ==
  /\ up
  /\ s \in opened
  /\ Len(LogFile(s).lines) < MaxRecords
  /\ files' = [files EXCEPT ![s] = Interrupted(LogFile(s), r, "partial")]
  /\ UNCHANGED <<meta, up, opened>>

(* Mutant: a torn tail is skipped and left where it is.                    *)
LoadWithoutHealing(s) ==
  /\ up
  /\ files[s] # NoFile
  /\ Readable(files[s])
  /\ opened' = IF meta[s] THEN opened \cup {s} ELSE opened
  /\ UNCHANGED <<files, meta, up>>

(* Every reader of the log heals it.  A session is opened once its         *)
(* metadata has been read as well.                                         *)
Load(s) ==
  /\ up
  /\ files[s] # NoFile
  /\ Readable(files[s])
  /\ files' = [files EXCEPT ![s] = Healed(@)]
  /\ opened' = IF meta[s] THEN opened \cup {s} ELSE opened
  /\ UNCHANGED <<meta, up>>

(* What is kept ends in a checkpoint, which is never the first record.     *)
Cuts == 2..MaxRecords

(* The log with n records left, or as it was read when it has no more.     *)
Cut(f, n) ==
  IF n < Len(Contents(f)) THEN WholeFile(SubSeq(Contents(f), 1, n)) ELSE Healed(f)

TruncateAfter(s, n) ==
  /\ up
  /\ s \in opened
  /\ files[s] # NoFile
  /\ Readable(files[s])
  /\ files' = [files EXCEPT ![s] = Cut(@, n)]
  /\ UNCHANGED <<meta, up, opened>>

(* The shortened log is renamed into place, or is not.                     *)
CrashInTruncate(s, n) ==
  /\ up
  /\ s \in opened
  /\ files[s] # NoFile
  /\ Readable(files[s])
  /\ files' \in { [files EXCEPT ![s] = Healed(@)], [files EXCEPT ![s] = Cut(@, n)] }
  /\ up' = FALSE
  /\ opened' = {}
  /\ UNCHANGED meta

(* The disk fills up in the last record that is kept, and the log is       *)
(* renamed into place; an earlier short write makes the next one raise.    *)
ShortTruncate(s, n) ==
  /\ up
  /\ s \in opened
  /\ files[s] # NoFile
  /\ Readable(files[s])
  /\ n < Len(Contents(files[s]))
  /\ files' = [files EXCEPT ![s] = Interrupted(WholeFile(SubSeq(Contents(@), 1, n - 1)), Contents(@)[n], "partial")]
  /\ UNCHANGED <<meta, up, opened>>

(* The active session cannot be deleted; one a child still appends to can. *)
Delete(s) ==
  /\ up
  /\ files' = [files EXCEPT ![s] = NoFile]
  /\ meta' = [meta EXCEPT ![s] = FALSE]
  /\ UNCHANGED <<up, opened>>

(* The directory is emptied in any order.                                  *)
CrashInDelete(s) ==
  /\ up
  /\ \/ files' = [files EXCEPT ![s] = NoFile] /\ UNCHANGED meta
     \/ meta' = [meta EXCEPT ![s] = FALSE] /\ UNCHANGED files
  /\ up' = FALSE
  /\ opened' = {}

Crash ==
  /\ up
  /\ up' = FALSE
  /\ opened' = {}
  /\ UNCHANGED <<files, meta>>

Restart ==
  /\ ~up
  /\ up' = TRUE
  /\ UNCHANGED <<files, meta, opened>>

Next ==
  \/ Crash
  \/ Restart
  \/ \E s \in Sessions :
       \/ Load(s)
       \/ Delete(s)
       \/ CrashInDelete(s)
       \/ \E initial \in InitialRecords :
            \/ Create(s, initial)
            \/ \E n \in 0..Len(initial), residue \in Residues : CrashInCreate(s, initial, n, residue)
       \/ \E r \in Records :
            \/ AppendRecord(s, r)
            \/ \E residue \in Residues : CrashInAppend(s, r, residue)
       \/ \E n \in Cuts : TruncateAfter(s, n) \/ CrashInTruncate(s, n)

Spec == Init /\ [][Next]_svars

(* The same on a disk that may fill.                                       *)
NextOnFullDisk ==
  \/ Next
  \/ \E s \in Sessions :
       \/ \E r \in Records : ShortAppend(s, r)
       \/ \E n \in Cuts : ShortTruncate(s, n)

SpecOnFullDisk == Init /\ [][NextOnFullDisk]_svars

-----------------------------------------------------------------------------
(* Every variable has its type.  No line is ever corrupt; at most the tail *)
(* is torn, and never that of a log that may be appended to, since a crash *)
(* closes the session and reading it to open it again heals it.  A session *)
(* that is open and can be found has its log.                              *)
LogsAreSound ==
  /\ files \in [Sessions -> [lines : Seq(Records), tail : {Clean, Torn}] \cup {NoFile}]
  /\ meta \in [Sessions -> BOOLEAN]
  /\ up \in BOOLEAN
  /\ opened \subseteq Sessions
  /\ \A s \in opened :
       /\ files[s] # NoFile => files[s].tail = Clean
       /\ meta[s] => files[s] # NoFile

(* What opening the session would return now.                              *)
LogOf(s) ==
  IF meta[s] /\ files[s] # NoFile /\ Readable(files[s]) THEN Contents(files[s]) ELSE NoLog

Log == INSTANCE DurableLog WITH logs <- [s \in Sessions |-> LogOf(s)]

(* The store is a durable log: whatever is cut off by a crash, what can be *)
(* read is what was appended, and nothing goes away by itself.             *)
StoreIsDurableLog == Log!LogSpec

(* The same of one step.                                                   *)
DurableLogStep == Log!LogNext \/ UNCHANGED [s \in Sessions |-> LogOf(s)]

(* A file whose next line is one of its own, behind records.               *)
EndsWell(f) == f.tail = Clean /\ BadLines(f) = {}

Appends(s) ==
  \E r \in Records :
    AppendRecord(s, r) \/ ShortAppend(s, r) \/ \E residue \in Residues : CrashInAppend(s, r, residue)

AllButLast(records) == SubSeq(records, 1, Len(records) - 1)

(* A session that can be found is whole: "an interrupted creation cannot   *)
(* leave an orphan that looks complete" (store.py), and no append makes    *)
(* the log unreadable.  An interrupted deletion may leave metadata without *)
(* a log, which is not meant here.                                         *)
ListedIsWhole ==
  \A s \in Sessions : meta[s] /\ files[s] # NoFile =>
    /\ Readable(files[s])
    /\ Contents(files[s]) # <<>>
    /\ Contents(files[s])[1] = Started

(* An append that returns has added its record to what will be read: "the  *)
(* healed file must accept new appends" (test_session_store.py).           *)
AppendIsKept ==
  [][ \A s \in Sessions, r \in Records :
        AppendRecord(s, r) /\ LogOf(s) # NoLog => LogOf(s)' = Append(LogOf(s), r) ]_svars

(* The steps that may take records away.                                   *)
Removes(s) ==
  \/ Delete(s)
  \/ CrashInDelete(s)
  \/ \E n \in Cuts : TruncateAfter(s, n) \/ CrashInTruncate(s, n) \/ ShortTruncate(s, n)

(* No other step loses a record that could be read: not a crash, nor the   *)
(* healing of what it left, nor an append.                                 *)
RecordsStay ==
  [][ \A s \in Sessions :
        LogOf(s) # NoLog /\ ~Removes(s) =>
          \/ LogOf(s)' = LogOf(s)
          \/ \E r \in Records : LogOf(s)' = Append(LogOf(s), r) ]_svars

(* What of this a full disk leaves (store.py:375,491).  A log is never made *)
(* readable again but as a new one.  An append that returns behind whole   *)
(* lines has added its record, unless it was short.  Only a deletion or a  *)
(* cut (a short one keeps a record less) takes records away, and an append *)
(* to a line that has no newline or is no record: it is glued to it, which *)
(* loses the one record that stood there, or is written behind it, which   *)
(* makes the log unreadable.                                               *)
LossOnFullDiskStep ==
  \A s \in Sessions :
    LET before == LogOf(s)
        sound == EndsWell(LogFile(s))
        grown == { Append(before, r) : r \in Records }
    IN  IF before = NoLog THEN LogOf(s)' = NoLog \/ \E initial \in InitialRecords : Create(s, initial)
        ELSE /\ \A r \in Records : AppendRecord(s, r) /\ sound => LogOf(s)' = Append(before, r)
             /\ ~Removes(s) /\ ~(Appends(s) /\ ~sound) => LogOf(s)' \in {before} \cup grown
             /\ Appends(s) /\ ~sound => LogOf(s)' \in {before, AllButLast(before), NoLog}

(* What was recorded stays: an append that returns is behind the records   *)
(* that could be read before, and nothing but a deletion or a cut takes    *)
(* one away.                                                               *)
RecordIsKept == AppendIsKept /\ RecordsStay
=============================================================================
