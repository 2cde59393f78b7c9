------------------------------ MODULE Scrollback ------------------------------
(***************************************************************************)
(* What the terminal appends to its scrollback (_render of                 *)
(* tui/terminal.py): the reply of a turn while it streams, the messages    *)
(* as they are committed, and what follows the first so many messages of   *)
(* the conversation that a command installed in place of those shown.      *)
(* The notifications of a turn arrive in order and all of them before the  *)
(* next prompt (PromptIsLast of TerminalTurn); only a chunk may be lost,   *)
(* when the queue is full.                                                 *)
(*                                                                         *)
(* A text is abstracted to its length: the content of message m is the     *)
(* sequence of its pieces 1, 2, ..., and startswith compares pieces.       *)
(***************************************************************************)
EXTENDS Integers, Sequences, FiniteSets

CONSTANTS
  MaxMessages,  \* bound: messages of the assistant, and as many results, over all turns
  MaxPieces,    \* bound: pieces of content of one message
  MaxReasoning, \* bound: pieces of reasoning of one message
  MaxTurns,     \* bound: turns
  MaxCommands,  \* bound: commands that replace the transcript
  Systems       \* system messages the engine starts a conversation with

ScrollbackAssumption ==
  /\ MaxMessages \in Nat /\ MaxPieces \in Nat /\ MaxReasoning \in Nat
  /\ MaxTurns \in Nat /\ MaxCommands \in Nat /\ Systems \in Nat

VARIABLES
  reply,        \* the message the model streams: its number and pieces
  made,         \* messages of the assistant so far
  channel,      \* notifications on their way to the terminal
  running,      \* whether the turn runs
  turns,        \* turns so far
  replaced,     \* commands that replaced the transcript so far
  streaming,    \* transcript.streaming, or NoMessage
  messages,     \* transcript.messages
  cancellation, \* whether App.cancellation is there: SubmitDone has not been handled
  rendered,     \* TerminalApplication._rendered_messages
  streamed,     \* _streamed_content and _streamed_reasoning
  printed,      \* what has been written of what notifications brought, in order
  replayed      \* what has been written of the transcripts that commands installed

turn == <<reply, made, running, turns>>
shown == <<rendered, streamed, printed, replayed>>
vars == <<turn, channel, replaced, streaming, messages, cancellation, shown>>

-----------------------------------------------------------------------------
(* Messages.                                                               *)

NoText == [of |-> 0, length |-> 0]
Text(m, n) == IF n = 0 THEN NoText ELSE [of |-> m, length |-> n]

startswith(text, prefix) ==
  prefix = NoText \/ (text.of = prefix.of /\ text.length >= prefix.length)

NoMessage == [role |-> "none", id |-> 0, content |-> NoText, reasoning |-> NoText,
              calls |-> FALSE, interrupted |-> FALSE]

Assistant(m, c, r, calls, interrupted) ==
  [role |-> "assistant", id |-> m, content |-> Text(m, c), reasoning |-> Text(m, r),
   calls |-> calls, interrupted |-> interrupted]

ToolResult(m) == [NoMessage EXCEPT !.role = "tool", !.id = m]
UserMessage(t) == [NoMessage EXCEPT !.role = "user", !.id = t]
SystemMessage(i) == [NoMessage EXCEPT !.role = "system", !.id = i]

(* The engine holds system messages that no notification tells of, and     *)
(* the messages another run left in the store; these have no number here.  *)
Heading == [i \in 1..Systems |-> SystemMessage(i)]
Summary == SystemMessage(0)
Stored == <<UserMessage(0), Assistant(0, 1, 0, FALSE, FALSE)>>

(* A message that came with a notification.                                *)
Heard(m) == m.role # "system" /\ m.id # 0

-----------------------------------------------------------------------------
(* What is written: pieces of reasoning and content, and the other parts   *)
(* of a message.                                                           *)

Part(what, m, n) == [what |-> what, of |-> m, n |-> n]

(* The pieces of a text after its first k.                                 *)
Pieces(what, text, k) == [i \in 1..text.length - k |-> Part(what, text.of, k + i)]

(* renderCommitted, with nothing expanded: the reasoning is one line.      *)
Committed(m) ==
  CASE m.role \in {"tool", "system"} ->
         <<Part(IF m.role = "tool" THEN "result" ELSE "system", m.id, 1)>>
    [] m.role = "assistant" ->
         (IF m.reasoning = NoText THEN <<>> ELSE <<Part("thinking", m.id, 1)>>)
         \o Pieces("content", m.content, 0)
         \o (IF m.calls THEN <<Part("calls", m.id, 1)>> ELSE <<>>)
         \o (IF m.interrupted THEN <<Part("notice", m.id, 1)>> ELSE <<>>)
    [] OTHER -> <<>>

NothingStreamed == [content |-> NoText, reasoning |-> NoText]

(* The part of a growing text that is not written yet; one that does not   *)
(* continue what is written is not written at all.                         *)
(* Mutants: the whole text is written each time it grows; its last piece.  *)
LastPiece(what, text, before) ==
  IF text.length > before.length THEN Pieces(what, text, text.length - 1) ELSE <<>>
Whole(what, text, before) == Pieces(what, text, 0)

Rest(what, text, before) ==
  IF startswith(text, before) THEN Pieces(what, text, before.length) ELSE <<>>

(* What is left of a reply that was streamed, when it is committed.        *)
Completion(m, s) ==
  IF startswith(m.content, s.content) THEN Pieces("content", m.content, s.content.length)
  ELSE Committed(m)

(* Writing the committed messages from number i on, which uses up what was *)
(* streamed.                                                               *)
Spent(s) == NothingStreamed

WriteFrom(i, list, s) ==
  LET answers == {k \in i..Len(list) : list[k].role = "assistant"}
      completes(k) == s # NothingStreamed /\ k \in answers /\ \A j \in answers : k <= j
      write[k \in i - 1..Len(list)] ==
        IF k < i THEN <<>>
        ELSE write[k - 1] \o (IF completes(k) THEN Completion(list[k], s) ELSE Committed(list[k]))
  IN  [out |-> IF i > Len(list) THEN <<>> ELSE write[Len(list)],
       streamed |-> IF answers = {} THEN s ELSE Spent(s)]

(* Mutant: the count only grows.                                           *)
RenderedGrows(list) == IF Len(list) > rendered THEN Len(list) ELSE rendered

Rendered(list) == Len(list)

(* _render, after the model became stream, list and busy: what it writes   *)
(* and what is streamed then; and what it keeps.                           *)
Output(stream, list) ==
  LET live == IF stream = NoMessage THEN <<>>
              ELSE Rest("reasoning", stream.reasoning, streamed.reasoning)
                   \o Rest("content", stream.content, streamed.content)
      now == IF stream = NoMessage THEN streamed
             ELSE [content |-> stream.content, reasoning |-> stream.reasoning]
      written == WriteFrom(rendered + 1, list, now)
  IN  [out |-> live \o written.out, streamed |-> written.streamed]

Shows(stream, list, busy) ==
  LET after == Output(stream, list).streamed
  IN  /\ streaming' = stream /\ messages' = list /\ cancellation' = busy
      /\ rendered' = Rendered(list)
      /\ streamed' = IF stream = NoMessage /\ after.content # NoText /\ ~busy
                     THEN NothingStreamed ELSE after

Render(stream, list, busy) ==
  /\ Shows(stream, list, busy)
  /\ printed' = printed \o Output(stream, list).out /\ UNCHANGED replayed

-----------------------------------------------------------------------------
(* The turn.                                                               *)

Init ==
  /\ reply = [c |-> 0, r |-> 0] /\ made = 0 /\ channel = <<>> /\ running = FALSE
  /\ turns = 0 /\ replaced = 0
  /\ streaming = NoMessage /\ messages = <<>> /\ cancellation = FALSE
  /\ rendered = 0 /\ streamed = NothingStreamed /\ printed = <<>> /\ replayed = <<>>

(* A prompt is read when the last turn is over and shown.                  *)
submitPrompt ==
  /\ ~running /\ ~cancellation /\ channel = <<>> /\ turns < MaxTurns
  /\ turns' = turns + 1 /\ running' = TRUE
  /\ channel' = <<[kind |-> "MessageAppended", message |-> UserMessage(turns + 1)]>>
  /\ Render(NoMessage, messages, TRUE)
  /\ UNCHANGED <<reply, made, replaced>>

Answering == running /\ made < MaxMessages

(* One chunk: the accumulated message, unless the queue is full.           *)
Chunk ==
  /\ Answering
  /\ reply' \in {[reply EXCEPT !.c = @ + 1], [reply EXCEPT !.r = @ + 1]}
  /\ reply'.c <= MaxPieces /\ reply'.r <= MaxReasoning
  /\ \/ channel' = Append(channel, [kind |-> "StreamChunkReceived",
                          message |-> Assistant(made + 1, reply'.c, reply'.r, FALSE, FALSE)])
     \/ UNCHANGED channel
  /\ UNCHANGED <<made, running, turns, replaced, streaming, messages, cancellation, shown>>

Appended(list) == channel \o [i \in DOMAIN list |-> [kind |-> "MessageAppended", message |-> list[i]]]

(* The reply is complete; with calls, their result follows and the turn    *)
(* goes on.                                                                *)
Commit ==
  /\ Answering
  /\ made' = made + 1 /\ reply' = [c |-> 0, r |-> 0]
  /\ \/ /\ channel' = Appended(<<Assistant(made + 1, reply.c, reply.r, TRUE, FALSE), ToolResult(made + 1)>>)
        /\ UNCHANGED running
     \/ /\ channel' = Appended(<<Assistant(made + 1, reply.c, reply.r, FALSE, FALSE)>>)
        /\ running' = FALSE
  /\ UNCHANGED <<turns, replaced, streaming, messages, cancellation, shown>>

(* Cancelled or failed: what has been streamed is flushed into a message.  *)
Interrupt ==
  /\ running
  /\ running' = FALSE
  /\ IF reply.c = 0 /\ reply.r = 0 THEN UNCHANGED <<channel, made>>
     ELSE /\ channel' = Appended(<<Assistant(made + 1, reply.c, reply.r, FALSE, TRUE)>>)
          /\ made' = made + 1
  /\ reply' = [c |-> 0, r |-> 0]
  /\ UNCHANGED <<turns, replaced, streaming, messages, cancellation, shown>>

-----------------------------------------------------------------------------
(* The terminal.                                                           *)

updateConversationNotification ==
  /\ channel # <<>>
  /\ channel' = Tail(channel)
  /\ LET n == Head(channel)
     IN  \/ /\ n.kind = "StreamChunkReceived"
            /\ Render(n.message, messages, cancellation)
         \/ /\ n.kind = "MessageAppended"
            /\ Render(IF n.message.role = "assistant" THEN NoMessage ELSE streaming,
                      Append(messages, n.message), cancellation)
  /\ UNCHANGED <<turn, replaced>>

(* The approval of a call is asked for before the reply that carries the   *)
(* call is delivered; the answer stops showing what streams.               *)
CallsNext == channel # <<>> /\ Head(channel).kind = "MessageAppended" /\ Head(channel).message.calls

ApprovalAnswered ==
  /\ cancellation /\ CallsNext
  /\ Render(NoMessage, messages, TRUE)
  /\ UNCHANGED <<turn, channel, replaced>>

(* SubmitDone may overtake what is still in the channel, but not the reply *)
(* of a call that the turn has waited to be approved.                      *)
finishSubmit ==
  /\ cancellation /\ ~running
  /\ CallsNext => streaming # NoMessage \/ streamed = NothingStreamed
  /\ Render(streaming, messages, FALSE)
  /\ UNCHANGED <<turn, channel, replaced>>

(* A message that changes nothing of this is rendered as well.             *)
AnyOther == Render(streaming, messages, cancellation) /\ UNCHANGED <<turn, channel, replaced>>

(* What the engine holds: until a command replaced the transcript the      *)
(* system messages, and what the run was started on, are not shown.        *)
Conversations ==
  IF replaced > 0 THEN {messages} ELSE {Heading \o messages, Heading \o Stored \o messages}

(* Where the newest messages that a compaction keeps may begin, behind h   *)
(* system messages: not at all of them unless the first's results are kept.*)
WindowStarts(list, h) ==
  {i \in h + 1..Len(list) :
     /\ list[i].role # "tool"
     /\ i = h + 1 => i < Len(list) /\ list[i + 1].role = "tool"}

(* The transcript becomes new, nothing streams and no turn runs.           *)
Install(new) ==
  /\ Shows(NoMessage, new, FALSE)
  /\ replayed' = replayed \o Output(NoMessage, new).out /\ UNCHANGED printed

(* A command replaces the transcript by the conversation the engine holds  *)
(* then: all of it (/fork, a refused /reset), what is left by an /undo or, *)
(* with the system messages alone, a /reset; a summary and the newest      *)
(* messages (/compact); or those it starts with (/agent) and what another  *)
(* run left of a session (/resume).                                        *)
refreshSnapshot ==
  /\ ~running /\ ~cancellation /\ channel = <<>> /\ replaced < MaxCommands
  /\ replaced' = replaced + 1
  /\ \E list \in Conversations :
       \E h \in {h \in 0..Len(list) : \A j \in DOMAIN list : list[j].role = "system" <=> j <= h} :
         \/ \E n \in h..Len(list) : Install(SubSeq(list, 1, n))
         \/ \E i \in WindowStarts(list, h) :
              Install(SubSeq(list, 1, h) \o <<Summary>> \o SubSeq(list, i, Len(list)))
         \/ \E n \in 0..Len(Stored) : Install(Heading \o SubSeq(Stored, 1, n))
  /\ UNCHANGED <<turn, channel>>

Next ==
  \/ submitPrompt \/ Chunk \/ Commit \/ Interrupt
  \/ updateConversationNotification \/ finishSubmit
  \/ ApprovalAnswered \/ AnyOther
  \/ refreshSnapshot

Spec == Init /\ [][Next]_vars

-----------------------------------------------------------------------------
(* Properties.                                                             *)

Texts(n) == [of : 0..MaxMessages, length : 0..n]

TypeOK ==
  /\ made \in 0..MaxMessages /\ reply \in [c : 0..MaxPieces, r : 0..MaxReasoning]
  /\ streamed \in [content : Texts(MaxPieces), reasoning : Texts(MaxReasoning)]
  /\ rendered \in 0..2 * MaxMessages + MaxTurns + Systems + MaxCommands + Len(Stored)
  /\ running => cancellation
  /\ \A i \in DOMAIN messages :
       messages[i].role = "assistant" /\ Heard(messages[i]) =>
         messages[i].id \notin {streamed.content.of, streamed.reasoning.of}
  /\ \A i \in DOMAIN channel : channel[i].kind \in {"StreamChunkReceived", "MessageAppended"}

(* "The committed message completes the same reply without printing its    *)
(* streamed text twice." (docs/terminal.md:12-13): nothing a notification  *)
(* brought is written twice on its account, whichever chunks were lost,    *)
(* whenever the end of the turn overtook its last messages, and whatever a *)
(* command installed in between.                                           *)
NothingTwice ==
  \A i, j \in DOMAIN printed : printed[i] = printed[j] => i = j

(* The text of a reply is written from its start and without a gap.        *)
InOrder ==
  \A j \in DOMAIN printed :
    printed[j].n > 1 =>
      \E i \in 1..j - 1 : printed[i] = [printed[j] EXCEPT !.n = @ - 1]

Has(part) == \E i \in DOMAIN printed : printed[i] = part

(* Every message shown that came with a notification is on the screen, the *)
(* whole text of a reply and every result, also when it is shown again by  *)
(* a transcript that a command installed.                                  *)
EverythingCommittedIsWritten ==
  \A i \in DOMAIN messages :
    LET m == messages[i]
    IN  Heard(m) =>
          /\ \A n \in 1..m.content.length : Has(Part("content", m.id, n))
          /\ m.role = "tool" => Has(Part("result", m.id, 1))

(* What a command installs is written from the number of messages that     *)
(* were shown on, whatever these were: no part comes to the scrollback a   *)
(* second time ("without printing its streamed text twice"), and the       *)
(* replies shown are there ("Replies ... append to stdout.",               *)
(* docs/terminal.md:6-7).                                                  *)
NothingReplayed ==
  \A i \in DOMAIN printed, j \in DOMAIN replayed : printed[i] # replayed[j]

EverythingShownIsWritten ==
  \A i \in DOMAIN messages :
    \A n \in 1..messages[i].content.length :
      LET part == Part("content", messages[i].id, n)
      IN  Has(part) \/ \E j \in DOMAIN replayed : replayed[j] = part

(* "Replies, tool activity, errors, status changes, and slash-command      *)
(* results append to stdout." (docs/terminal.md:6-7): the calls of a       *)
(* committed reply.                                                        *)
ToolActivityIsWritten ==
  \A i \in DOMAIN messages : messages[i].calls => Has(Part("calls", messages[i].id, 1))

=============================================================================
