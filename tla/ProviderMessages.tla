--------------------------- MODULE ProviderMessages ---------------------------
(***************************************************************************)
(* The conversation as each provider is given it (to_openai_messages,      *)
(* to_claude_messages and merge_adjacent_messages of llm/).  A transcript  *)
(* grows as the machine makes it: a call is answered before anything else  *)
(* is said (ModelSeesAnsweredTranscript of AgentMachine); and a compaction *)
(* between turns leaves a summary and the newest of it, which may begin    *)
(* with a reply.  Texts are named by the number of their message, calls by *)
(* numbers of their own.                                                   *)
(***************************************************************************)
EXTENDS Integers, Sequences, SequencesExt

CONSTANTS
  MaxMessages,  \* bound: messages of the transcript
  MaxCalls,     \* bound: calls of one reply
  MaxIds        \* bound: calls of all replies

ProviderMessagesAssumption == MaxMessages \in Nat /\ MaxCalls \in Nat /\ MaxIds \in Nat

Attachments == {"none", "image", "pdf", "text", "unreadable text", "other"}

VARIABLES
  messages,  \* the transcript
  open,      \* calls of the last reply that are not answered yet, each
             \* with an input the model wrote, which may be no JSON
  ids        \* calls so far

vars == <<messages, open, ids>>

Message(role, text, calls, attachment) ==
  [role |-> role, text |-> text, calls |-> calls, attachment |-> attachment]

-----------------------------------------------------------------------------
(* Content blocks.                                                         *)

TextBlock(n) == [type |-> "text", of |-> n]
ToolUse(id, input) == [type |-> "tool_use", of |-> id, input |-> input]
ToolResult(id) == [type |-> "tool_result", of |-> id]
AttachmentBlock(n) == [type |-> "attachment", of |-> n]

(* A text attachment that cannot be decoded is left out; one of a kind the *)
(* provider does not take is named in a text.                              *)
attachment_blocks(m, n) ==
  CASE m.attachment \in {"none", "unreadable text"} -> <<>>
    [] OTHER -> <<AttachmentBlock(n)>>

(* Mutant: the text is sent as it is.                                      *)
parsedAsIs(input) == input

(* What cannot be parsed is sent as an empty object.                       *)
parsed(input) == IF input = "not json" THEN "{}" ELSE input

Role(m) == IF m.role = "assistant" THEN "assistant" ELSE "user"

ClaudeBlocks(m, n) ==
  CASE m.role = "user" -> <<TextBlock(n)>> \o attachment_blocks(m, n)
    [] m.role = "assistant" -> (IF m.text THEN <<TextBlock(n)>> ELSE <<>>)
                               \o [i \in DOMAIN m.calls |-> ToolUse(m.calls[i].id, parsed(m.calls[i].input))]
    [] m.role = "tool" -> <<ToolResult(m.calls[1].id)>>

(* Mutant: a reply without any block becomes a message without content.    *)
KeptEmpty(m, n) == TRUE

Kept(m, n) == ClaudeBlocks(m, n) # <<>>

(* Mutants: only messages next to each other in the transcript are joined, *)
(* system messages and empty replies between them counted; results are     *)
(* messages of their own.                                                  *)
JoinsNoResult(merged, m, n) == merged # <<>> /\ Last(merged).role = Role(m) /\ m.role # "tool"
JoinsOnly(merged, m, n) ==
  merged # <<>> /\ Last(merged).role = Role(m) /\ messages[n - 1].role = m.role

Joins(merged, m, n) == merged # <<>> /\ Last(merged).role = Role(m)

(* Mutant: what is joined goes first.                                      *)
JoinedFirst(content, blocks) == blocks \o content

Joined(content, blocks) == content \o blocks

(* The conversation without its system messages, runs of one role joined.  *)
to_claude_messages ==
  LET add(merged, n) ==
        LET m == messages[n]
        IN  IF m.role = "system" \/ ~Kept(m, n) THEN merged
            ELSE IF Joins(merged, m, n)
            THEN [merged EXCEPT ![Len(merged)].content = Joined(@, ClaudeBlocks(m, n))]
            ELSE Append(merged, [role |-> Role(m), content |-> ClaudeBlocks(m, n)])
  IN  FoldLeft(add, <<>>, [n \in DOMAIN messages |-> n])

split_system_messages ==
  SelectSeq([n \in DOMAIN messages |-> n], LAMBDA n : messages[n].role = "system")

(* One parameter for each message; the calls ride on the reply.            *)
to_openai_messages ==
  [n \in DOMAIN messages |->
     LET m == messages[n]
     IN  [role |-> m.role,
          content |-> CASE m.role = "user" /\ m.attachment # "none" -> <<TextBlock(n), AttachmentBlock(n)>>
                        [] m.role = "tool" -> <<ToolResult(m.calls[1].id)>>
                        [] OTHER -> IF m.text THEN <<TextBlock(n)>> ELSE <<>>,
          tool_calls |-> IF m.role = "assistant" THEN m.calls ELSE <<>>]]

-----------------------------------------------------------------------------
(* The transcript.                                                         *)

Init == messages = <<>> /\ open = <<>> /\ ids = 0

Grows == Len(messages) < MaxMessages

SystemMessage ==
  /\ Grows /\ open = <<>>
  /\ messages' = Append(messages, Message("system", TRUE, <<>>, "none"))
  /\ UNCHANGED <<open, ids>>

UserMessage ==
  /\ Grows /\ open = <<>>
  /\ \E a \in Attachments : messages' = Append(messages, Message("user", TRUE, <<>>, a))
  /\ UNCHANGED <<open, ids>>

(* A reply may be all calls, or, cut off while it reasoned, empty.         *)
AssistantMessage ==
  /\ Grows /\ open = <<>>
  /\ messages # <<>> /\ Last(messages).role \in {"user", "tool"}
  /\ \E text \in BOOLEAN, k \in 0..MaxCalls, input \in {"json", "not json"} :
       LET calls == [i \in 1..k |-> [id |-> ids + i, input |-> IF i = 1 THEN input ELSE "json"]]
       IN  /\ ids + k <= MaxIds
           /\ messages' = Append(messages, Message("assistant", text, calls, "none"))
           /\ open' = calls /\ ids' = ids + k

AnswerCall ==
  /\ open # <<>>
  /\ messages' = Append(messages, Message("tool", TRUE, <<Head(open)>>, "none"))
  /\ open' = Tail(open)
  /\ UNCHANGED ids

IsSystem(m) == m.role = "system"
Spoken == SelectSeq(messages, LAMBDA m : ~IsSystem(m))

(* Mutant: the window is not widened.                                      *)
startUnwidened(keepNewest) == Len(Spoken) - keepNewest + 1

(* The window of the newest, widened backwards off a result.               *)
start(keepNewest) ==
  Max({ 1 } \cup { i \in 1 .. Len(Spoken) - keepNewest + 1 : Spoken[i].role # "tool" })

(* Every system message, the summary, and the newest of what was said.     *)
compactedMessages(keepNewest) ==
  SelectSeq(messages, IsSystem) \o << Message("system", TRUE, <<>>, "none") >>
    \o SubSeq(Spoken, start(keepNewest), Len(Spoken))

(* A compaction between turns; what is short enough is left as it is.      *)
Compact ==
  /\ open = <<>>
  /\ Len(messages) <= MaxMessages + MaxCalls
  /\ \E keepNewest \in 1 .. Len(Spoken) - 1 : messages' = compactedMessages(keepNewest)
  /\ UNCHANGED <<open, ids>>

Done == ~Grows /\ open = <<>> /\ UNCHANGED vars

Next ==
  \/ SystemMessage
  \/ UserMessage
  \/ AssistantMessage
  \/ AnswerCall
  \/ Compact
  \/ Done

Spec == Init /\ [][Next]_vars

-----------------------------------------------------------------------------
(* Properties; the model is asked when every call is answered.             *)

Asked == open = <<>>

TypeOK ==
  /\ Len(messages) <= MaxMessages + MaxCalls + 1
  /\ ids <= MaxIds
  /\ \A m \in DOMAIN to_claude_messages : to_claude_messages[m].content # <<>>
  /\ Len(to_openai_messages) = Len(messages)

(* The roles of Claude's conversation alternate, whatever was left out of  *)
(* it (merge_adjacent_messages).  It starts with the user, unless what a   *)
(* compaction has kept starts with a reply.                                *)
RolesAlternate ==
  LET conversation == to_claude_messages
  IN  /\ \A m \in 1 .. Len(conversation) - 1 : conversation[m].role # conversation[m + 1].role
      /\ conversation # <<>> /\ conversation[1].role # "user" => Spoken[1].role = "assistant"

(* All the calls of a message are answered by the one that follows it,     *)
(* before anything else is said in it, and nothing else is answered: also  *)
(* behind a compaction no result is without its call (compactedMessages).  *)
OfType(m, type) == SelectSeq(m.content, LAMBDA b : b.type = type)

CallsAnsweredNext ==
  LET conversation == to_claude_messages
  IN  Asked =>
        \A m \in DOMAIN conversation :
          LET uses == OfType(conversation[m], "tool_use")
              results == OfType(conversation[m], "tool_result")
          IN  /\ IsPrefix(results, conversation[m].content)
              /\ m = 1 => results = <<>>
              /\ m = Len(conversation) => uses = <<>>
              /\ m < Len(conversation) =>
                   OfType(conversation[m + 1], "tool_result")
                     = [i \in DOMAIN uses |-> ToolResult(uses[i].of)]

(* Both providers are given the same conversation: the texts, calls and    *)
(* results of one, in order, are those of the other, but that Claude gets  *)
(* an empty object for an input that is no JSON (claude.py:199-203).       *)
Flat(list, Of(_)) == FoldLeft(LAMBDA all, m : all \o Of(m), <<>>, list)
Said(blocks) == SelectSeq(blocks, LAMBDA b : b.type # "attachment")
Called(call) == ToolUse(call.id, IF call.input = "json" THEN call.input ELSE "{}")

SameConversation ==
  Flat(to_claude_messages, LAMBDA m : Said(m.content))
    = Flat(SelectSeq(to_openai_messages, LAMBDA m : m.role # "system"),
           LAMBDA m : Said(m.content) \o [i \in DOMAIN m.tool_calls |-> Called(m.tool_calls[i])])

=============================================================================
