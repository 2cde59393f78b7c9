------------------------------ MODULE Transcript ------------------------------
(***************************************************************************)
(* The transcript (tui/transcript/model.py): which messages a key expands, *)
(* what a copy takes, how calls are grouped and how a result is folded.    *)
(* A line is what the code tells apart: a fence, an empty line or a text.  *)
(***************************************************************************)
EXTENDS Integers, Sequences, SequencesExt

CONSTANTS
  MaxMessages,  \* bound: messages
  MaxLines,     \* bound: lines of a message
  MaxCalls      \* bound: calls of a message

TranscriptAssumption == MaxMessages \in Nat /\ MaxLines \in Nat /\ MaxCalls \in Nat

Fence == "fence"
Lines == {Fence, "", "text"}
Keys == {"ctrl+o", "alt+o", "ctrl+r", "alt+r", "ctrl+y"}

VARIABLES
  messages,          \* committed messages
  expandLatestTools, expandAllTools, expandLatestThink, expandAllThink,
  copied             \* the intent of the last copy: a block, or an error

flags == <<expandLatestTools, expandAllTools, expandLatestThink, expandAllThink>>
vars == <<messages, flags, copied>>

-----------------------------------------------------------------------------
(* Tool calls, as they are summed up.                                      *)

(* The verb and the noun of a call.                                        *)
toolDisplay(name) ==
  CASE name \in {"read_file"} -> <<"Read", "files">>
    [] name \in {"write_file", "apply_patch"} -> <<"Edited", "files">>
    [] name \in {"run_command", "bash", "git_status", "git_diff"} -> <<"Ran", "commands">>
    [] name \in {"search", "web_search"} -> <<"Searched", "queries">>
    [] name = "browser_fetch" -> <<"Fetched", "pages">>
    [] name = "list_files" -> <<"Listed", "paths">>
    [] OTHER -> <<"Called", "tools">>

(* Mutant: a call joins any group of its kind, not only the last.          *)
JoinsAny(groups, k) == {g \in DOMAIN groups : groups[g].shown = k}

Joins(groups, k) ==
  IF groups # <<>> /\ Last(groups).shown = k THEN {Len(groups)} ELSE {}

toolGroups(calls) ==
  LET add(groups, call) ==
        LET k == toolDisplay(call)
            at == Joins(groups, k)
        IN  IF at = {} THEN Append(groups, [shown |-> k, items |-> <<call>>])
            ELSE LET g == CHOOSE i \in at : TRUE
                 IN  [groups EXCEPT ![g].items = Append(@, call)]
  IN  FoldLeft(add, <<>>, calls)

-----------------------------------------------------------------------------
(* Code blocks.                                                            *)

(* Mutant: a block that is not closed counts as one.                       *)
ClosedAtEnd(s) == IF s.in THEN Append(s.blocks, s.current) ELSE s.blocks

Closed(s) == s.blocks

extract_code_blocks(content) ==
  LET step(s, line) ==
        CASE line = Fence /\ s.in -> [in |-> FALSE, current |-> <<>>, blocks |-> Append(s.blocks, s.current)]
          [] line = Fence /\ ~s.in -> [s EXCEPT !.in = TRUE]
          [] line # Fence /\ s.in -> [s EXCEPT !.current = Append(@, line)]
          [] OTHER -> s
  IN  Closed(FoldLeft(step, [in |-> FALSE, current |-> <<>>, blocks |-> <<>>], content))

-----------------------------------------------------------------------------
(* Rendering.                                                              *)

strip(content) ==
  LET kept == {i \in DOMAIN content : content[i] # ""}
  IN  IF kept = {} THEN <<>>
      ELSE SubSeq(content, CHOOSE i \in kept : \A j \in kept : i <= j,
                           CHOOSE i \in kept : \A j \in kept : j <= i)

(* The lines of a result that are shown, and how many are said to be left  *)
(* out.                                                                    *)
(* Mutant: the count is of the lines before they were trimmed.             *)
HiddenOfAll(content, shown) == Len(content) - shown

Hidden(content, shown) == Len(strip(content)) - shown

resultBlock(content, expanded) ==
  LET lines == strip(content)
      shown == IF expanded \/ lines = <<>> THEN Len(lines) ELSE 1
  IN  [shown |-> shown, hidden |-> IF lines = <<>> THEN 0 ELSE Hidden(content, shown)]

WithCalls == {i \in DOMAIN messages : messages[i].calls # <<>>}
WithReasoning == {i \in DOMAIN messages : messages[i].role = "assistant" /\ messages[i].reasoning}

(* Mutant: the latest message of all, expandable or not.                   *)
LatestOfAll(at) == Len(messages)

Latest(at) == IF at = {} THEN -1 ELSE CHOOSE i \in at : \A j \in at : j <= i

toolsExpanded(i) == expandAllTools \/ (expandLatestTools /\ i = Latest(WithCalls))
thinkingExpanded(i) == expandAllThink \/ (expandLatestThink /\ i = Latest(WithReasoning))

-----------------------------------------------------------------------------

Init ==
  /\ messages = <<>> /\ copied = <<"none">>
  /\ expandLatestTools = FALSE /\ expandAllTools = FALSE
  /\ expandLatestThink = FALSE /\ expandAllThink = FALSE

Message(role, content, calls, reasoning) ==
  [role |-> role, content |-> content, calls |-> calls, reasoning |-> reasoning]

append ==
  /\ Len(messages) < MaxMessages
  /\ \E content \in BoundedSeq(Lines, MaxLines) :
       \/ messages' = Append(messages, Message("tool", content, <<>>, FALSE))
       \/ \E r \in BOOLEAN : messages' = Append(messages, Message("assistant", content, <<>>, r))
       \/ \E calls \in BoundedSeq({"read_file", "bash", "git_diff"}, MaxCalls) :
            content = <<>> /\ messages' = Append(messages, Message("assistant", <<>>, calls, FALSE))
  /\ UNCHANGED <<flags, copied>>

(* Mutant: the two scopes are toggled apart.                               *)
ToggleAlone(latest, all) == latest' = ~latest /\ UNCHANGED all

Toggle(latest, all) == latest' = ~latest /\ all' = FALSE

copyIntent ==
  LET at == {i \in DOMAIN messages : extract_code_blocks(messages[i].content) # <<>>}
  IN  IF at = {} THEN <<"error">>
      ELSE <<"copy", Last(extract_code_blocks(messages[CHOOSE i \in at : \A j \in at : j <= i].content))>>

update(key) ==
  /\ UNCHANGED messages
  /\ CASE key = "ctrl+o" -> Toggle(expandLatestTools, expandAllTools)
                            /\ UNCHANGED <<expandLatestThink, expandAllThink, copied>>
       [] key = "alt+o" -> Toggle(expandAllTools, expandLatestTools)
                            /\ UNCHANGED <<expandLatestThink, expandAllThink, copied>>
       [] key = "ctrl+r" -> Toggle(expandLatestThink, expandAllThink)
                            /\ UNCHANGED <<expandLatestTools, expandAllTools, copied>>
       [] key = "alt+r" -> Toggle(expandAllThink, expandLatestThink)
                            /\ UNCHANGED <<expandLatestTools, expandAllTools, copied>>
       [] key = "ctrl+y" -> copied' = copyIntent /\ UNCHANGED flags

Next == append \/ \E key \in Keys : update(key)

Spec == Init /\ [][Next]_vars

-----------------------------------------------------------------------------
(* Properties.                                                             *)

TypeOK ==
  /\ Len(messages) <= MaxMessages
  /\ ~(expandLatestTools /\ expandAllTools) /\ ~(expandLatestThink /\ expandAllThink)
  /\ copied[1] \in {"none", "error", "copy"}

(* The summaries name every call of the message, in order, and two         *)
(* neighbours are summaries of different things (toolGroups).              *)
GroupsAreTheCalls ==
  \A m \in DOMAIN messages :
    LET groups == toolGroups(messages[m].calls)
    IN  /\ FoldLeft(LAMBDA all, g : all \o g.items, <<>>, groups) = messages[m].calls
        /\ \A g \in DOMAIN groups : g > 1 => groups[g].shown # groups[g - 1].shown
        /\ \A g \in DOMAIN groups : \A i \in DOMAIN groups[g].items :
             toolDisplay(groups[g].items[i]) = groups[g].shown

(* "the folded form keeps the first line and counts the rest rather than   *)
(* truncating silently" (model.py:362-363): what is hidden is what         *)
(* expanding would show.                                                   *)
FoldCountsTheRest ==
  \A m \in DOMAIN messages :
    LET folded == resultBlock(messages[m].content, FALSE)
        whole == resultBlock(messages[m].content, TRUE)
    IN  /\ folded.shown + folded.hidden = whole.shown /\ whole.hidden = 0
        /\ (folded.shown = 0) = (\A i \in DOMAIN messages[m].content : messages[m].content[i] = "")

(* The text between the fences number 2k - 1 and 2k of a message, for the  *)
(* greatest k of the newest message that has one: an open block is never   *)
(* copied (extract_code_blocks).                                           *)
LastBlock(content) ==
  LET fences == SetToSortSeq({i \in DOMAIN content : content[i] = Fence}, <)
      k == Len(fences) \div 2
  IN  IF k = 0 THEN <<"error">>
      ELSE <<"copy", SubSeq(content, fences[2 * k - 1] + 1, fences[2 * k] - 1)>>

CopyTakesLastBlock ==
  LET blocks == SelectSeq([m \in DOMAIN messages |-> LastBlock(messages[m].content)],
                          LAMBDA b : b[1] = "copy")
  IN  copyIntent = IF blocks = <<>> THEN <<"error">> ELSE Last(blocks)

(* What "latest" expands is what it says, and only it: a newer message     *)
(* that cannot be expanded does not take the expansion away from it.       *)
ExpandableStaysExpanded ==
  /\ expandLatestTools /\ WithCalls # {} => \E i \in WithCalls : toolsExpanded(i)
  /\ expandLatestThink /\ WithReasoning # {} => \E i \in WithReasoning : thinkingExpanded(i)

=============================================================================
