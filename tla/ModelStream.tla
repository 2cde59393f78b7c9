----------------------------- MODULE ModelStream -----------------------------
(***************************************************************************)
(* One request to a provider: the deferred adapter (llm/factory.py), the   *)
(* stream and what the adapter makes of it (llm/openai.py, llm/claude.py). *)
(* A reply is a number of pieces of content and of reasoning and, for each *)
(* call, a number of fragments of its arguments; <<i, n>> is fragment n of *)
(* call i.  OpenAI streams the fragments of its calls under their index in *)
(* any order, Claude one block after another.                              *)
(***************************************************************************)
EXTENDS Integers, Sequences, FiniteSets

CONSTANTS
  Provider,      \* "openai", which is also DeepSeek's, or "claude"
  MaxPieces,     \* bound: pieces of content and of reasoning
  MaxCalls,      \* bound: calls of a reply
  MaxFragments,  \* bound: fragments of a call
  MaxRequests    \* bound: requests of one model

ModelStreamAssumption ==
  /\ Provider \in {"openai", "claude"}
  /\ MaxPieces \in Nat /\ MaxCalls \in Nat /\ MaxFragments \in Nat \ {0} /\ MaxRequests \in Nat

Indices == 1..MaxCalls
Replies ==
  [content : 0..MaxPieces, reasoning : 0..MaxPieces, calls : UNION {[1..n -> 1..MaxFragments] : n \in 0..MaxCalls}]

VARIABLES
  reply,     \* what the provider is about to say
  sent,      \* how much of it: pieces, and fragments by call
  block,     \* Claude: the call whose block is open, or 0
  loaded,    \* whether the adapter of the provider is there
  requests,  \* requests so far
  got,       \* the accumulators of next
  current,   \* Claude: the call in the current_tool_use variables, and its input
  handed,    \* what on_stream_chunk was given
  outcome    \* what next ended with

provider == <<reply, sent, block>>
adapter == <<got, current, handed>>
vars == <<provider, loaded, requests, adapter, outcome>>

NoCall == [id |-> 0, input |-> <<>>]
NothingGot == [content |-> 0, reasoning |-> 0, refusal |-> FALSE, sawChoice |-> FALSE,
               builders |-> [i \in Indices |-> NoCall], calls |-> <<>>]
NothingSent == [content |-> 0, reasoning |-> 0, calls |-> [i \in Indices |-> 0]]

Init ==
  /\ reply \in Replies /\ sent = NothingSent /\ block = 0
  /\ loaded = FALSE /\ requests = 0
  /\ got = NothingGot /\ current = NoCall /\ handed = [content |-> 0, reasoning |-> 0]
  /\ outcome = [kind |-> "idle"]

(* The accumulators of a request are its own.                              *)
(* Mutant: they are those of the model.                                    *)
GotBefore == got

FreshlyGot == NothingGot

(* A request: the adapter is imported by the first one that comes, which   *)
(* may fail, and the stream is opened.                                     *)
next ==
  /\ outcome.kind # "streaming" /\ requests < MaxRequests
  /\ requests' = requests + 1
  /\ reply' \in (IF requests = 0 THEN {reply} ELSE Replies)
  /\ sent' = NothingSent /\ block' = 0
  /\ got' = FreshlyGot /\ current' = NoCall /\ handed' = [content |-> 0, reasoning |-> 0]
  /\ \/ loaded' = TRUE /\ outcome' = [kind |-> "streaming"]
     \/ loaded' \in {loaded, TRUE} /\ outcome' = [kind |-> "error"]

Streaming == outcome.kind = "streaming"

-----------------------------------------------------------------------------
(* What arrives.                                                           *)

(* Mutant: reasoning is accumulated but not passed on.                     *)
HandOverContent(c, r) == [handed EXCEPT !.content = @ + c]

HandOver(c, r) == [content |-> handed.content + c, reasoning |-> handed.reasoning + r]

(* A chunk of text, of reasoning, or, from OpenAI, of both.                *)
TextDelta ==
  /\ Streaming /\ block = 0
  /\ \E c, r \in 0..1 :
       /\ c + r > 0 /\ (Provider = "claude" => c + r = 1)
       /\ sent.content + c <= reply.content /\ sent.reasoning + r <= reply.reasoning
       /\ sent' = [sent EXCEPT !.content = @ + c, !.reasoning = @ + r]
       /\ got' = [got EXCEPT !.content = @ + c, !.reasoning = @ + r, !.sawChoice = TRUE]
       /\ handed' = HandOver(c, r)
  /\ UNCHANGED <<reply, block, current, loaded, requests, outcome>>

Refusal ==
  /\ Provider = "openai" /\ Streaming
  /\ got' = [got EXCEPT !.refusal = TRUE, !.sawChoice = TRUE]
  /\ UNCHANGED <<provider, current, handed, loaded, requests, outcome>>

(* The next fragment of call i; the provider starts its calls in order.    *)
Fragment(i) == <<i, sent.calls[i] + 1>>

Sends(i) ==
  /\ i <= Len(reply.calls) /\ sent.calls[i] < reply.calls[i]
  /\ i > 1 => sent.calls[i - 1] > 0
  /\ sent' = [sent EXCEPT !.calls[i] = @ + 1]

(* Mutant: a fragment without an id goes to the call that came last.       *)
BuilderOfLast(i) ==
  LET open == {j \in Indices : got.builders[j].id # 0}
  IN  IF sent.calls[i] = 0 \/ open = {} THEN i ELSE CHOOSE j \in open : \A k \in open : k <= j

Builder(i) == i

ToolCallDelta(i) ==
  /\ Provider = "openai" /\ Streaming /\ Sends(i)
  /\ got' = [got EXCEPT !.sawChoice = TRUE, !.builders[Builder(i)] =
               [id |-> IF sent.calls[i] = 0 THEN i ELSE @.id, input |-> Append(@.input, Fragment(i))]]
  /\ UNCHANGED <<reply, block, current, handed, loaded, requests, outcome>>

(* Claude: the block of a call opens when the one before is complete.      *)
ContentBlockStart(i) ==
  /\ Provider = "claude" /\ Streaming /\ block = 0
  /\ i <= Len(reply.calls) /\ sent.calls[i] = 0
  /\ i > 1 => sent.calls[i - 1] = reply.calls[i - 1]
  /\ block' = i
  /\ current' = [current EXCEPT !.id = i]
  /\ UNCHANGED <<reply, sent, got, handed, loaded, requests, outcome>>

InputJSONDelta(i) ==
  /\ Provider = "claude" /\ Streaming /\ block = i /\ Sends(i)
  /\ current' = [current EXCEPT !.input = Append(@, Fragment(i))]
  /\ UNCHANGED <<reply, block, got, handed, loaded, requests, outcome>>

(* Mutant: only the identity of the call is cleared.                       *)
AfterBlockKept == [current EXCEPT !.id = 0]

AfterBlock == NoCall

ContentBlockStop ==
  /\ Provider = "claude" /\ Streaming /\ block # 0
  /\ sent.calls[block] = reply.calls[block]
  /\ block' = 0
  /\ got' = [got EXCEPT !.calls = Append(@, current)]
  /\ current' = AfterBlock
  /\ UNCHANGED <<reply, sent, handed, loaded, requests, outcome>>

-----------------------------------------------------------------------------
(* How it ends.                                                            *)

Complete ==
  /\ sent.content = reply.content /\ sent.reasoning = reply.reasoning /\ block = 0
  /\ \A i \in 1..Len(reply.calls) : sent.calls[i] = reply.calls[i]

(* The builders in the order of their index.                               *)
Begun == {i \in Indices : got.builders[i] # NoCall}
Place(i) == Cardinality({j \in Begun : j <= i})
Built ==
  IF Provider = "claude" THEN got.calls
  ELSE [n \in 1..Cardinality(Begun) |-> got.builders[CHOOSE i \in Begun : Place(i) = n]]

Response == [kind |-> "response", content |-> got.content, reasoning |-> got.reasoning, calls |-> Built]
Error == [kind |-> "error"]

(* Mutant: a reply that ran into the token limit is taken as it is.        *)
OutcomeTruncated(reason) ==
  IF (Provider = "openai" /\ ~got.sawChoice) \/ got.refusal THEN Error ELSE Response

Outcome(reason) ==
  IF (Provider = "openai" /\ ~got.sawChoice) \/ reason = "length" \/ got.refusal THEN Error
  ELSE Response

(* The provider stops because all is said, or at its token limit, wherever *)
(* that falls.                                                             *)
Finish(reason) ==
  /\ Streaming
  /\ reason = "stop" => Complete
  /\ outcome' = Outcome(reason)
  /\ UNCHANGED <<provider, loaded, requests, adapter>>

(* The connection fails, or the task of the request is cancelled.          *)
Fail ==
  /\ Streaming
  /\ outcome' \in {Error, [kind |-> "cancelled"]}
  /\ UNCHANGED <<provider, loaded, requests, adapter>>

Done == requests = MaxRequests /\ ~Streaming /\ UNCHANGED vars

Next ==
  \/ next \/ TextDelta \/ Refusal \/ ContentBlockStop \/ Fail \/ Done
  \/ \E i \in Indices : ToolCallDelta(i) \/ ContentBlockStart(i) \/ InputJSONDelta(i)
  \/ \E reason \in {"stop", "length"} : Finish(reason)

Spec == Init /\ [][Next]_vars

-----------------------------------------------------------------------------
(* Properties.                                                             *)

TypeOK ==
  /\ reply \in Replies
  /\ got.content = sent.content /\ got.reasoning = sent.reasoning
  /\ outcome.kind \in {"idle", "streaming", "response", "error", "cancelled"}
  /\ Streaming => loaded

(* A response is the whole reply: each call under its own identity, its    *)
(* arguments complete and in order, however the fragments of several calls *)
(* were interleaved; a reply cut off by the token limit gives none ("rather*)
(* than handing a half-emitted tool-call argument string to the executor", *)
(* openai.py:46-47).                                                       *)
ResponseIsTheReply ==
  outcome.kind = "response" =>
    /\ outcome.content = reply.content /\ outcome.reasoning = reply.reasoning
    /\ outcome.calls =
         [i \in 1..Len(reply.calls) |->
            [id |-> i, input |-> [n \in 1..reply.calls[i] |-> <<i, n>>]]]

(* What was streamed is what is committed: nothing is in the response that *)
(* was not handed over as a chunk, and the other way round.                *)
ChunksAreTheResponse ==
  outcome.kind = "response" =>
    /\ handed.content = outcome.content /\ handed.reasoning = outcome.reasoning

=============================================================================
