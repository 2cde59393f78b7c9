--------------------------- MODULE MCAgentMachine ---------------------------
(***************************************************************************)
(* A small instance of AgentMachine: two ids and a call without one, two   *)
(* bodies, batches of up to three calls in which ids and bodies repeat.    *)
(***************************************************************************)
EXTENDS AgentMachine

CONSTANTS i1, i2, b1, b2

Call(id, body) == [id |-> id, body |-> body]

MCBatches ==
  { <<>>,
    << Call(i1, b1) >>,
    << Call(i1, b1), Call(i2, b2) >>,
    << Call(i1, b1), Call(i1, b2) >>,
    << Call(NoId, b1), Call(NoId, b1) >>,
    << Call(i1, b1), Call(NoId, b1), Call(i2, b1) >> }

MCInitialMessages == << [role |-> "system", calls |-> <<>>, call |-> NoCall, outcome |-> "said"] >>

MCTranscripts ==
  { MCInitialMessages,
    << AssistantMessage(<< Call(i2, b1) >>, "said"), ToolMessage(Call(i2, b1), "result"), UserMessage >> }
=============================================================================
