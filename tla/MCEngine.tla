------------------------------ MODULE MCEngine ------------------------------
(***************************************************************************)
(* A small instance of Engine: one turn task, two command tasks, batches   *)
(* of one and two calls, and a transcript for replace_messages.            *)
(***************************************************************************)
EXTENDS Engine

CONSTANTS i1, i2, b1, c1, c2

Call(id) == [id |-> id, body |-> b1]

MCBatches == { << Call(i1) >>, << Call(i1), Call(i2) >> }

MCInitialMessages == << [role |-> "system", calls |-> <<>>, call |-> NoCall, outcome |-> "said"] >>

MCTranscripts == { MCInitialMessages }
=============================================================================
