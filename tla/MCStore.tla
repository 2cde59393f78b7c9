------------------------------- MODULE MCStore ------------------------------
(***************************************************************************)
(* A small instance of Store: two sessions, two records besides the first. *)
(***************************************************************************)
EXTENDS Store

CONSTANTS started, r1, r2

MCInitialRecords == { <<>>, << r1, r2 >> }
=============================================================================
