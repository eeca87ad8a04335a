------------------------------ MODULE MCRunner ------------------------------
(***************************************************************************)
(* Small instances of Runner: up to two runs, of one workflow or of two,   *)
(* and channels of capacity one.                                           *)
(***************************************************************************)
EXTENDS Runner
=============================================================================
