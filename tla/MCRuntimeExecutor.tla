-------------------------- MODULE MCRuntimeExecutor --------------------------
(***************************************************************************)
(* Small instances of RuntimeExecutor for TLC.                             *)
(***************************************************************************)
EXTENDS RuntimeExecutor, TLC
=============================================================================
