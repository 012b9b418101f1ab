------------------------------ MODULE MCWindow ------------------------------
(* Instances of Window for TLC.                                            *)
EXTENDS Window

CONSTANT p1

=============================================================================
