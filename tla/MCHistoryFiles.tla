--------------------------- MODULE MCHistoryFiles ---------------------------
(***************************************************************************)
(* Instances of HistoryFiles for TLC.  At first there is nothing at the    *)
(* path outside: the first export creates the file and the second one      *)
(* replaces it.  At the path in the exports root there may be a file, with *)
(* a row or without.                                                       *)
(***************************************************************************)
EXTENDS HistoryFiles, TLC

CONSTANTS r1, r2, raw1, rep1, out1

MCRawOf == raw1 :> r1

MCInit == Init /\ here[out1] = 0
MCSpec == MCInit /\ [][Next]_vars
=============================================================================
