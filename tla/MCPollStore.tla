---------------------------- MODULE MCPollStore ----------------------------
(***************************************************************************)
(* Small instances of PollStore for TLC.                                   *)
(***************************************************************************)
EXTENDS PollStore, TLC

CONSTANTS x1, x2, r1, r2, p1, p2, d1, d2

\* the run of each poll: every poll its own, or one poll and one run
TwoRuns == p1 :> r1 @@ p2 :> r2
Single  == [p \in {p1} |-> r1]

=============================================================================
