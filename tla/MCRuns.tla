------------------------------- MODULE MCRuns -------------------------------
(***************************************************************************)
(* Small instances of three parts in which one run follows another: runs   *)
(* of the program, with the mark each leaves to the next (AppSession),     *)
(* queries and monitoring runs in the result table (ResultTable) and runs  *)
(* of the release workflow (ContinuousRelease).  They share no state: a    *)
(* behaviour is one of one part while the others rest, and Parts names the *)
(* parts to check.                                                         *)
(***************************************************************************)
EXTENDS AppSession, ResultTable, ContinuousRelease

CONSTANT Parts

MCAsked == <<{1, 2}, {1}>>

VARIABLE part
runVars == <<vars, resultVars, releaseVars, part>>

RunsInit ==
    /\ part \in Parts
    /\ Init
    /\ ResultInit
    /\ ReleaseInit
    /\ part # "release" => releases = [i \in Ids |-> None] /\ tag = None

SessionStep == part = "session" /\ Next /\ UNCHANGED <<resultVars, releaseVars, part>>
TableStep   == part = "table" /\ ResultNext /\ UNCHANGED <<vars, releaseVars, part>>
ReleaseStep == part = "release" /\ ReleaseNext /\ UNCHANGED <<vars, resultVars, part>>

RunsSpec == RunsInit /\ [][SessionStep \/ TableStep \/ ReleaseStep]_runVars
=============================================================================
