-------------------------- MODULE MCMonitorEngine --------------------------
(***************************************************************************)
(* Small instances of MonitorEngine for TLC.                               *)
(***************************************************************************)
EXTENDS MonitorEngine, TLC

\* for the runs that check no liveness
Symmetry == Permutations(Device) \cup Permutations(Flow) \cup Permutations(Addr)
=============================================================================
