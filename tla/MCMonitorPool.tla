---------------------------- MODULE MCMonitorPool ----------------------------
(***************************************************************************)
(* A small instance of MonitorPool for TLC.                                *)
(***************************************************************************)
EXTENDS MonitorPool, TLC
=============================================================================
