---------------------------- MODULE MCSnapshots ----------------------------
(***************************************************************************)
(* An instance of Snapshots small enough for TLC.                          *)
(***************************************************************************)
EXTENDS Snapshots

\* Everything may go wrong.
AllFaults == FaultKinds

=============================================================================
