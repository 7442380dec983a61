----------------------------- MODULE MCUpgrade -----------------------------
(***************************************************************************)
(* An instance of Upgrade small enough for TLC.                            *)
(***************************************************************************)
EXTENDS Upgrade

\* Everything may go wrong.
AllFaults == FaultKinds

=============================================================================
