----------------------------- MODULE MCSessions -----------------------------
(***************************************************************************)
(* An instance of Sessions small enough for TLC.                           *)
(***************************************************************************)
EXTENDS Sessions

=============================================================================
