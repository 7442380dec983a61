----------------------------- MODULE MCTraffic -----------------------------
(***************************************************************************)
(* An instance of TrafficQuota small enough for TLC.                       *)
(***************************************************************************)
EXTENDS TrafficQuota

\* One that is refused, none, and one that takes traffic in both directions.
SomeQuotas == {-1, 0, 2}

\* One that is left out, and one that the counters may be below or above.
SomeBaselines == {0, 1}

=============================================================================
