--------------------------- MODULE SnapshotStore ---------------------------
(***************************************************************************)
(* What the directory of snapshots promises to whoever reads it at any     *)
(* time: complete databases, each under a name of its own, that come and   *)
(* go one by one, and go only from below and beyond the retention.         *)
(***************************************************************************)
EXTENDS Integers, FiniteSets

CONSTANT Retention

VARIABLE snapshots \* files, each with its name and whether it is whole

Init == snapshots = {}

\* A complete file appears; it takes no other's place.
Add(f) ==
    /\ f.whole
    /\ \A g \in snapshots : g.name # f.name
    /\ snapshots' = snapshots \cup {f}

\* A file goes that as many as the retention sort after.
Drop(f) ==
    /\ Cardinality({g \in snapshots : g.name > f.name}) >= Retention
    /\ snapshots' = snapshots \ {f}

Next ==
    \/ \E f \in snapshots' \ snapshots : Add(f)
    \/ \E f \in snapshots \ snapshots' : Drop(f)

Spec == Init /\ [][Next]_snapshots

=============================================================================
