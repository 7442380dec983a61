---------------------------- MODULE PortRegistry ----------------------------
(***************************************************************************)
(* What port forwarding promises: the host's single public address is      *)
(* shared, and each public listen port belongs to at most one container.   *)
(***************************************************************************)
CONSTANTS Names,    \* container names
          Listens,  \* public ports, each a protocol and a number
          Nobody

VARIABLE owner

Init == owner \in [Listens -> Names \cup {Nobody}]

\* A container receives a port nobody has.
Assign(n, l) ==
    /\ owner[l] = Nobody
    /\ owner' = [owner EXCEPT ![l] = n]

\* A container gives up ports: one of them, or, deleted, all it has.
Release(n, ls) ==
    /\ \A l \in ls : owner[l] = n
    /\ owner' = [l \in Listens |-> IF l \in ls THEN Nobody ELSE owner[l]]

Next ==
    \E n \in Names :
        \/ \E l \in Listens : Assign(n, l)
        \/ \E ls \in SUBSET Listens : Release(n, ls)

Spec == Init /\ [][Next]_owner

=============================================================================
