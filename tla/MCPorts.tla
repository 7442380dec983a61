------------------------------ MODULE MCPorts ------------------------------
(***************************************************************************)
(* Instances of PortForwards small enough for TLC.                         *)
(***************************************************************************)
EXTENDS PortForwards, TLC

\* One number under either protocol, and a second number.
TwoPorts == {<<"tcp", 1>>, <<"udp", 1>>}

\* Two numbers, both in the range for SSH.
SshPair == {<<"tcp", 1>>, <<"tcp", 2>>}

Symmetry == Permutations(Names) \cup Permutations(Addresses) \cup Permutations(Requests)

=============================================================================
