SPECIFICATION Spec
CONSTANTS
    Names = {n1}
    Listens <- TwoPorts
    SshPorts = {1}
    Addresses = {a1, a2}
    Requests = {r1}
    NoName = NoName
    NoOne = NoOne
    RuntimeFails = FALSE
    MaxMeddling = 0
SYMMETRY Symmetry
INVARIANTS
    ForwardsReachTheirContainer
