SPECIFICATION Spec
CONSTANTS
    Names = {n1, n2}
    Listens <- SshPair
    SshPorts = {1, 2}
    Addresses = {a1, a2}
    Requests = {r1, r2}
    NoName = NoName
    NoOne = NoOne
    RuntimeFails = TRUE
    MaxMeddling = 1
SYMMETRY Symmetry
INVARIANTS
    TypeOK
    OnePortOneContainer
    AllocationIsIdempotent
    PreflightSuffices
PROPERTIES
    PortsAreRegistered
