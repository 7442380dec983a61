SPECIFICATION ProvisioningSpec
CONSTANTS
    Names = {n1}
    Requests = {r1}
    PolicyLoop = policy
    RepairLoop = repair
    NoName = NoName
    NoOne = NoOne
    Faults = {}
INVARIANTS
    FailedCreationLeavesNothing
