SPECIFICATION ProvisioningSpec
CONSTANTS
    Names = {n1, n2}
    Requests = {r1, r2}
    PolicyLoop = policy
    RepairLoop = repair
    NoName = NoName
    NoOne = NoOne
    Faults = {"runtime", "database", "deadline", "client", "crash", "operator"}
SYMMETRY Symmetry
INVARIANTS
    RollbackOnlyOwn
    CleanupFailuresAreRecorded
    RollbackIsAudited
