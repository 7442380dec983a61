SPECIFICATION SettlingSpec
CONSTANTS
    Names = {n1, n2}
    Requests = {}
    PolicyLoop = policy
    RepairLoop = repair
    NoName = NoName
    NoOne = NoOne
    Faults = {"runtime", "database", "crash"}
PROPERTIES
    LimitsAreEnforced
    DriftIsRepaired
CHECK_DEADLOCK FALSE
