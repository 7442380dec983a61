SPECIFICATION SettlingSpec
CONSTANTS
    Names = {n1}
    Requests = {}
    PolicyLoop = policy
    RepairLoop = repair
    NoName = NoName
    NoOne = NoOne
    Faults = {"operator"}
PROPERTIES
    SamplingNotBlocked
CHECK_DEADLOCK FALSE
