SPECIFICATION Spec
CONSTANTS
    Names = {n1}
    Requests = {r1, r2}
    PolicyLoop = policy
    RepairLoop = repair
    NoName = NoName
    NoOne = NoOne
    Faults = {"runtime", "database", "deadline", "client", "crash", "operator"}
SYMMETRY Symmetry
INVARIANTS
    TypeOK
    MutationsAreSerialised
    CreatedAreManaged
    RowOutlivesInstance
    SuccessesAreTrue
    AgreementAtRest
    PlansAreCurrent
PROPERTIES
    RepairKeepsDeclarations
    RepairsOnlyRepair
    LoopsSettle
CHECK_DEADLOCK FALSE
