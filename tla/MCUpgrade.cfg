SPECIFICATION Spec
CONSTANTS
    Faults <- AllFaults
    MaxAttempts = 3
INVARIANTS
    TypeOK
    AllOrNothing
    ServiceComesBack
PROPERTIES
    OldIsRecoverable
CHECK_DEADLOCK FALSE
