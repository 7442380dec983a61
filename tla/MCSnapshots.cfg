SPECIFICATION Spec
CONSTANTS
    ConfiguredRetention = 2
    Faults <- AllFaults
    MaxClock = 4
    MaxPublished = 5
    MaxCopies = 1
INVARIANTS
    TypeOK
    SnapshotsAreWhole
    RetentionIsKept
    TemporariesAreExplained
PROPERTIES
    NewestAreKept
    ExcessIsRemoved
    SnapshotsAreStored
