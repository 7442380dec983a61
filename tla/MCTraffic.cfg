SPECIFICATION Spec
CONSTANTS
    Quotas <- SomeQuotas
    Baselines <- SomeBaselines
    NoPolicy = NoPolicy
    MaxTotal = 3
INVARIANTS
    TypeOK
    NeverOvercharged
    PolicyStopsAreDeserved
    OverageIsBounded
