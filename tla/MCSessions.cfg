SPECIFICATION Spec
CONSTANTS
    Addresses = {a1}
    Requests = {r1, r2, r3}
    Ids = {i1, i2}
    Nothing = Nothing
    Limit = 2
    Window = 1
    Lifetime = 1
INVARIANTS
    TypeOK
    AttemptsAreBounded
    EndedSessionsAuthoriseNothing
PROPERTIES
    WindowIsFixed
    LockoutEnds
