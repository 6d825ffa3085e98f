CONSTANTS
    Users = {u1, u2}
    Tokens = {t1, t2, t3}
    Flows = {f1}
    Nothing = Nothing
    MaxSessions = 1
    SessionDuration = 1
    FlowDuration = 1
    IdleLimit = 3
    Offset <- OneBehind
    MaxTime = 2
    MaxPolls = 1
    MaxTouches = 1
    MaxStoreErrors = 1
    MaxRestarts = 1
SPECIFICATION Spec
SYMMETRY Symmetry
INVARIANTS
    TypeOK
    TokenOpensSession
    LastSeenCatchesUp
PROPERTIES
    LimitRestored
    NoResurrection
    LostForCause
    FlowsKept
