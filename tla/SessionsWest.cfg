CONSTANTS
    Users = {u1}
    Tokens = {t1, t2}
    Flows = {f1}
    Nothing = Nothing
    MaxSessions = 1
    SessionDuration = 3
    FlowDuration = 1
    IdleLimit = 4
    Offset <- FarBehind
    MaxTime = 3
    MaxPolls = 1
    MaxTouches = 1
    MaxStoreErrors = 0
    MaxRestarts = 0
SPECIFICATION Spec
PROPERTIES
    FlowsKeptUntilExpiry
