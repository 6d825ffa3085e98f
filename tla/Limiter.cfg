CONSTANTS
    Sessions = {s1}
    Endpoints = {file}
    Burst <- FileBurst
    Rate <- FileRate
    Cost = 1
    IdleAfter = 3
    MaxPause = 1
    Requests = {r1, r2}
    MaxTime = 8
    MaxLimiters = 3
    MaxGrants = 4
    MaxRefusals = 4
    MaxWindows = 1
SPECIFICATION Spec
CHECK_DEADLOCK FALSE
INVARIANTS
    TypeOK
    GrantsBounded
    OneLimiter
PROPERTIES
    ImplementsTokenBucket
