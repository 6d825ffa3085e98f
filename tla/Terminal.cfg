CONSTANTS
    Humans = {h1}
    Posts = {p1}
    Files = {f1}
    Others = {}
    MaxVersion = 1
    MaxChanges = 1
    MaxTime = 2
    MaxMishaps = 0
    Limit = 1
    None = None
    Zone <- MCZone
SPECIFICATION Spec
CHECK_DEADLOCK FALSE
INVARIANTS
    PagesComplete
    CaughtUp
