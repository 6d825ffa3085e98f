CONSTANTS
    Humans = {h1}
    Posts = {p1}
    Files = {f1}
    Others = {o1}
    MaxVersion = 2
    MaxChanges = 2
    MaxTime = 0
    MaxMishaps = 1
SPECIFICATION RelaySpec
CHECK_DEADLOCK FALSE
INVARIANTS
    TableFollows
    StreamFollows
    AnnouncedOnce
PROPERTIES
    EventuallyConsistent
