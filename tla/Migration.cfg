CONSTANT MaxFaults = 3
SPECIFICATION Spec
CHECK_DEADLOCK FALSE
INVARIANTS
    VersionHonest
PROPERTIES
    FailsOnlyByFault
    VersionNeverFalls
