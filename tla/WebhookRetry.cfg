CONSTANTS
    Senders = {s1, s2}
    Keys = {k1}
    NoKey = NoKey
    Nobody = Nobody
    MaxMessages = 3
    MaxFaults = 0
    MaxStoreErrors = 0
    MaxDeletions = 1
    MaxRestarts = 0
SPECIFICATION Spec
INVARIANTS
    RetrySurvivesDeletion
