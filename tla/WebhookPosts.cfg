CONSTANTS
    Senders = {s1, s2}
    Keys = {k1}
    NoKey = NoKey
    Nobody = Nobody
    MaxMessages = 2
    MaxFaults = 2
    MaxStoreErrors = 1
    MaxDeletions = 1
    MaxRestarts = 1
SPECIFICATION FairSpec
INVARIANTS
    OneCreator
    RowAgrees
    SentOnce
PROPERTIES
    EverySendEnds
