CONSTANTS
    Clients = {c1, c2}
    Names = {ann}
    NoName = NoName
    HubLoop = HubLoop
    SendBufferSize = 1
    BroadcastBufferSize = 1
    MaxEvents = 1
    MaxIdentifies = 1
SPECIFICATION Spec
SYMMETRY Symmetry
INVARIANTS
    TypeOK
    NoPanic
    Lifecycle
    GapFree
    LeavesNoTrace
    NoGhostUser
    LastSnapshotCurrent
    CountDrifts
PROPERTIES
    ImplementsFeed
