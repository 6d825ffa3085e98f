CONSTANTS
    Clients = {c1}
    Names = {ann}
    NoName = NoName
    HubLoop = HubLoop
    SendBufferSize = 1
    BroadcastBufferSize = 2
    MaxEvents = 2
    MaxIdentifies = 1
SPECIFICATION FairSpec
PROPERTIES
    ConnectionsEnd
    EventuallyDelivered
