CONSTANTS
    g1 = g1
    c1 = c1
    Guilds = {g1}
    Channels = {c1}
    GuildOf <- MCGuildOf
    MaxReadys = 2
    MaxChanges = 2
    MaxCalls = 1
    MaxFaults = 1
SPECIFICATION Spec
CHECK_DEADLOCK FALSE
INVARIANTS
    CatalogFollows
    NeverDenied
PROPERTIES
    NeverVanishes
