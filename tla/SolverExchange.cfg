SPECIFICATION FairExchange
CONSTANTS
    client1 = client1
    other = other
    k1 = k1
    k2 = k2
    Clients = {client1}
    Tasks = {client1, other}
    Keys = {k1, k2}
    MaxEntrySize = 3
    SizeLimits = {1, 2}
    ByteLimits = {2}
    Capacity = 1
    ResponseMax = 1
    ReadSize = 2
    BodySizes = {1, 3}
    MaxCalls = 1
    None = None
INVARIANTS
    ExchangeTypeOK
    MemoryIsBounded
    HoldsMostRecent
PROPERTIES
    EvictsNoMore
    ReadsAreBounded
    EveryCallEnds
