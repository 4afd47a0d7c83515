SPECIFICATION FairSpec
CONSTANTS
    c1 = c1
    c2 = c2
    k1 = k1
    k2 = k2
    Clients = {c1, c2}
    Keys = {k1}
    IsFileStore = TRUE
    MaxSends = 3
    Janitor = Janitor
    None = None
INVARIANTS
    CompletedSetIsStored
    CallersAreServed
PROPERTIES
    NeverOvertaken
    Serializes
    ClosingEnds
