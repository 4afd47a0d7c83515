SPECIFICATION Spec
CONSTANTS
    Fingerprints = {1, 2, 3, 4}
    Credentialed = {4}
    max_size = 2
    persist = TRUE
    MaxRequests = 2
    MaxAge = 0
    MaxTime = 1
    MaxGeneration = 2
    Foreign <- OtherCatalogs
    None = None
    Corrupt = Corrupt
CHECK_DEADLOCK FALSE
INVARIANTS
    MostRequestedKept
    PersistedIsStored
    CatalogBounded
PROPERTIES
    DisplacedByRepeats
