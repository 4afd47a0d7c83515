SPECIFICATION Spec
CONSTANTS
    f1 = f1
    w1 = w1
    shards = shards
    Foreground = {f1}
    Refreshers = {w1}
    Repos = {shards}
    Sharded = {shards}
    Persistent = TRUE
    MaxVersion = 2
    None = None
VIEW CacheView
CHECK_DEADLOCK FALSE
INVARIANTS
    NoOtherVersion
    OnlyLapsesFallBack
PROPERTIES
    NeverRegresses
    RefreshIsPersistent
