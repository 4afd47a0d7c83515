SPECIFICATION Spec
CONSTANTS
    c1 = c1
    c2 = c2
    main = main
    noarch = noarch
    Clients = {c1, c2}
    Repos = {main}
    MaxVersion = 2
    PersistentWorker = FALSE
    None = None
    Failed = Failed
CHECK_DEADLOCK FALSE
SYMMETRY Symmetry
PROPERTIES
    PermalinkImmutable
