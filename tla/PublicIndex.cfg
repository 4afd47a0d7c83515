SPECIFICATION Spec
CONSTANTS
    c1 = c1
    c2 = c2
    main = main
    noarch = noarch
    Clients = {c1, c2}
    Repos = {main, noarch}
    MaxVersion = 2
    PersistentWorker = TRUE
    None = None
    Failed = Failed
CHECK_DEADLOCK FALSE
SYMMETRY Symmetry
PROPERTIES
    ReloadsWhenChanged
