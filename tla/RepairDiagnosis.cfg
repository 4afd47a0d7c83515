SPECIFICATION RepairSpec
CONSTANTS
    render = render
    alone = alone
    linux = linux
    osx = osx
    win = win
    Attempts = {0, 1, 2, 3}
    Requests = {0, 1, 2, 3, render, alone}
    Rendered = {render, alone}
    PlatformsOf <- TwoOrOne
    SpecLists <- SomeSpecLists
    SuggestionLimits = {1, 2}
    AttemptLimits = {1, 2}
    MaxWorkers = 2
    MaxCrashes = 1
    None = None
SYMMETRY Symmetry
CHECK_DEADLOCK FALSE
INVARIANTS
    DiagnosisIsConflict
