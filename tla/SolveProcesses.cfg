SPECIFICATION ProcessSpec
CONSTANTS
    c1 = c1
    c2 = c2
    r1 = r1
    r2 = r2
    p1 = p1
    p2 = p2
    solve = solve
    upload = upload
    Callers = {c1, c2}
    Requests = {r1, r2}
    Procs = {p1, p2}
    RestartOnFailure = TRUE
    MaxFaults = 3
    None = None
    ChildRequests = {solve, upload}
    Parsers = {upload}
    MaxConcurrency = 1
    PoolWorkers = 2
    Forked = TRUE
    NoAnswer = NoAnswer
INVARIANTS
    SingleProcess
    RepliesMatch
    ReadyIsServing
    ChildrenHaveSlots
    AnswersAreHonest
PROPERTIES
    NoSpawnAfterShutdown
    LockIsReleased
    Recovers
    EveryRequestIsAnswered
    NothingIsLeftBehind
