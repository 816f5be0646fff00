\* Two clients, two runs, one slot and a queue of one.
CONSTANTS
    c1 = c1  c2 = c2  r1 = r1  r2 = r2
    Client = {c1, c2}
    Run = {r1, r2}
    NoClient = NoClient
    NoRun = NoRun
    Existing = {r2}
    Asked <- Requests
    MaxRunning = 1
    MaxQueued = 1
    MaxRunDuration = 4
    TimeoutMS = {NoTimeout, 0, 1, 3, 8}
    NoTimeout = NoTimeout
    Millisecond = 4
    MaxInt = 15
SPECIFICATION FairSpec
INVARIANTS AnswersStand CloseMeansQuiet
PROPERTY NothingHangs
CHECK_DEADLOCK FALSE
