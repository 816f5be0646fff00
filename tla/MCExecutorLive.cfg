\* Three attempts, two of them of one run.
CONSTANTS
    a1 = a1  a2 = a2  a3 = a3  r1 = r1  r2 = r2
    NoAttempt = NoAttempt
    Attempt = {a1, a2, a3}
    Run = {r1, r2}
    RunOf <- SharedRun
    MaxRunning = 1
    MaxResident = 2
    MaxInflightTools = 1
    MaxQueued = 1
    MaxReadyBurst = 1
SPECIFICATION FairSpec
INVARIANTS DrainExact
PROPERTIES ResultsAreFinal AttemptsEnd CancelledAttemptsEnd
CHECK_DEADLOCK FALSE
