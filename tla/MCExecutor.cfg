\* Four attempts of four runs.
CONSTANTS
    a1 = a1  a2 = a2  a3 = a3  r1 = r1  r2 = r2
    NoAttempt = NoAttempt
    Attempt = {a1, a2, a3, a4}
    Run = {a1, a2, a3, a4}
    RunOf <- OwnRuns
    MaxRunning = 1
    MaxResident = 3
    MaxInflightTools = 1
    MaxQueued = 2
    MaxReadyBurst = 1
SPECIFICATION Spec
SYMMETRY Symmetry
INVARIANTS TypeOK CapacityExact QueuesExact WorkConserving BoundedOvertaking ExecutingHoldsSlot
CHECK_DEADLOCK FALSE
