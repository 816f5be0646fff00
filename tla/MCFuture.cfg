\* Two requests of early-read tools and one of no tool; two pending reads, three calls.
CONSTANTS
    Request = {r1, r2, r3}
    Known = {r1, r2}
    Early = {r1, r2}
    NoRequest = NoRequest
    MaxPending = 2
    MaxToolCalls = 3
SPECIFICATION FairSpec
INVARIANTS AnswersMatch NoOrphanWorker
PROPERTY RunEnds
CHECK_DEADLOCK FALSE
