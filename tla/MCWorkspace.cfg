\* Four requests of any kind on one workspace, two slots.
CONSTANTS
    Request = {q1, q2, q3, q4}
    Ref = {w}
    NoRef = NoRef
    MaxActive = 2
SPECIFICATION FairSpec
INVARIANTS SlotsExact GuestHasTree OneHand NothingLeaks
PROPERTIES RequestsEnd
CHECK_DEADLOCK FALSE
