\* Two processes whose declarations differ; one tool is scheduled as ExternalIO.
CONSTANTS
    p1 = p1  p2 = p2
    charge = charge  fetch = fetch  send = send  approve = approve  typo = typo
    Proc = {p1, p2}
    NoProc = NoProc
    Request = {charge, fetch, send, approve, typo}
    Recovery <- Recoveries
    External = {fetch}
    Answer = {yes, no}
    Program <- Order
    MaxToolCalls = 3
    ReadAhead = 2
    Declaration <- TwoVersions
SPECIFICATION Spec
INVARIANTS ReplayFaithful EffectsAtMostOnce WaitingExact GuestAllowed ReportHonest OutcomeIsAnswer
PROPERTIES ImplementsLog
