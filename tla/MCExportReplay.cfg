\* A deterministic program of at most two calls and one over the budget; two
\* exporters to one path.  A tool's result may be no JSON.
CONSTANTS
    charge = charge  fetch = fetch  approve = approve
    Request = {charge, fetch, approve}
    Outcome = {"yes", "no", "bad", "budget"}
    Program <- Order
    MaxToolCalls = 2
    Exporter = {e1, e2}
    Bare = {"bad"}
    Oversized <- Long
    DefaultPage = 1
    MaxPage = 2
SPECIFICATION Spec
SYMMETRY Symmetry
INVARIANTS  VerdictRight PagesComplete
CHECK_DEADLOCK FALSE
