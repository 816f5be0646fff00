---------------------------- MODULE MCDurableRun ----------------------------
(* Instances of DurableRun for TLC. *)
EXTENDS DurableRun, TLC

CONSTANTS p1, p2,
          charge,   \* a Lookup tool
          fetch,    \* a RetrySafe tool
          send,     \* a Manual tool
          approve,  \* a wait
          typo      \* an unknown tool

Mode == charge :> "lookup" @@ fetch :> "retry" @@ send :> "manual"
        @@ approve :> "wait" @@ typo :> "unknown"
Recoveries == [r \in Request |-> Mode[r]]

Last(h) == h[Len(h)]

\* A program that need not do the same in every attempt: it charges or sends,
\* asks for an approval, makes a mistake or returns, fetches when the approval
\* did not expire, and goes on calling when the budget of three calls is
\* exhausted.  An attempt may also do just what the one before it did.
Order(h) ==
    CASE Len(h) = 0 -> {charge, send}
      [] Len(h) = 1 -> {approve, typo, "return"}
      [] Len(h) = 2 -> IF Last(h) = "expired" THEN {"raise"} ELSE {fetch}
      [] Len(h) = 3 -> {fetch, "return"}
      [] OTHER      -> {"return"}

\* p2 has other declarations.
TwoVersions == [p \in Proc |-> IF p = p2 THEN "v2" ELSE "v1"]
=============================================================================
