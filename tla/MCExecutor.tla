----------------------------- MODULE MCExecutor -----------------------------
(* Instances of Executor for TLC. *)
EXTENDS Executor, TLC

CONSTANTS a1, a2, a3, r1, r2

\* Every attempt has a run of its own, named after the attempt.
OwnRuns == [a \in Attempt |-> a]

\* Sound with OwnRuns: attempts (and with them their runs) are interchangeable.
Symmetry == Permutations(Attempt)

\* a1 and a2 are attempts of one run: re-admission, and ErrBusy before it.
SharedRun == a1 :> r1 @@ a2 :> r1 @@ a3 :> r2
=============================================================================
