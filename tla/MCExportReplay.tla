---------------------------- MODULE MCExportReplay ----------------------------
(* Instances of ExportReplay for TLC. *)
EXTENDS ExportReplay, TLC

CONSTANTS charge, fetch, approve

\* charge; then fetch, or raise if it failed; then more calls than the budget.
Order(h) ==
    CASE Len(h) = 0 -> {charge}
      [] Len(h) = 1 -> IF h[1] = "no" THEN {"raise"} ELSE {approve}
      [] Len(h) = 2 -> IF h[2] = "no" THEN {"return"} ELSE {fetch}
      [] OTHER      -> {"return"}

\* The encoding of one of the histories is too long.
Long(b) == Len(b.calls) = 2 /\ b.calls[2].outcome = "no"

Symmetry == Permutations(Exporter)
===============================================================================
