---------------------------- MODULE MCDurableStore ----------------------------
(***************************************************************************)
(* An instance of DurableStore.                                            *)
(***************************************************************************)
EXTENDS DurableStore, TLC

CONSTANTS p1, p2, p3

Processes == Permutations(Process)
===============================================================================
