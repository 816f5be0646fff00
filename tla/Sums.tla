--------------------------------- MODULE Sums ---------------------------------
(* Sums that the accounts of the system are compared with. *)
EXTENDS Integers, FiniteSets, FiniteSetsExt

\* The sum of what f gives to the elements of its domain.
Total(f) == MapThenSumSet(LAMBDA x : f[x], DOMAIN f)
===============================================================================
