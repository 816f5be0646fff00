--------------------------- MODULE MCDurableService ---------------------------
(***************************************************************************)
(* An instance of DurableService.  time.Millisecond is 4 and an int64 has  *)
(* five bits, so that the product of a timeout_ms of 8 wraps to 0.         *)
(***************************************************************************)
EXTENDS DurableService, TLC

CONSTANTS c1, c2, r1, r2

\* c1 works with r1, which c2 cancels; an attempt of r2 competes for the slot.
Requests == {c1} \X {"create", "get", "attempt", "resolve"} \X {r1}
            \cup {<<c2, "attempt", r2>>, <<c2, "cancel", r1>>}
===============================================================================
