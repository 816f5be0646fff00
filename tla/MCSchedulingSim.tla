---------------------------- MODULE MCSchedulingSim ----------------------------
(***************************************************************************)
(* An instance of SchedulingSim: three tasks, seven traces that put each   *)
(* kind of phase after each other, and all policies.                       *)
(***************************************************************************)
EXTENDS SchedulingSim

C(n) == [kind |-> "cpu", duration |-> n]
X(n) == [kind |-> "external_io", duration |-> n]
W(n) == [kind |-> "durable_wait", duration |-> n]

SomeTraces == {<<C(2)>>, <<C(1), X(1), C(1)>>, <<C(1), X(2), X(1)>>,
               <<C(1), W(1), C(1)>>, <<C(1), X(1), W(1)>>, <<C(1), C(1), X(1)>>,
               <<C(1), W(1), X(1)>>}

SomeConfigs == {[MaxRunning |-> n, MaxResident |-> n + m, MaxInflightTools |-> 1,
                 MaxQueued |-> q, LiveIO |-> l, Policy |-> p] :
                n \in {1, 2}, m \in {0, 1}, q \in {0, 1}, l \in BOOLEAN, p \in {"fifo", "ready_first", "finish_soon"}}
===============================================================================
