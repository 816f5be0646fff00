------------------------------ MODULE Executor ------------------------------
(***************************************************************************)
(* Admission and live-wait scheduling of durable attempts                  *)
(* (durable/executor.go).                                                  *)
(*                                                                         *)
(* An attempt is admitted once.  It is queued, or its goroutine runs the   *)
(* Guest in a running slot.  An ExternalIO tool call gives the running     *)
(* slot up (yield), takes an inflight token, calls the Host, and asks for  *)
(* the slot back (reacquire); it then runs at once or waits in the ready   *)
(* queue for a permit.  Every queue and counter is guarded by the          *)
(* executor's mutex.  Actions that fit in one critical section are one     *)
(* step; scheduleLocked is a loop, taken one iteration per step by the     *)
(* goroutine that holds the mutex, while goroutines that need no mutex     *)
(* (contexts, permits, inflight tokens, Host callbacks) go on.             *)
(***************************************************************************)
EXTENDS Naturals, Sequences, FiniteSets

CONSTANTS
    Attempt,          \* the *Attempt objects of one execution
    NoAttempt,        \* nil
    Run,              \* durable run IDs
    RunOf,            \* the run ID each attempt is submitted for
    MaxRunning,       \* Guests allowed to execute Python
    MaxResident,      \* live Guests, those waiting in Host I/O included
    MaxInflightTools, \* ExternalIO callbacks in flight
    MaxQueued,        \* attempts that have no Guest yet
    MaxReadyBurst     \* maxReadyBurst

\* NewExecutor refuses any other limits.
ASSUME LimitsAssumption ==
    /\ MaxRunning \in Nat \ {0}
    /\ MaxResident \in Nat /\ MaxResident >= MaxRunning
    /\ MaxInflightTools \in Nat \ {0}
    /\ MaxQueued \in Nat
    /\ MaxReadyBurst \in Nat \ {0}

ASSUME AttemptAssumption ==
    /\ IsFiniteSet(Attempt)
    /\ NoAttempt \notin Attempt
    /\ RunOf \in [Attempt -> Run]

VARIABLES
    closed, drained,  \* Close was called; the drain channel is closed
    queue, ready,     \* attempts not yet started; continuations waiting for a slot
    readyBurst,       \* grants since the last admission, counted up to MaxReadyBurst
    running, resident,
    attempts,         \* run ID -> its live attempt
    external,         \* tokens in the external channel
    state,            \* attempt.state
    permit,           \* attempts whose permit field is a channel not yet closed
    gate,             \* where the attempt's goroutine is
    ctxDone,          \* attempts whose context is done
    aborting,         \* attempts whose AfterFunc goroutine runs abort
    cancelling,       \* runs whose Cancel has committed and waits for the mutex
    outcome,          \* what Attempt.Result returns once done is closed
    mutex,            \* the attempt whose goroutine is inside scheduleLocked
    passed            \* history: continuations that overtook an admissible queue head

executorVars == <<closed, drained, queue, ready, readyBurst, running, resident,
                  attempts, external>>
attemptVars  == <<state, permit, gate, ctxDone, aborting, cancelling, outcome>>
vars == <<executorVars, attemptVars, mutex, passed>>

-----------------------------------------------------------------------------
ResidentState == {"running", "waitingLive", "ready"}
LiveState     == ResidentState \cup {"queued"}

Running  == {a \in Attempt : state[a] = "running"}
Ready    == {a \in Attempt : state[a] = "ready"}
Resident == {a \in Attempt : state[a] \in ResidentState}
Queued   == {a \in Attempt : state[a] = "queued"}
Live     == Resident \cup Queued
Calling  == {a \in Attempt : gate[a] = "call"}

Unlocked == mutex = NoAttempt

\* removeReadyLocked and removeQueuedLocked: find the target, shift the rest down.
FirstIndex(s, a) == CHOOSE i \in DOMAIN s : s[i] = a /\ \A j \in 1..(i - 1) : s[j] # a
Without(s, a) ==
    IF \E i \in DOMAIN s : s[i] = a
    THEN [j \in 1..(Len(s) - 1) |-> IF j < FirstIndex(s, a) THEN s[j] ELSE s[j + 1]]
    ELSE s

\* maybeDrainLocked, after the attempts map became m.
MaybeDrain(c, m) == drained' = (drained \/ (c /\ \A r \in Run : m[r] = NoAttempt))

CanAdmit  == resident < MaxResident /\ queue # <<>>
\* Variant: scheduleLocked without maxReadyBurst.
PickReadyAlways == ready # <<>>

PickReady == ready # <<>> /\ (~CanAdmit \/ readyBurst < MaxReadyBurst)

\* A continuation takes a slot: the history counts it when it overtakes.
Overtakes == passed' = IF CanAdmit THEN passed + 1 ELSE passed

-----------------------------------------------------------------------------
Init ==
    /\ closed = FALSE /\ drained = FALSE
    /\ queue = <<>> /\ ready = <<>> /\ readyBurst = 0
    /\ running = 0 /\ resident = 0 /\ external = 0
    /\ attempts = [r \in Run |-> NoAttempt]
    /\ state = [a \in Attempt |-> "new"]
    /\ permit = {}
    /\ gate = [a \in Attempt |-> "none"]
    /\ ctxDone = {} /\ aborting = {} /\ cancelling = {}
    /\ outcome = [a \in Attempt |-> "none"]
    /\ mutex = NoAttempt
    /\ passed = 0

-----------------------------------------------------------------------------
(* The control plane: Admit, Cancel, Close, and a submit context that ends. *)

\* The guard both forms of Admit share; the early returns ErrClosed, ErrBusy
\* and, when neither form is enabled, ErrQueueFull change nothing.
Admissible(a) ==
    /\ Unlocked
    /\ state[a] = "new"
    /\ ~closed
    /\ attempts[RunOf[a]] = NoAttempt

AdmitNow(a) ==
    /\ Admissible(a)
    /\ running < MaxRunning /\ resident < MaxResident
    /\ attempts' = [attempts EXCEPT ![RunOf[a]] = a]
    /\ state' = [state EXCEPT ![a] = "running"]
    /\ gate' = [gate EXCEPT ![a] = "guest"]
    /\ running' = running + 1 /\ resident' = resident + 1
    /\ readyBurst' = 0 /\ passed' = 0
    /\ UNCHANGED <<closed, drained, queue, ready, external, permit, ctxDone,
                   aborting, cancelling, outcome, mutex>>

AdmitQueued(a) ==
    /\ Admissible(a)
    /\ ~(running < MaxRunning /\ resident < MaxResident)
    /\ Len(queue) < MaxQueued
    /\ attempts' = [attempts EXCEPT ![RunOf[a]] = a]
    /\ state' = [state EXCEPT ![a] = "queued"]
    /\ queue' = Append(queue, a)
    /\ UNCHANGED <<closed, drained, ready, readyBurst, running, resident, external,
                   permit, gate, ctxDone, aborting, cancelling, outcome, mutex, passed>>

\* Variant: dropQueuedResultLocked that forgets attemptDone.
DropQueuedKeepsState(a, why) ==
    /\ queue' = Without(queue, a)
    /\ attempts' = [attempts EXCEPT ![RunOf[a]] = NoAttempt]
    /\ ctxDone' = ctxDone \cup {a}
    /\ outcome' = [outcome EXCEPT ![a] = why]
    /\ MaybeDrain(closed, attempts')
    /\ UNCHANGED state

\* dropQueuedResultLocked followed by maybeDrainLocked.
DropQueued(a, why) ==
    /\ queue' = Without(queue, a)
    /\ state' = [state EXCEPT ![a] = "done"]
    /\ attempts' = [attempts EXCEPT ![RunOf[a]] = NoAttempt]
    /\ ctxDone' = ctxDone \cup {a}
    /\ outcome' = [outcome EXCEPT ![a] = why]
    /\ MaybeDrain(closed, attempts')

\* Executor.Cancel up to the return of controller.Cancel: the cancellation is
\* durable, and the runner has cancelled the context of a resident attempt.
CancelCommit(r) ==
    /\ r \notin cancelling
    /\ cancelling' = cancelling \cup {r}
    /\ ctxDone' = ctxDone \cup {a \in Resident : RunOf[a] = r}
    /\ UNCHANGED <<executorVars, state, permit, gate, aborting, outcome, mutex, passed>>

\* The critical section of Executor.Cancel, for whatever attempt the run has by now.
CancelLocked(r) ==
    /\ Unlocked
    /\ r \in cancelling
    /\ cancelling' = cancelling \ {r}
    /\ LET a == attempts[r]
       IN  \/ /\ a = NoAttempt
              /\ UNCHANGED <<queue, state, attempts, ctxDone, outcome, drained>>
           \/ /\ a # NoAttempt /\ state[a] = "queued"
              /\ DropQueued(a, "cancelled")
           \/ /\ a # NoAttempt /\ state[a] \in ResidentState
              /\ ctxDone' = ctxDone \cup {a}
              /\ UNCHANGED <<queue, state, attempts, outcome, drained>>
    /\ UNCHANGED <<closed, ready, readyBurst, running, resident, external,
                   permit, gate, aborting, mutex, passed>>

\* The caller's context ends: the attempt's context ends with it, and the
\* AfterFunc registered by Admit starts abort on a goroutine of its own.
SubmitDone(a) ==
    /\ state[a] \in LiveState
    /\ a \notin aborting
    /\ ctxDone' = ctxDone \cup {a}
    /\ aborting' = aborting \cup {a}
    /\ UNCHANGED <<executorVars, state, permit, gate, cancelling, outcome, mutex, passed>>

Abort(a) ==
    /\ Unlocked
    /\ a \in aborting
    /\ aborting' = aborting \ {a}
    /\ \/ /\ state[a] = "queued"
          /\ DropQueued(a, "ctxErr")
       \/ /\ state[a] # "queued"
          /\ ctxDone' = ctxDone \cup {a}
          /\ UNCHANGED <<queue, state, attempts, outcome, drained>>
    /\ UNCHANGED <<closed, ready, readyBurst, running, resident, external,
                   permit, gate, cancelling, mutex, passed>>

Close ==
    /\ Unlocked
    /\ ~closed
    /\ closed' = TRUE
    /\ MaybeDrain(TRUE, attempts)
    /\ UNCHANGED <<queue, ready, readyBurst, running, resident, attempts, external,
                   attemptVars, mutex, passed>>

-----------------------------------------------------------------------------
(* The goroutine of one attempt: run, finish, and the gate of ExternalIO.   *)

\* What finish does but for the counters and the mutex.
Finished(a) ==
    /\ Unlocked
    /\ gate[a] = "guest"
    /\ state[a] \in ResidentState
    /\ resident' = resident - 1
    /\ ready' = Without(ready, a)
    /\ state' = [state EXCEPT ![a] = "done"]
    /\ attempts' = [attempts EXCEPT ![RunOf[a]] = NoAttempt]
    /\ ctxDone' = ctxDone \cup {a}
    /\ outcome' = [outcome EXCEPT ![a] = "result"]
    /\ gate' = [gate EXCEPT ![a] = "none"]
    /\ UNCHANGED <<closed, drained, queue, readyBurst, external, permit, aborting,
                   cancelling, passed>>

\* Variant: finish frees a running slot whatever the attempt's state is.
FinishAlwaysFreesSlot(a) == Finished(a) /\ running' = running - 1 /\ mutex' = a

\* Advance returned: finish up to its call of scheduleLocked.
Finish(a) ==
    /\ Finished(a)
    /\ running' = IF state[a] = "running" THEN running - 1 ELSE running
    /\ mutex' = a

\* Variant: yield without scheduleLocked.
YieldUnscheduled(a) ==
    /\ Unlocked
    /\ gate[a] = "guest"
    /\ state[a] = "running"
    /\ state' = [state EXCEPT ![a] = "waitingLive"]
    /\ running' = running - 1
    /\ gate' = [gate EXCEPT ![a] = "acquire"]
    /\ UNCHANGED <<closed, drained, queue, ready, readyBurst, resident, attempts,
                   external, permit, ctxDone, aborting, cancelling, outcome, mutex, passed>>

\* yield up to its call of scheduleLocked.  A Guest whose slot is gone (an
\* earlier gate failed on a done context) gets ErrInvalidRunner: no step.
Yield(a) ==
    /\ Unlocked
    /\ gate[a] = "guest"
    /\ state[a] = "running"
    /\ state' = [state EXCEPT ![a] = "waitingLive"]
    /\ running' = running - 1
    /\ gate' = [gate EXCEPT ![a] = "acquire"]
    /\ mutex' = a
    /\ UNCHANGED <<closed, drained, queue, ready, readyBurst, resident, attempts,
                   external, permit, ctxDone, aborting, cancelling, outcome, passed>>

\* yield's select: an inflight token, or a done context.
AcquireExternal(a) ==
    /\ gate[a] = "acquire" /\ mutex # a
    /\ external < MaxInflightTools
    /\ external' = external + 1
    /\ gate' = [gate EXCEPT ![a] = "call"]
    /\ UNCHANGED <<closed, drained, queue, ready, readyBurst, running, resident,
                   attempts, state, permit, ctxDone, aborting, cancelling, outcome,
                   mutex, passed>>

\* Variant: yield looks at its context only once it has a token.
YieldFailsLate(a) ==
    /\ gate[a] = "acquire" /\ mutex # a
    /\ a \in ctxDone /\ external < MaxInflightTools
    /\ gate' = [gate EXCEPT ![a] = "guest"]
    /\ UNCHANGED <<executorVars, state, permit, ctxDone, aborting, cancelling,
                   outcome, mutex, passed>>

YieldFails(a) ==
    /\ gate[a] = "acquire" /\ mutex # a
    /\ a \in ctxDone
    /\ gate' = [gate EXCEPT ![a] = "guest"]
    /\ UNCHANGED <<executorVars, state, permit, ctxDone, aborting, cancelling,
                   outcome, mutex, passed>>

\* The Host callback returns and reacquire gives the token back.
CallReturns(a) ==
    /\ gate[a] = "call"
    /\ external' = external - 1
    /\ gate' = [gate EXCEPT ![a] = "relock"]
    /\ UNCHANGED <<closed, drained, queue, ready, readyBurst, running, resident,
                   attempts, state, permit, ctxDone, aborting, cancelling, outcome,
                   mutex, passed>>

\* reacquire's first critical section, three ways out.
ReacquireFails(a) ==
    /\ Unlocked
    /\ gate[a] = "relock" /\ a \in ctxDone
    /\ gate' = [gate EXCEPT ![a] = "guest"]
    /\ UNCHANGED <<executorVars, state, permit, ctxDone, aborting, cancelling,
                   outcome, mutex, passed>>

ReacquireRuns(a) ==
    /\ Unlocked
    /\ gate[a] = "relock" /\ a \notin ctxDone
    /\ running < MaxRunning
    /\ state' = [state EXCEPT ![a] = "running"]
    /\ running' = running + 1
    /\ gate' = [gate EXCEPT ![a] = "guest"]
    /\ Overtakes
    /\ UNCHANGED <<closed, drained, queue, ready, readyBurst, resident, attempts,
                   external, permit, ctxDone, aborting, cancelling, outcome, mutex>>

\* reacquire without a free slot but for the ready queue and the select.
ReacquireQueues(a) ==
    /\ Unlocked
    /\ gate[a] = "relock" /\ a \notin ctxDone
    /\ ~(running < MaxRunning)
    /\ state' = [state EXCEPT ![a] = "ready"]
    /\ permit' = permit \cup {a}
    /\ UNCHANGED <<closed, drained, queue, readyBurst, running, resident, attempts,
                   external, ctxDone, aborting, cancelling, outcome, mutex, passed>>

\* Variant: reacquire that waits without entering the ready queue.
ReacquireWaitsUnqueued(a) ==
    /\ ReacquireQueues(a)
    /\ ready' = ready
    /\ gate' = [gate EXCEPT ![a] = "permit"]

ReacquireWaits(a) ==
    /\ ReacquireQueues(a)
    /\ ready' = Append(ready, a)
    /\ gate' = [gate EXCEPT ![a] = "permit"]

\* reacquire's select: the permit was closed, or the context is done.
Resumes(a) ==
    /\ gate[a] = "permit"
    /\ gate' = [gate EXCEPT ![a] = "guest"]
    /\ UNCHANGED <<closed, drained, queue, readyBurst, running, resident, attempts,
                   external, ctxDone, aborting, cancelling, outcome, mutex, passed>>

\* Variant: reacquire resumes before its permit is closed.
PermitGrantedEarly(a) == Resumes(a) /\ UNCHANGED <<ready, state, permit>>

PermitGranted(a) ==
    /\ a \notin permit
    /\ Resumes(a)
    /\ UNCHANGED <<ready, state, permit>>

\* Variant: an abandoned wait that gives up a slot it was granted, uncounted.
PermitAbandonedBlind(a) ==
    /\ Unlocked
    /\ a \in ctxDone
    /\ Resumes(a)
    /\ ready' = Without(ready, a)
    /\ state' = [state EXCEPT ![a] = "waitingLive"]
    /\ permit' = permit \ {a}

\* Variant: an abandoned wait that stays in the ready queue.
PermitAbandonedQueued(a) ==
    /\ Unlocked
    /\ a \in ctxDone
    /\ Resumes(a)
    /\ state' = [state EXCEPT ![a] = "waitingLive"]
    /\ UNCHANGED <<ready, permit>>

PermitAbandoned(a) ==
    /\ Unlocked
    /\ a \in ctxDone
    /\ Resumes(a)
    /\ IF state[a] = "ready"
       THEN /\ ready' = Without(ready, a)
            /\ state' = [state EXCEPT ![a] = "waitingLive"]
            /\ permit' = permit \ {a}
       ELSE UNCHANGED <<ready, state, permit>>

-----------------------------------------------------------------------------
(* scheduleLocked, one iteration of its loop per step.  Its two checks that *)
(* a popped entry still is ready (queued) skip nothing: see QueuesExact.    *)

ScheduleReady ==
    /\ ~Unlocked
    /\ running < MaxRunning /\ PickReady
    /\ LET next == Head(ready)
       IN  /\ state' = [state EXCEPT ![next] = "running"]
           /\ permit' = permit \ {next}
    /\ ready' = Tail(ready)
    /\ running' = running + 1
    /\ readyBurst' = IF readyBurst < MaxReadyBurst THEN readyBurst + 1 ELSE readyBurst
    /\ Overtakes
    /\ UNCHANGED <<closed, drained, queue, resident, attempts, external, gate,
                   ctxDone, aborting, cancelling, outcome, mutex>>

ScheduleQueued ==
    /\ ~Unlocked
    /\ running < MaxRunning /\ ~PickReady /\ CanAdmit
    /\ Head(queue) \notin ctxDone
    /\ state' = [state EXCEPT ![Head(queue)] = "running"]
    /\ gate' = [gate EXCEPT ![Head(queue)] = "guest"]
    /\ queue' = Tail(queue)
    /\ running' = running + 1 /\ resident' = resident + 1
    /\ readyBurst' = 0 /\ passed' = 0
    /\ UNCHANGED <<closed, drained, ready, attempts, external, permit, ctxDone,
                   aborting, cancelling, outcome, mutex>>

\* dropQueuedLocked of a queued attempt whose context ended before abort ran.
ScheduleDrops ==
    /\ ~Unlocked
    /\ running < MaxRunning /\ ~PickReady /\ CanAdmit
    /\ Head(queue) \in ctxDone
    /\ state' = [state EXCEPT ![Head(queue)] = "done"]
    /\ attempts' = [attempts EXCEPT ![RunOf[Head(queue)]] = NoAttempt]
    /\ outcome' = [outcome EXCEPT ![Head(queue)] = "ctxErr"]
    /\ queue' = Tail(queue)
    /\ UNCHANGED <<closed, drained, ready, readyBurst, running, resident, external,
                   permit, gate, ctxDone, aborting, cancelling, mutex, passed>>

\* Variant: finish that does not drain.
ScheduleEndsUndrained ==
    /\ ~Unlocked
    /\ ~(running < MaxRunning /\ (PickReady \/ CanAdmit))
    /\ mutex' = NoAttempt
    /\ UNCHANGED <<executorVars, attemptVars, passed>>

\* The loop ends and the mutex is released; finish drains first, yield does not.
ScheduleEnds ==
    /\ ~Unlocked
    /\ ~(running < MaxRunning /\ (PickReady \/ CanAdmit))
    /\ IF state[mutex] = "done" THEN MaybeDrain(closed, attempts) ELSE UNCHANGED drained
    /\ mutex' = NoAttempt
    /\ UNCHANGED <<closed, queue, ready, readyBurst, running, resident, attempts,
                   external, attemptVars, passed>>

Schedule == ScheduleReady \/ ScheduleQueued \/ ScheduleDrops \/ ScheduleEnds

-----------------------------------------------------------------------------
\* What a goroutine does between leaving the Guest for a call and coming back.
GateStep(a) ==
    \/ AcquireExternal(a) \/ YieldFails(a) \/ CallReturns(a)
    \/ ReacquireFails(a) \/ ReacquireRuns(a) \/ ReacquireWaits(a)
    \/ PermitGranted(a) \/ PermitAbandoned(a)

Next ==
    \/ \E a \in Attempt : \/ AdmitNow(a) \/ AdmitQueued(a)
                          \/ SubmitDone(a) \/ Abort(a)
                          \/ Finish(a) \/ Yield(a) \/ GateStep(a)
    \/ \E r \in Run : CancelCommit(r) \/ CancelLocked(r)
    \/ Close
    \/ Schedule

Spec == Init /\ [][Next]_vars

\* What the goroutine of an attempt does by itself.  A Guest and a Host callback
\* promise to come back only when their context is done (WithCloseOnContextDone
\* stops the Guest): until then a Guest may loop and a tool may wait for ever.
Proceeds(a) ==
    \/ Finish(a) /\ a \in ctxDone
    \/ GateStep(a) /\ (a \in Calling => a \in ctxDone)

\* Fairness of the goroutines: that of the attempt, the AfterFunc's abort, a
\* Cancel that has begun, and whoever holds the mutex in scheduleLocked.  New
\* calls of Admit, Cancel and Close, and the callers' contexts, promise nothing.
Fairness ==
    /\ WF_vars(Schedule)
    /\ \A a \in Attempt : WF_vars(Proceeds(a)) /\ WF_vars(Abort(a))
    /\ \A r \in Run : WF_vars(CancelLocked(r))

FairSpec == Spec /\ Fairness

-----------------------------------------------------------------------------
(* Properties.                                                              *)

Distinct(s) == \A i, j \in DOMAIN s : s[i] = s[j] => i = j
Entries(s)  == {s[i] : i \in DOMAIN s}

TypeFlags == closed \in BOOLEAN /\ drained \in BOOLEAN

TypeQueues ==
    /\ queue \in Seq(Attempt) /\ ready \in Seq(Attempt)
    /\ readyBurst \in 0..MaxReadyBurst /\ passed \in Nat
    /\ running \in Nat /\ resident \in Nat /\ external \in Nat

TypeAttempts ==
    /\ attempts \in [Run -> Attempt \cup {NoAttempt}]
    /\ state \in [Attempt -> LiveState \cup {"new", "done"}]
    /\ permit \in SUBSET Attempt
    /\ gate \in [Attempt -> {"none", "guest", "acquire", "call", "relock", "permit"}]
    /\ ctxDone \in SUBSET Attempt /\ aborting \in SUBSET Attempt
    /\ cancelling \in SUBSET Run
    /\ outcome \in [Attempt -> {"none", "result", "cancelled", "ctxErr"}]
    /\ mutex \in Attempt \cup {NoAttempt}

\* Every variable of the executor and of its attempts has its type.
TypeOK == TypeFlags /\ TypeQueues /\ TypeAttempts

\* The counters running, resident and len(external), kept by increments spread
\* over Admit, scheduleLocked, yield, reacquire and finish, always equal what
\* they count and never pass MaxRunning, MaxResident and MaxInflightTools,
\* whatever order contexts end, permits close and attempts finish in.
CapacityExact ==
    /\ running = Cardinality(Running) /\ running <= MaxRunning
    /\ resident = Cardinality(Resident) /\ resident <= MaxResident
    /\ external = Cardinality(Calling) /\ external <= MaxInflightTools

\* Where a goroutine is and what its attempt's state says agree: a goroutine
\* inside the gate is waitingLive, one that waits for a permit is ready or was
\* just granted it, and only started attempts have a goroutine.
GateAgrees ==
    \A a \in Attempt :
        /\ gate[a] = "none" <=> state[a] \in {"new", "queued", "done"}
        /\ gate[a] \in {"acquire", "call", "relock"} => state[a] = "waitingLive"
        /\ gate[a] = "permit" => state[a] \in {"ready", "running"}
        /\ state[a] = "ready" => gate[a] = "permit"

\* The queue holds each queued attempt once and nothing else, the ready queue
\* each ready attempt once and nothing else, and exactly the ready attempts
\* have an open permit: scheduleLocked never pops a stale entry, never closes
\* a nil permit, and no attempt waits in neither queue.
QueuesExact ==
    /\ Distinct(queue) /\ Entries(queue) = Queued
    /\ Distinct(ready) /\ Entries(ready) = Ready
    /\ permit = Ready

\* Whenever the mutex is free, a free running slot means that no continuation
\* is ready and that no queued attempt could be admitted: every critical
\* section that frees capacity runs scheduleLocked to the end.
WorkConserving ==
    Unlocked /\ running < MaxRunning => ready = <<>> /\ ~CanAdmit

\* Admit's direct start, which looks at no queue, never overtakes an attempt
\* that waits in the queue or a continuation that waits for a slot.
DirectStartOvertakesNobody ==
    [][\A a \in Attempt : state[a] = "new" /\ state'[a] = "running"
                            => queue = <<>> /\ ready = <<>>]_vars

\* Between two admissions at most maxReadyBurst continuations get a slot while
\* the head of the queue could have had it, through scheduleLocked or through
\* the direct path of reacquire.
BoundedOvertaking == passed <= MaxReadyBurst

\* A Guest executes Python outside a running slot only once its context is
\* done: a failed yield or reacquire leaves it resident without a slot, and
\* nothing else does.
ExecutingHoldsSlot ==
    \A a \in Attempt : gate[a] = "guest" => state[a] = "running"
                                            \/ (state[a] = "waitingLive" /\ a \in ctxDone)

\* With the mutex free, the drain channel is closed if and only if Close was
\* called and no attempt is live: no path that ends the last attempt forgets
\* to drain, and nothing is admitted after the drain.
DrainExact ==
    Unlocked => (drained <=> closed /\ Live = {})

\* Attempt.done is closed once: a result, once published, never changes, even
\* when Cancel, abort, scheduleLocked and finish race for the same attempt.
ResultsAreFinal ==
    [][\A a \in Attempt : outcome[a] # "none" => outcome'[a] = outcome[a]]_vars

\* In the Guest's code or in a tool's: the places the executor cannot leave.
Outside == {a \in Attempt : gate[a] = "guest"} \cup Calling

\* If every Guest and every tool it calls comes back, every admitted attempt,
\* queued ones included, ends: no attempt is left waiting for a token, a permit,
\* a slot or the queue's head.  (An attempt is admitted once, so it is enough
\* that again and again none is live.)
AttemptsEnd == <>[](Outside = {}) => []<>(Live = {})

Doomed == {a \in Live : a \in ctxDone \/ RunOf[a] \in cancelling}

\* A Guest makes at most maxToolCalls calls (bridge.go) and is admitted once, so
\* in the end no attempt goes out to its Guest or a tool, or comes back, any more.
CallsRunOut == <>[][UNCHANGED Outside]_vars

\* An attempt that is cancelled, or whose caller's context is done, ends
\* whatever it waits for, even when the Guests and tools of other attempts never
\* return and keep every slot, token and place of the queue.  (It stays doomed
\* until it ends, so it is enough that again and again none is.)
CancelledAttemptsEnd == CallsRunOut => []<>(Doomed = {})
=============================================================================
