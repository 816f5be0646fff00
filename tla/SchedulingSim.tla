----------------------------- MODULE SchedulingSim -----------------------------
(***************************************************************************)
(* The discrete-event simulator of scheduling/sim.go, for every trace and  *)
(* configuration of a bounded set.                                         *)
(*                                                                         *)
(* The simulator is one deterministic loop over a heap of events: all the  *)
(* events of an instant are handled, then capacity is handed out until     *)
(* nothing moves, then the admission queue is cut.  Each of these is one   *)
(* step on the record sim, whose fields are those of the struct; the       *)
(* operators are its methods and return the record they leave behind.      *)
(* Durations are small numbers.  Byte-seconds, peaks and percentiles are   *)
(* arithmetic on the results and are left out.                             *)
(***************************************************************************)
EXTENDS Integers, Sequences, FiniteSets, FiniteSetsExt, SequencesExt, Sums

CONSTANTS
    Tasks,      \* number of tasks
    Traces,     \* sequences of phases [kind, duration]
    Arrivals,   \* arrival times
    Priorities, \* Task.Priority
    Configs     \* records of the fields of Config

PhaseKind == {"cpu", "external_io", "durable_wait"}
Policy    == {"fifo", "ready_first", "finish_soon"}

ASSUME SimAssumption ==
    /\ Tasks \in Nat \ {0} /\ Arrivals \subseteq Nat /\ Priorities \subseteq Int
    /\ Traces \subseteq Seq([kind : PhaseKind, duration : Nat])
    /\ Configs \subseteq [MaxRunning : Nat \ {0}, MaxResident : Nat, MaxInflightTools : Nat \ {0},
                          MaxQueued : Nat, LiveIO : BOOLEAN, Policy : Policy]
    /\ \A c \in Configs : c.MaxResident >= c.MaxRunning

VARIABLES
    config, task,  \* the input: Config, and each task's arrival, priority, phases
    sim,           \* the simulator
    pc             \* where Simulate's loop is

input   == <<config, task>>
simVars == <<input, sim, pc>>

-----------------------------------------------------------------------------
Task == 1 .. Tasks
Kind(s, t)     == task[t].phases[s.state[t].phase].kind
Duration(s, t) == task[t].phases[s.state[t].phase].duration
Over(s, t)     == s.state[t].phase > Len(task[t].phases)

\* validateSimulation.
Valid(phases) ==
    /\ phases # <<>> /\ phases[1].kind = "cpu"
    /\ \A i \in DOMAIN phases :
           /\ phases[i].duration > 0
           /\ phases[i].kind = "durable_wait" /\ i < Len(phases) => phases[i + 1].kind = "cpu"

NewState == [phase |-> 1, admitted |-> FALSE, continuation |-> FALSE, readySeq |-> 0,
             holdsRunning |-> FALSE, inToolQueue |-> FALSE, end |-> "none"]

PushEvent(s, at, kind, t) ==
    [s EXCEPT !.seq = @ + 1,
              !.events = @ \cup {[at |-> at, seq |-> s.seq + 1, kind |-> kind, task |-> t,
                                  phase |-> s.state[t].phase]}]

EnqueueAdmission(s, t, continuation) ==
    [s EXCEPT !.seq = @ + 1, !.admission = Append(@, t),
              !.state[t].continuation = continuation, !.state[t].readySeq = s.seq + 1]

EnqueueReady(s, t, continuation) ==
    [s EXCEPT !.seq = @ + 1, !.ready = Append(@, t),
              !.state[t].continuation = continuation, !.state[t].readySeq = s.seq + 1]

EnqueueTool(s, t) == [s EXCEPT !.toolQueue = Append(@, t), !.state[t].inToolQueue = TRUE]

ReleaseResident(s, t) ==
    IF s.state[t].admitted THEN [s EXCEPT !.state[t].admitted = FALSE, !.resident = @ - 1] ELSE s

Complete(s, t) == ReleaseResident([s EXCEPT !.state[t].end = "completed"], t)

\* Variant: a task keeps its residence during a durable wait.
AdvanceKeepsResidence(s, t) ==
    IF Over(s, t) THEN Complete(s, t)
    ELSE IF ~s.state[t].admitted THEN EnqueueAdmission(s, t, s.state[t].phase > 1)
    ELSE CASE Kind(s, t) = "cpu" -> EnqueueReady(s, t, s.state[t].phase > 1)
           [] Kind(s, t) = "external_io" ->
                  IF config.LiveIO THEN EnqueueTool([s EXCEPT !.state[t].continuation = TRUE], t)
                  ELSE EnqueueReady(s, t, TRUE)
           [] Kind(s, t) = "durable_wait" ->
                  PushEvent(s, s.now + Duration(s, t), "waitDone", t)

\* advance: the task goes where its next phase wants it.
Advance(s, t) ==
    IF Over(s, t) THEN Complete(s, t)
    ELSE IF ~s.state[t].admitted THEN EnqueueAdmission(s, t, s.state[t].phase > 1)
    ELSE CASE Kind(s, t) = "cpu" -> EnqueueReady(s, t, s.state[t].phase > 1)
           [] Kind(s, t) = "external_io" ->
                  IF config.LiveIO THEN EnqueueTool([s EXCEPT !.state[t].continuation = TRUE], t)
                  ELSE EnqueueReady(s, t, TRUE)
           [] Kind(s, t) = "durable_wait" ->
                  PushEvent(ReleaseResident(s, t), s.now + Duration(s, t), "waitDone", t)

GiveBackRunning(s, t) == [s EXCEPT !.running = @ - 1, !.state[t].holdsRunning = FALSE]

\* handle, one operator per kind of event.  A task that has ended takes none.
HandleCPUDone(s, t) ==
    LET n == [s EXCEPT !.state[t].phase = @ + 1] IN
    IF ~Over(n, t) /\ Kind(n, t) = "external_io" /\ ~config.LiveIO
    THEN EnqueueTool(n, t)
    ELSE Advance(GiveBackRunning(n, t), t)

ToolReturned(s, t) ==
    [s EXCEPT !.state[t].phase = @ + 1, !.state[t].inToolQueue = FALSE, !.tools = @ - 1]

HandleIODone(s, t) ==
    LET n == ToolReturned(s, t) IN
    IF ~n.state[t].holdsRunning THEN Advance(n, t)
    ELSE IF ~Over(n, t) /\ Kind(n, t) = "cpu"
    THEN PushEvent(n, n.now + Duration(n, t), "cpuDone", t)
    ELSE Advance(GiveBackRunning(n, t), t)

HandleWaitDone(s, t) == Advance([s EXCEPT !.state[t].phase = @ + 1], t)

\* What handle reports as an error.
Stale(s, e) ==
    LET st == s.state[e.task] IN
    CASE e.kind = "cpuDone"  -> e.phase # st.phase \/ ~st.holdsRunning
      [] e.kind = "ioDone"   -> e.phase # st.phase \/ ~st.inToolQueue
      [] e.kind = "waitDone" -> e.phase # st.phase \/ st.admitted
      [] OTHER -> FALSE

HandleEvent(s, e) ==
    IF s.state[e.task].end # "none" THEN s
    ELSE IF Stale(s, e) THEN [s EXCEPT !.error = TRUE]
    ELSE CASE e.kind = "arrival"  -> EnqueueAdmission(s, e.task, FALSE)
           [] e.kind = "cpuDone"  -> HandleCPUDone(s, e.task)
           [] e.kind = "ioDone"   -> HandleIODone(s, e.task)
           [] e.kind = "waitDone" -> HandleWaitDone(s, e.task)

-----------------------------------------------------------------------------
RemainingDuration(s, t) ==
    Total([i \in s.state[t].phase .. Len(task[t].phases) |-> task[t].phases[i].duration])

\* prefer, as an order on the candidates.
Prefer(s, l, r) ==
    LET L == s.state[l]  R == s.state[r]
        dl == RemainingDuration(s, l)  dr == RemainingDuration(s, r) IN
    CASE config.Policy = "ready_first" /\ L.continuation # R.continuation -> L.continuation
      [] config.Policy = "finish_soon" /\ dl # dr -> dl < dr
      [] config.Policy = "finish_soon" /\ dl = dr /\ task[l].priority # task[r].priority ->
             task[l].priority > task[r].priority
      [] OTHER -> L.readySeq < R.readySeq

Candidates(s) ==
    Range(s.ready) \cup (IF s.resident < config.MaxResident THEN Range(s.admission) ELSE {})

ChooseRunnable(s) ==
    CHOOSE t \in Candidates(s) : \A u \in Candidates(s) \ {t} : Prefer(s, t, u)

\* removeState.
Without(q, t) == RemoveFirst(q, t)

Admit(s, t) == [s EXCEPT !.state[t].admitted = TRUE, !.resident = @ + 1]

\* drain: a tool starts.
StartTool(s) ==
    LET t == Head(s.toolQueue) IN
    PushEvent([s EXCEPT !.toolQueue = Tail(@), !.tools = @ + 1], s.now + Duration(s, t), "ioDone", t)

\* drain: a task takes a running slot; inline I/O takes it to the tool queue.
StartRunning(s) ==
    LET t == ChooseRunnable(s)
        a == IF t \in Range(s.ready) THEN [s EXCEPT !.ready = Without(@, t)]
             ELSE Admit([s EXCEPT !.admission = Without(@, t)], t)
        n == [a EXCEPT !.running = @ + 1, !.state[t].holdsRunning = TRUE]
    IN  IF Kind(n, t) = "cpu" THEN PushEvent(n, n.now + Duration(n, t), "cpuDone", t)
        ELSE EnqueueTool(n, t)

CanStartTool(s) == s.tools < config.MaxInflightTools /\ s.toolQueue # <<>>
CanStartRunning(s) == s.running < config.MaxRunning /\ Candidates(s) # {}

\* enforceQueueLimit: the newest is rejected.
Reject(s) ==
    LET t == CHOOSE t \in Range(s.admission) :
                 \A u \in Range(s.admission) : s.state[u].readySeq <= s.state[t].readySeq
    IN  [s EXCEPT !.admission = Without(@, t), !.state[t].end = "rejected"]

Integrate(s, at) ==
    [s EXCEPT !.slotTime = @ + s.running * (at - s.now), !.toolTime = @ + s.tools * (at - s.now),
              !.now = at]

-----------------------------------------------------------------------------
Arrivals0 == [t \in Task |-> [at |-> task[t].arrival, seq |-> t, kind |-> "arrival", task |-> t, phase |-> 1]]

SimInit ==
    /\ config \in Configs
    /\ task \in [Task -> [arrival : Arrivals, priority : Priorities, phases : {p \in Traces : Valid(p)}]]
    /\ sim = [now |-> 0, seq |-> Tasks, events |-> Range(Arrivals0), batch |-> {},
              state |-> [t \in Task |-> NewState], ready |-> <<>>, admission |-> <<>>,
              toolQueue |-> <<>>, running |-> 0, resident |-> 0, tools |-> 0,
              slotTime |-> 0, toolTime |-> 0, error |-> FALSE]
    /\ pc = "events"

Keep == UNCHANGED input

\* Simulate: the events of the next instant are taken from the heap.
NextInstant ==
    /\ pc = "events" /\ sim.events # {}
    /\ LET at    == Min({e.at : e \in sim.events})
           batch == {e \in sim.events : e.at = at}
       IN  sim' = [Integrate(sim, at) EXCEPT !.events = @ \ batch, !.batch = batch]
    /\ pc' = "handle" /\ Keep

HandleNext ==
    /\ pc = "handle" /\ sim.batch # {}
    /\ LET e == CHOOSE e \in sim.batch : \A f \in sim.batch : e.seq <= f.seq
       IN  sim' = HandleEvent([sim EXCEPT !.batch = @ \ {e}], e)
    /\ pc' = (IF sim'.error THEN "error" ELSE "handle") /\ Keep

Handled ==
    /\ pc = "handle" /\ sim.batch = {}
    /\ pc' = "drain" /\ UNCHANGED sim /\ Keep

DrainTool    == pc = "drain" /\ CanStartTool(sim) /\ sim' = StartTool(sim) /\ UNCHANGED pc /\ Keep
DrainRunning == pc = "drain" /\ ~CanStartTool(sim) /\ CanStartRunning(sim)
                /\ sim' = StartRunning(sim) /\ UNCHANGED pc /\ Keep

EnforceQueueLimit ==
    /\ pc = "drain" /\ ~CanStartTool(sim) /\ ~CanStartRunning(sim)
    /\ IF config.MaxQueued > 0 /\ Len(sim.admission) > config.MaxQueued
       THEN sim' = Reject(sim) /\ UNCHANGED pc
       ELSE UNCHANGED sim /\ pc' = "events"
    /\ Keep

Finish ==
    /\ pc = "events" /\ sim.events = {}
    /\ pc' = "done" /\ UNCHANGED sim /\ Keep

SimNext ==
    \/ NextInstant \/ HandleNext \/ Handled
    \/ DrainTool \/ DrainRunning \/ EnforceQueueLimit
    \/ Finish

SimSpec == SimInit /\ [][SimNext]_simVars

-----------------------------------------------------------------------------
\* The durations of the phases of a kind that t has behind it, and their sum.
Behind(s, t, kind) ==
    [i \in {i \in 1 .. s.state[t].phase - 1 : task[t].phases[i].kind = kind} |->
         task[t].phases[i].duration]
Spent(s, t, kind) == Total(Behind(s, t, kind))

\* Simulate reports no error for a valid input, and its result is consistent:
\* no completion is stale, capacity is never exceeded, no task is left behind
\* when the events run out ("simulation stopped with unfinished tasks" is
\* unreachable), everything is given back, and the slot-time areas are the sums
\* of the phases that were executed (with inline I/O a running slot is also held
\* for the tool and for its queue).
Consistent ==
    /\ pc # "error"
    /\ sim.running <= config.MaxRunning /\ sim.resident <= config.MaxResident
    /\ sim.tools <= config.MaxInflightTools
    /\ pc = "done" =>
        /\ \A t \in Task : sim.state[t].end # "none"
        /\ sim.running = 0 /\ sim.resident = 0 /\ sim.tools = 0
        /\ sim.toolTime = Total([t \in Task |-> Spent(sim, t, "external_io")])
        /\ IF config.LiveIO THEN sim.slotTime = Total([t \in Task |-> Spent(sim, t, "cpu")])
           ELSE sim.slotTime >= Total([t \in Task |-> Spent(sim, t, "cpu") + Spent(sim, t, "external_io")])
===============================================================================
