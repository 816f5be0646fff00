---------------------------- MODULE DurableService ----------------------------
(***************************************************************************)
(* The durable HTTP service (service/durable/server.go) in the process of  *)
(* cmd/pysolate-durable-server: clients whose requests overlap, the        *)
(* Executor that admits their attempts, the rows of several runs, the      *)
(* shutdown of the process, its death at any moment and its next start.    *)
(*                                                                         *)
(* The Executor and the Runner are in the detail their callers can see:    *)
(* Executor.tla has the gate of external tools, DurableRun.tla the journal *)
(* of one run.  Here a run has a status, "waiting" exactly while a wait of *)
(* it is undecided (WaitingExact of DurableRun), and an attempt is queued, *)
(* starting, in its Guest or being stopped.                                *)
(* Every answer that names a terminal status is remembered in told, also   *)
(* across restarts: the clients do not forget it.                          *)
(***************************************************************************)
EXTENDS Integers, Sequences, FiniteSets, FiniteSetsExt, SequencesExt

CONSTANTS
    Client, Run, NoClient, NoRun,
    Existing,                \* the runs an earlier process left in the database
    Asked,                   \* the requests that clients make: <<client, kind, run>>
    MaxRunning, MaxQueued,   \* durable.Limits of an executor without tools
    MaxRunDuration,          \* Options.MaxRunDuration; 0 is no cap
    TimeoutMS, NoTimeout,    \* the timeout_ms of an attempt request
    Millisecond,             \* time.Millisecond
    MaxInt                   \* the greatest int64, 2^w - 1

ASSUME ServiceAssumption ==
    /\ NoClient \notin Client /\ NoRun \notin Run /\ Existing \subseteq Run
    /\ Asked \subseteq Client \X {"create", "get", "attempt", "cancel", "resolve"} \X Run
    /\ MaxRunning \in Nat \ {0} /\ MaxQueued \in Nat
    /\ MaxRunDuration \in Nat /\ Millisecond \in Nat \ {0}
    /\ MaxInt \in Nat /\ MaxRunDuration <= MaxInt
    /\ TimeoutMS \ {NoTimeout} \subseteq -MaxInt .. MaxInt

VARIABLES
    status,           \* of each run: its row's status
    attempt,          \* of each run: none, queued, start, guest or stopping
    owner,            \* of each run: the client whose handler admitted it
    queue,            \* Executor.queue, as runs
    executorClosed,   \* Executor.closed
    pc, run,          \* of each client: what its request waits for; its run
    deadline, ended,  \* of each client: the context's timeout; it is done
    published,        \* of each client: Attempt.result, once done is closed
    phase, closeErr,  \* the process: main's progress; Server.Close's error
    told              \* of each run: the terminal statuses clients were told

executorVars == <<attempt, owner, queue, executorClosed>>
clientVars   == <<pc, run, deadline, ended, published>>
mainVars     == <<phase, closeErr>>
vars == <<status, executorVars, clientVars, mainVars, told>>

-----------------------------------------------------------------------------
Terminal == {"completed", "failed", "cancelled"}

Live(r)    == attempt[r] # "none"
Running    == {r \in Run : attempt[r] \in {"start", "guest", "stopping"}}
InFlight(c) == pc[c] # "idle"
\* The handler of c is in Attempt.Result of r's attempt.
Waits(c, r) == c = owner[r] /\ pc[c] = "result" /\ run[c] = r
\* The context of r's attempt is done: its request ended, or the handler has
\* returned and with it net/http's request context and the deferred cancel.
Stopped(r) == \/ attempt[r] = "stopping"
              \/ \A c \in Client : Waits(c, r) => ended[c]

Init ==
    /\ status = [r \in Run |-> IF r \in Existing THEN "active" ELSE "absent"]
    /\ attempt = [r \in Run |-> "none"] /\ owner = [r \in Run |-> NoClient]
    /\ queue = <<>> /\ executorClosed = FALSE
    /\ pc = [c \in Client |-> "idle"] /\ run = [c \in Client |-> NoRun]
    /\ deadline = [c \in Client |-> 0] /\ ended = [c \in Client |-> FALSE]
    /\ published = [c \in Client |-> "none"]
    /\ phase = "serving" /\ closeErr = FALSE
    /\ told = [r \in Run |-> {}]

\* The response is written; the request's context ends with the handler.
Respond(c) ==
    /\ pc' = [pc EXCEPT ![c] = "idle"] /\ run' = [run EXCEPT ![c] = NoRun]
    /\ deadline' = [deadline EXCEPT ![c] = 0] /\ ended' = [ended EXCEPT ![c] = FALSE]
    /\ published' = [published EXCEPT ![c] = "none"]

Goto(c, where) ==
    /\ pc' = [pc EXCEPT ![c] = where]
    /\ UNCHANGED <<run, deadline, ended, published>>

\* A 200 that names the status s of run r.
Tell(r, s) == told' = [told EXCEPT ![r] = @ \cup ({s} \cap Terminal)]

-----------------------------------------------------------------------------
\* int64 arithmetic.
Wrap(n) == ((n + MaxInt + 1) % (2 * (MaxInt + 1))) - (MaxInt + 1)

\* Variant: no check that the product does not overflow.
RunDurationUnchecked(t) ==
    IF t = NoTimeout THEN MaxRunDuration
    ELSE IF t <= 0 \/ (MaxRunDuration > 0 /\ Wrap(t * Millisecond) > MaxRunDuration) THEN -1
    ELSE Wrap(t * Millisecond)

\* runDuration: 0 is no deadline, -1 stands for its errors.
RunDuration(t) ==
    IF t = NoTimeout THEN MaxRunDuration
    ELSE IF \/ t <= 0
            \/ t > MaxInt \div Millisecond
            \/ MaxRunDuration > 0 /\ Wrap(t * Millisecond) > MaxRunDuration
         THEN -1
         ELSE Wrap(t * Millisecond)

\* ServeHTTP: a request reaches its handler.
Arrive(c, k, r) ==
    /\ phase = "serving" /\ ~InFlight(c)
    /\ pc' = [pc EXCEPT ![c] = k] /\ run' = [run EXCEPT ![c] = r]
    /\ UNCHANGED <<deadline, ended, published, status, executorVars, mainVars, told>>

\* An error response before anything was done: the method, the body, the seed
\* of a prepared Runner, a timeout_ms, an unknown run or wait, a conflict, or a
\* store that fails under a context that is done.
Refuse(c) ==
    /\ pc[c] \in {"create", "get", "attempt", "cancel", "resolve"}
    /\ Respond(c)
    /\ UNCHANGED <<status, executorVars, mainVars, told>>

\* handleCreate.
Create(c) ==
    /\ pc[c] = "create" /\ status[run[c]] = "absent"
    /\ status' = [status EXCEPT ![run[c]] = "active"]
    /\ Respond(c)
    /\ UNCHANGED <<executorVars, mainVars, told>>

\* handleGet, and handleHistory, which names no status.
Get(c) ==
    /\ pc[c] = "get" /\ status[run[c]] # "absent"
    /\ \/ Tell(run[c], status[run[c]])
       \/ UNCHANGED told
    /\ Respond(c)
    /\ UNCHANGED <<status, executorVars, mainVars>>

\* handleResolve: Store.ResolveWait.  The decision of a settled run is kept and
\* leaves its status alone.
Resolve(c) ==
    /\ pc[c] = "resolve"
    /\ status' = [status EXCEPT ![run[c]] = IF @ = "waiting" THEN "active" ELSE @]
    /\ Respond(c)
    /\ UNCHANGED <<executorVars, mainVars, told>>

-----------------------------------------------------------------------------
\* Variant: Admit does not look at closed.
AdmissibleAfterClose(r) == ~Live(r)

Admissible(r) == ~executorClosed /\ ~Live(r)

\* handleAttempt, up to Executor.Admit.
Admit(c, t) ==
    LET r == run[c] IN
    /\ pc[c] = "attempt" /\ ~ended[c] /\ RunDuration(t) >= 0
    /\ Admissible(r)
    /\ deadline' = [deadline EXCEPT ![c] = RunDuration(t)]
    /\ owner' = [owner EXCEPT ![r] = c]
    /\ \/ /\ Cardinality(Running) < MaxRunning
          /\ attempt' = [attempt EXCEPT ![r] = "start"] /\ UNCHANGED queue
       \/ /\ Cardinality(Running) >= MaxRunning /\ Len(queue) < MaxQueued
          /\ attempt' = [attempt EXCEPT ![r] = "queued"] /\ queue' = Append(queue, r)
    /\ pc' = [pc EXCEPT ![c] = "result"]
    /\ UNCHANGED <<run, ended, published, executorClosed, status, mainVars, told>>

\* Attempt.Result: select takes the published result or the done context.
Answer(c) ==
    /\ pc[c] = "result" /\ published[c] # "none"
    /\ Tell(run[c], published[c])
    /\ Respond(c)
    /\ UNCHANGED <<status, executorVars, mainVars>>

TimeOut(c) ==
    /\ pc[c] = "result" /\ ended[c]
    /\ Respond(c)
    /\ UNCHANGED <<status, executorVars, mainVars, told>>

\* The client goes away, or the deadline passes.  For the other requests a done
\* context is one of the causes of Refuse.
CtxEnds(c) ==
    /\ pc[c] \in {"attempt", "result"} /\ ~ended[c]
    /\ ended' = [ended EXCEPT ![c] = TRUE]
    /\ UNCHANGED <<pc, run, deadline, published, status, executorVars, mainVars, told>>

Deadline(c) == deadline[c] > 0 /\ CtxEnds(c)

\* Closing Attempt.done: heard by the handler that waits for it, if it still does.
Publish(r, s) ==
    published' = [c \in Client |-> IF Waits(c, r) THEN s ELSE published[c]]

\* Executor.abort of a queued attempt whose context is done.
Abort(r) ==
    /\ attempt[r] = "queued" /\ Stopped(r)
    /\ attempt' = [attempt EXCEPT ![r] = "none"] /\ owner' = [owner EXCEPT ![r] = NoClient]
    /\ queue' = SelectSeq(queue, LAMBDA q : q # r)
    /\ Publish(r, "error")
    /\ UNCHANGED <<executorClosed, pc, run, deadline, ended, status, mainVars, told>>

\* Executor.finish and scheduleLocked: the first queued attempt whose context
\* is not done takes the slot; those before it are dropped.
Finish(r, s) ==
    LET alive == {i \in 1 .. Len(queue) : ~Stopped(queue[i])}
        next  == IF alive = {} THEN Len(queue) + 1 ELSE Min(alive)
        gone  == {queue[i] : i \in 1 .. next - 1}
        heard == {c \in Client : \E q \in gone : Waits(c, q)}
    IN  /\ attempt' = [q \in Run |-> IF q \in gone \cup {r} THEN "none"
                                     ELSE IF alive # {} /\ q = queue[next] THEN "start"
                                     ELSE attempt[q]]
        /\ owner' = [q \in Run |-> IF q \in gone \cup {r} THEN NoClient ELSE owner[q]]
        /\ queue' = SubSeq(queue, next + 1, Len(queue))
        /\ published' = [c \in Client |-> IF Waits(c, r) THEN s
                                          ELSE IF c \in heard THEN "error"
                                          ELSE published[c]]
        /\ UNCHANGED <<executorClosed, pc, run, deadline, ended>>

\* Runner.Resume, up to the Guest: a settled run is answered from its row, one
\* whose definition this Runner does not match (another process made it) is
\* blocked unless it is settled, and an unknown one, one whose seed is not the
\* prepared one, or a done context is an error.
Start(r) ==
    /\ attempt[r] = "start"
    /\ \/ /\ status[r] \in Terminal \cup {"blocked"} /\ Finish(r, status[r])
          /\ UNCHANGED status
       \/ /\ status[r] # "absent" /\ Finish(r, "blocked")
          /\ status' = [status EXCEPT ![r] = IF @ \in Terminal THEN @ ELSE "blocked"]
       \/ Finish(r, "error") /\ UNCHANGED status
       \/ /\ status[r] \in {"active", "waiting"}
          /\ attempt' = [attempt EXCEPT ![r] = "guest"]
          /\ UNCHANGED <<status, owner, queue, executorClosed, clientVars>>
    /\ UNCHANGED <<mainVars, told>>

\* Variant: a Python result is reported whatever was committed meanwhile.
GuestEndsBlind(r) ==
    /\ attempt[r] \in {"guest", "stopping"} /\ status[r] # "waiting"
    /\ status' = [status EXCEPT ![r] = IF @ = "cancelled" THEN @ ELSE "completed"]
    /\ Finish(r, "completed")
    /\ UNCHANGED <<mainVars, told>>

\* Runner.Resume, after the Guest: what it came to is persisted and reported,
\* unless a cancellation was committed before.
GuestEnds(r) ==
    /\ attempt[r] \in {"guest", "stopping"}
    /\ IF status[r] = "cancelled"
       THEN Finish(r, "cancelled") /\ UNCHANGED status
       ELSE \/ \E s \in {"completed", "failed", "blocked"} :
                  /\ s # "blocked" => status[r] # "waiting"
                  /\ status' = [status EXCEPT ![r] = s]
                  /\ Finish(r, s)
            \/ status' = [status EXCEPT ![r] = "waiting"] /\ Finish(r, "parked")
            \/ \E s \in {"parked", "error"} : Finish(r, s) /\ UNCHANGED status
    /\ UNCHANGED <<mainVars, told>>

\* A Guest stops when its context is done.
GuestStops(r) == Stopped(r) /\ GuestEnds(r)

-----------------------------------------------------------------------------
Stop(r) == IF attempt[r] = "guest" THEN [attempt EXCEPT ![r] = "stopping"] ELSE attempt

\* handleCancel: Runner.Cancel commits, then cancels the registered attempt.
CancelCommits(c) ==
    LET r == run[c] IN
    /\ pc[c] = "cancel" /\ status[r] \notin {"absent", "completed", "failed"}
    /\ status' = [status EXCEPT ![r] = "cancelled"]
    /\ attempt' = Stop(r)
    /\ Goto(c, "cancelled")
    /\ UNCHANGED <<owner, queue, executorClosed, mainVars, told>>

\* Executor.Cancel, under its mutex: a queued attempt is dropped with the
\* result "cancelled", a live one has its context cancelled.
CancelFinds(c) ==
    LET r == run[c] IN
    /\ pc[c] = "cancelled"
    /\ IF attempt[r] = "queued"
       THEN /\ attempt' = [attempt EXCEPT ![r] = "none"] /\ owner' = [owner EXCEPT ![r] = NoClient]
            /\ queue' = SelectSeq(queue, LAMBDA q : q # r)
            /\ Publish(r, "cancelled")
       ELSE attempt' = Stop(r) /\ UNCHANGED <<owner, queue, published>>
    /\ Tell(r, "cancelled")
    /\ pc' = [pc EXCEPT ![c] = "idle"] /\ run' = [run EXCEPT ![c] = NoRun]
    /\ UNCHANGED <<deadline, ended, executorClosed, status, mainVars>>

-----------------------------------------------------------------------------
Handled == UNCHANGED <<status, executorVars, clientVars, told>>

\* main: a signal, or ListenAndServe failed; no request is accepted any more.
Signal ==
    /\ phase = "serving" /\ phase' \in {"shutdown", "failed"}
    /\ UNCHANGED closeErr /\ Handled

\* http.Server.Shutdown returns with every handler, or at its deadline.
Shutdown ==
    /\ phase = "shutdown" /\ phase' = "closing"
    /\ UNCHANGED closeErr /\ Handled

\* Server.Close and Executor.Close: no more attempts, then the drain.
CloseExecutor ==
    /\ phase \in {"closing", "failed"} /\ ~executorClosed
    /\ executorClosed' = TRUE
    /\ UNCHANGED <<attempt, owner, queue, status, clientVars, mainVars, told>>

\* Executor.Close returns nil when its drain is closed; after a signal its
\* context has a deadline, and it returns that error.
Drained ==
    /\ executorClosed /\ phase \in {"closing", "failed"}
    /\ \/ (\A r \in Run : ~Live(r)) /\ closeErr' = FALSE
       \/ phase = "closing" /\ closeErr' = TRUE
    /\ phase' = "closed"
    /\ Handled

\* The process dies, after main has returned or at any other moment, and is
\* started again over the same database.
Restart ==
    /\ attempt' = [r \in Run |-> "none"] /\ owner' = [r \in Run |-> NoClient]
    /\ queue' = <<>> /\ executorClosed' = FALSE
    /\ pc' = [c \in Client |-> "idle"] /\ run' = [c \in Client |-> NoRun]
    /\ deadline' = [c \in Client |-> 0] /\ ended' = [c \in Client |-> FALSE]
    /\ published' = [c \in Client |-> "none"]
    /\ phase' = "serving" /\ closeErr' = FALSE
    /\ UNCHANGED <<status, told>>

Handler(c) ==
    \/ Refuse(c) \/ Create(c) \/ Get(c) \/ Resolve(c)
    \/ \E t \in TimeoutMS : Admit(c, t)
    \/ Answer(c) \/ TimeOut(c)
    \/ CancelCommits(c) \/ CancelFinds(c)

Next ==
    \/ \E c \in Client :
           \/ \E q \in Asked : q[1] = c /\ Arrive(c, q[2], q[3])
           \/ Handler(c) \/ CtxEnds(c)
    \/ \E r \in Run : Abort(r) \/ Start(r) \/ GuestEnds(r)
    \/ Signal \/ Shutdown \/ CloseExecutor \/ Drained \/ Restart

Spec == Init /\ [][Next]_vars

\* Goroutines run, deadlines pass and a Guest stops when its context is done
\* (wazero closes the module).  A Guest whose context is not done may run for
\* ever, a client may wait for ever, and nobody has to send a signal.
Fairness ==
    /\ \A c \in Client : WF_vars(Handler(c)) /\ WF_vars(Deadline(c))
    /\ \A r \in Run : WF_vars(Abort(r) \/ Start(r) \/ GuestStops(r))

FairSpec == Spec /\ Fairness

-----------------------------------------------------------------------------
\* What a client was told of a run's end is what the row says, then and ever
\* after: an attempt that reports "completed", "failed" or "cancelled" (also
\* one dropped from the queue), a GET and a cancel never contradict the store,
\* each other, or a later process.
AnswersStand == \A r \in Run : told[r] \subseteq {status[r]}

\* Server.Close returned nil: when main goes on to close the Runner and the
\* Store, no attempt uses them, whatever handlers are still in progress.
CloseMeansQuiet == phase = "closed" /\ ~closeErr => \A r \in Run : ~Live(r)

\* With a service cap every attempt ends and gives its run free for the next
\* one: also behind Guests that never end by themselves, in the queue, when its
\* request was answered before (a 408) or when the process shuts down.
NothingHangs == MaxRunDuration > 0 => \A r \in Run : Live(r) ~> ~Live(r)
===============================================================================
