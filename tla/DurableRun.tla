------------------------------ MODULE DurableRun ------------------------------
(***************************************************************************)
(* One durable run: its rows in the store (durable/store.go), and the      *)
(* attempts that processes make on it (durable/runner.go, Resume and       *)
(* journal.Call).                                                          *)
(*                                                                         *)
(* A process that resumes the run takes the run's file lock, starts a      *)
(* fresh Guest and replays the completed calls from the store.  The first  *)
(* call without a completed row is live: an intent row is committed, the   *)
(* tool's recovery mode says what may be done, the outcome is committed    *)
(* and only then given to Python.  Decide and Cancel write to the store    *)
(* without the lock.  Every store operation is one serializable SQLite     *)
(* transaction and one step here.  A process may crash between any two     *)
(* steps (the system then drops its file lock), a store operation or the   *)
(* Guest may fail, and a context may end at any time.                      *)
(*                                                                         *)
(* Runs share no rows and no locks, so one run is modelled.  Its Guest is  *)
(* the operator Program: given the outcomes Python has seen, what it may   *)
(* do next.  One possibility everywhere is a deterministic program; more   *)
(* is one that diverges between attempts.                                  *)
(***************************************************************************)
EXTENDS Naturals, Sequences

CONSTANTS
    Proc,           \* processes, each with a Runner on the shared store
    NoProc,
    Request,        \* tool calls: a tool and its arguments
    Recovery,       \* the recovery mode of a request's tool
    External,       \* requests whose tool is ExternalIO, in an Executor
    Answer,         \* what tools answer and callers decide
    Program(_),     \* outcomes seen -> requests, "return", "raise"
    MaxToolCalls,   \* maxToolCalls: calls of one attempt
    ReadAhead,      \* rows one readCompleted returns at most
    Declaration     \* each process's pinned definition and tool snapshot

ASSUME DurableAssumption ==
    /\ NoProc \notin Proc
    /\ Recovery \in [Request -> {"retry", "lookup", "manual", "wait", "unknown"}]
    /\ External \subseteq {r \in Request : Recovery[r] \in {"retry", "lookup", "manual"}}
    /\ {"none", "open", "budget"} \cap Answer = {}
    /\ MaxToolCalls \in Nat
    /\ ReadAhead \in Nat \ {0}

VARIABLES
    status, pinned, result,   \* the runs row: status, definition, outcome
    calls,                    \* the calls rows, in sequence order
    waits,                    \* waits row of each sequence: none, open or its decision
    lock,                     \* the process that holds the run's file lock
    effects, applied,         \* the outside world: effects of each call (counted
                              \* up to 2), and the last answer given for it
    pc,                       \* where each process is in Resume
    read,                     \* the status Resume read first
    hist,                     \* outcomes its Guest has seen
    window, live,             \* journal.history and journal.live
    request, response,        \* the call in progress and its response
    ctxDone, closed,          \* processes whose attempt context ended; closed Runners
    ended,                    \* how RunRecorded returned
    report                    \* what Resume returned last, as classified

storeVars == <<status, pinned, result, calls, waits>>
worldVars == <<effects, applied>>
guestVars == <<hist, window, live, request, response, ended>>
procVars  == <<pc, read, ctxDone, closed, report>>
vars == <<storeVars, lock, worldVars, guestVars, procVars>>

-----------------------------------------------------------------------------
Terminal == {"completed", "failed", "cancelled"}
Settled  == Terminal \cup {"blocked"}
Outcome  == Answer \cup {"ctxErr", "expired", "denied", "budget"}
Sequence == 1..MaxToolCalls

JournalPC == {"begin", "dispatch", "complete", "lookup", "wait", "waited"}
GuestPC   == JournalPC \cup {"guest"}
ActivePC  == GuestPC \cup {"registered", "ended", "settle"}

\* A row of calls: a call, its state and its outcome.
CallRow(r, s, o) == [request |-> r, state |-> s, outcome |-> o]

\* The sequence number of p's call in progress.
At(p) == Len(hist[p]) + 1

\* Variant: readCompleted that does not stop at an open row.
ReadOpenRows(i) == SubSeq(calls, i, Len(calls))

\* readCompleted: the completed rows from i on, stopping at the first other.
ReadCompleted(i) ==
    LET last == CHOOSE n \in (i - 1)..Len(calls) :
                    /\ \A j \in i..n : calls[j].state = "completed"
                    /\ n < i + ReadAhead
                    /\ \/ n = Len(calls) \/ n + 1 = i + ReadAhead
                       \/ calls[n + 1].state # "completed"
    IN  SubSeq(calls, i, last)

\* Resume returns: the deferred calls remove the active entry and the lock.
Return(p, what) ==
    /\ pc' = [pc EXCEPT ![p] = "idle"]
    /\ report' = [report EXCEPT ![p] = what]
    /\ lock' = NoProc
    /\ read' = [read EXCEPT ![p] = "absent"]
    /\ hist' = [hist EXCEPT ![p] = <<>>]
    /\ window' = [window EXCEPT ![p] = <<>>]
    /\ live' = live \ {p}
    /\ request' = [request EXCEPT ![p] = "none"]
    /\ response' = [response EXCEPT ![p] = "none"]
    /\ ended' = [ended EXCEPT ![p] = "none"]
    /\ ctxDone' = ctxDone \ {p}
    /\ UNCHANGED <<closed>>

\* journal.Call returns an error: the Guest is closed with journalExitCode and
\* RunRecorded returns that error, unless a done context closed it first.
Stop(p, why) ==
    /\ pc' = [pc EXCEPT ![p] = "ended"]
    /\ \E w \in {why} \cup (IF p \in ctxDone THEN {"infra"} ELSE {}) :
           ended' = [ended EXCEPT ![p] = w]
    /\ UNCHANGED <<read, hist, window, live, request, response, ctxDone, closed,
                   report, lock>>

\* The journal goes on to stage s, with response o for it where it needs one.
Goto(p, s, o) ==
    /\ pc' = [pc EXCEPT ![p] = s]
    /\ response' = [response EXCEPT ![p] = o]
    /\ UNCHANGED <<read, hist, window, live, request, ended, ctxDone, closed,
                   report, lock>>

\* journal.Call returns outcome o to Python.
Deliver(p, o) ==
    /\ pc' = [pc EXCEPT ![p] = "guest"]
    /\ hist' = [hist EXCEPT ![p] = Append(@, o)]
    /\ request' = [request EXCEPT ![p] = "none"]
    /\ response' = [response EXCEPT ![p] = "none"]
    /\ UNCHANGED <<read, ended, ctxDone, closed, report, lock>>

-----------------------------------------------------------------------------
Init ==
    /\ status = "absent" /\ pinned = "none" /\ result = <<>>
    /\ calls = <<>>
    /\ waits = [i \in Sequence |-> "none"]
    /\ lock = NoProc
    /\ effects = [i \in Sequence |-> 0]
    /\ applied = [i \in Sequence |-> "none"]
    /\ pc = [p \in Proc |-> "idle"]
    /\ read = [p \in Proc |-> "absent"]
    /\ hist = [p \in Proc |-> <<>>]
    /\ window = [p \in Proc |-> <<>>]
    /\ live = {}
    /\ request = [p \in Proc |-> "none"]
    /\ response = [p \in Proc |-> "none"]
    /\ ctxDone = {} /\ closed = {}
    /\ ended = [p \in Proc |-> "none"]
    /\ report = [p \in Proc |-> "none"]

-----------------------------------------------------------------------------
(* The control plane: Create, Decide, Cancel and Close take no lock.        *)

Create(p) ==
    /\ status = "absent"
    /\ status' = "active"
    /\ pinned' = Declaration[p]
    /\ UNCHANGED <<result, calls, waits, lock, worldVars, guestVars, procVars>>

\* Variant: ResolveWait that leaves the run waiting.
DecideQuietly(i, d) ==
    /\ waits[i] = "open"
    /\ waits' = [waits EXCEPT ![i] = d]
    /\ UNCHANGED <<status, pinned, result, calls, lock, worldVars, guestVars, procVars>>

\* ResolveWait of a decision; the first one wins, a second is ErrConflict.
Decide(i, d) ==
    /\ waits[i] = "open"
    /\ waits' = [waits EXCEPT ![i] = d]
    /\ status' = IF status = "waiting" THEN "active" ELSE status
    /\ UNCHANGED <<pinned, result, calls, lock, worldVars, guestVars, procVars>>

\* The store's part of Cancel.  That a local attempt is then told through its
\* context is one of the ways CtxEnds happens.
Cancel ==
    /\ status \notin Terminal \cup {"absent"}
    /\ status' = "cancelled"
    /\ result' = <<>>
    /\ UNCHANGED <<pinned, calls, waits, lock, worldVars, guestVars, procVars>>

\* Close refuses while an attempt is registered as active.
Close(p) ==
    /\ p \notin closed
    /\ pc[p] \notin ActivePC
    /\ closed' = closed \cup {p}
    /\ UNCHANGED <<storeVars, lock, worldVars, guestVars, pc, read, ctxDone, report>>

-----------------------------------------------------------------------------
(* Resume, up to the start of the Guest.                                    *)

\* The first closed check, Claim, and the first read of the run.
Open(p) ==
    /\ pc[p] = "idle"
    /\ p \notin closed
    /\ status # "absent"
    /\ lock = NoProc
    /\ lock' = p
    /\ pc' = [pc EXCEPT ![p] = "opened"]
    /\ read' = [read EXCEPT ![p] = status]
    /\ report' = [report EXCEPT ![p] = "none"]
    /\ UNCHANGED <<storeVars, worldVars, guestVars, ctxDone, closed>>

OpenBlocked(p) ==
    /\ pc[p] = "opened" /\ read[p] = "blocked"
    /\ Return(p, "blocked")
    /\ UNCHANGED <<storeVars, worldVars>>

\* Variant: a Runner with other declarations blocks a terminal run too.
RefuseAlways(p) ==
    /\ pc[p] = "opened" /\ read[p] # "blocked" /\ pinned # Declaration[p]
    /\ status' = "blocked"
    /\ Return(p, "blocked")
    /\ UNCHANGED <<pinned, result, calls, waits, worldVars>>

\* A Runner with other declarations blocks the run, unless it is terminal:
\* SetState's ErrConflict is ignored.
RefuseDefinition(p) ==
    /\ pc[p] = "opened" /\ read[p] # "blocked" /\ pinned # Declaration[p]
    /\ status' = IF status \in Terminal THEN status ELSE "blocked"
    /\ Return(p, "blocked")
    /\ UNCHANGED <<pinned, result, calls, waits, worldVars>>

ReplayResult(p) ==
    /\ pc[p] = "opened" /\ read[p] \in Terminal /\ pinned = Declaration[p]
    /\ Return(p, read[p])
    /\ UNCHANGED <<storeVars, worldVars>>

\* Variant: Resume without the second closed check.
RegisterUnchecked(p) ==
    /\ pc[p] = "opened" /\ read[p] \notin Settled /\ pinned = Declaration[p]
    /\ pc' = [pc EXCEPT ![p] = "registered"]
    /\ UNCHANGED <<lock, guestVars, read, ctxDone, closed, report, storeVars, worldVars>>

\* Register in runner.active, or find the Runner closed since the first check.
Register(p) ==
    /\ pc[p] = "opened" /\ read[p] \notin Settled /\ pinned = Declaration[p]
    /\ IF p \in closed
       THEN Return(p, "error")
       ELSE /\ pc' = [pc EXCEPT ![p] = "registered"]
            /\ UNCHANGED <<lock, guestVars, read, ctxDone, closed, report>>
    /\ UNCHANGED <<storeVars, worldVars>>

\* Cancel may have committed between the first read and Register.
Recheck(p) ==
    /\ pc[p] = "registered"
    /\ IF status = "cancelled"
       THEN Return(p, "cancelled")
       ELSE /\ pc' = [pc EXCEPT ![p] = "guest"]
            /\ UNCHANGED <<lock, guestVars, read, ctxDone, closed, report>>
    /\ UNCHANGED <<storeVars, worldVars>>

-----------------------------------------------------------------------------
(* The Guest and the replay half of journal.Call.                           *)

Calling(p, r) == pc[p] = "guest" /\ r \in Program(hist[p])

\* invoke refuses the call that exceeds the budget without the journal.
CallOverBudget(p, r) ==
    /\ Calling(p, r)
    /\ Len(hist[p]) >= MaxToolCalls
    /\ Deliver(p, "budget")
    /\ UNCHANGED <<window, live, storeVars, worldVars>>

\* The rows a call is replayed from: what is left of the window, or a new read.
History(p) == IF window[p] = <<>> THEN ReadCompleted(At(p)) ELSE window[p]

CallReplayed(p, r) ==
    /\ Calling(p, r)
    /\ Len(hist[p]) < MaxToolCalls
    /\ p \notin live
    /\ History(p) # <<>>
    /\ LET row == Head(History(p))
       IN  \/ /\ row.request = r
              /\ Deliver(p, row.outcome)
              /\ window' = [window EXCEPT ![p] = Tail(History(p))]
              /\ UNCHANGED live
           \/ /\ row.request # r
              /\ Stop(p, "mismatch")
    /\ UNCHANGED <<storeVars, worldVars>>

CallLive(p, r) ==
    /\ Calling(p, r)
    /\ Len(hist[p]) < MaxToolCalls
    /\ p \in live \/ History(p) = <<>>
    /\ live' = live \cup {p}
    /\ request' = [request EXCEPT ![p] = r]
    /\ pc' = [pc EXCEPT ![p] = "begin"]
    /\ UNCHANGED <<storeVars, lock, worldVars, hist, window, response, ended, read,
                   ctxDone, closed, report>>

GuestEnds(p) ==
    /\ pc[p] = "guest"
    /\ \/ /\ "return" \in Program(hist[p])
          /\ ended' = [ended EXCEPT ![p] = "completed"]
       \/ /\ "raise" \in Program(hist[p])
          /\ ended' = [ended EXCEPT ![p] = "failed"]
    /\ pc' = [pc EXCEPT ![p] = "ended"]
    /\ UNCHANGED <<storeVars, lock, worldVars, hist, window, live, request, response,
                   read, ctxDone, closed, report>>

\* RunRecorded fails without a Python result: a trap, a limit, a done context.
GuestFails(p) ==
    /\ pc[p] = "guest"
    /\ Stop(p, "infra")
    /\ UNCHANGED <<storeVars, worldVars>>

-----------------------------------------------------------------------------
(* The live half of journal.Call.                                           *)

\* Variant: every pending call is dispatched again.
DispatchesAgain(r, created) == Recovery[r] \in {"retry", "lookup", "manual"}

\* Where a call goes once its row is committed: what its recovery mode allows.
Dispatches(r, created) ==
    \/ created /\ Recovery[r] \in {"retry", "lookup", "manual"}
    \/ Recovery[r] = "retry"

Route(p, r, created) ==
    \/ Dispatches(r, created) /\ Goto(p, "dispatch", "none")
    \/ Recovery[r] = "unknown" /\ Goto(p, "complete", "denied")
    \/ Recovery[r] = "wait" /\ Goto(p, "wait", "none")
    \/ ~created /\ Recovery[r] = "lookup" /\ Goto(p, "lookup", "none")
    \/ ~created /\ Recovery[r] = "manual" /\ Stop(p, "blocked")

\* BeginCall finds no row: commit the intent.  Its sequence check never fails:
\* a Guest that has seen every row is at the next one (ReplayFaithful).
BeginNew(p) ==
    /\ pc[p] = "begin" /\ p \notin ctxDone
    /\ At(p) > Len(calls)
    /\ status \notin Settled \cup {"waiting"}
    /\ calls' = Append(calls, CallRow(request[p], "pending", "none"))
    /\ Route(p, request[p], TRUE)
    /\ UNCHANGED <<status, pinned, result, waits, worldVars>>

\* BeginCall finds the row of an earlier attempt.  The row is open: a completed
\* one was in the read that made the journal live, and only p completes rows.
BeginAgain(p) ==
    /\ pc[p] = "begin" /\ p \notin ctxDone
    /\ At(p) <= Len(calls)
    /\ \/ /\ calls[At(p)].request # request[p]
          /\ Stop(p, "mismatch")
       \/ /\ calls[At(p)].request = request[p]
          /\ status \notin Settled
          /\ Route(p, request[p], FALSE)
    /\ UNCHANGED <<storeVars, worldVars>>

\* BeginCall's ErrConflict: the run was settled (cancelled) meanwhile.
BeginConflicts(p) ==
    /\ pc[p] = "begin"
    /\ status \in Settled \cup {"waiting"}
    /\ At(p) <= Len(calls) => status # "waiting" /\ calls[At(p)].request = request[p]
    /\ Stop(p, "infra")
    /\ UNCHANGED <<storeVars, worldVars>>

\* Variant: a done context replaces the answer of any tool.
HostCallCancelled(p, o) ==
    /\ pc[p] = "dispatch"
    /\ effects' = [effects EXCEPT ![At(p)] = IF @ < 2 THEN @ + 1 ELSE @]
    /\ applied' = [applied EXCEPT ![At(p)] = o]
    /\ Goto(p, "complete", IF p \in ctxDone THEN "ctxErr" ELSE o)
    /\ UNCHANGED storeVars

\* dispatch: the tool acts on the world and answers.  An ExternalIO tool whose
\* context ends before its slot is reacquired has its answer replaced.
HostCall(p, o) ==
    /\ pc[p] = "dispatch"
    /\ effects' = [effects EXCEPT ![At(p)] = IF @ < 2 THEN @ + 1 ELSE @]
    /\ applied' = [applied EXCEPT ![At(p)] = o]
    /\ Goto(p, "complete", IF request[p] \in External /\ p \in ctxDone THEN "ctxErr" ELSE o)
    /\ UNCHANGED storeVars

\* yield fails on a done context: the tool is not called, and the error is the outcome.
HostCallRefused(p) ==
    /\ pc[p] = "dispatch"
    /\ request[p] \in External /\ p \in ctxDone
    /\ Goto(p, "complete", "ctxErr")
    /\ UNCHANGED <<storeVars, worldVars>>

\* CompleteCall, with a context of its own: a completed row wins over the response.
Persisted(p) ==
    IF calls[At(p)].state = "completed" THEN calls[At(p)].outcome ELSE response[p]

Complete(p) ==
    /\ pc[p] = "complete"
    /\ calls' = [calls EXCEPT ![At(p)] = CallRow(@.request, "completed", Persisted(p))]
    /\ Deliver(p, Persisted(p))
    /\ UNCHANGED <<window, live, status, pinned, result, waits, worldVars>>

\* The tool's resolver, which knows whether an effect happened, answers: safe
\* to dispatch, done, still pending, or nothing usable.
LookupResolves(p) ==
    /\ pc[p] = "lookup"
    /\ ~(request[p] \in External /\ p \in ctxDone)
    /\ \/ effects[At(p)] = 0 /\ Goto(p, "dispatch", "none")
       \/ effects[At(p)] > 0 /\ Goto(p, "complete", applied[At(p)])
       \/ Stop(p, "parked")
       \/ Stop(p, "blocked")
    /\ UNCHANGED <<storeVars, worldVars>>

\* GetWait finds the row: its decision is the response, or there is none yet.
WaitFound(p) ==
    /\ pc[p] = "wait" /\ p \notin ctxDone
    /\ \/ waits[At(p)] = "open" /\ Goto(p, "waited", "none")
       \/ waits[At(p)] \notin {"none", "open"} /\ Goto(p, "complete", waits[At(p)])
    /\ UNCHANGED <<storeVars, worldVars>>

\* GetWait finds no row: EnsureWait declares the wait, unless the run is settled.
WaitDeclared(p) ==
    /\ pc[p] = "wait" /\ p \notin ctxDone
    /\ waits[At(p)] = "none"
    /\ IF status \in Settled
       THEN Stop(p, "infra") /\ UNCHANGED <<waits, calls, status>>
       ELSE /\ waits' = [waits EXCEPT ![At(p)] = "open"]
            /\ calls' = [calls EXCEPT ![At(p)] = CallRow(@.request, "waiting", @.outcome)]
            /\ status' = "waiting"
            /\ Goto(p, "waited", "none")
    /\ UNCHANGED <<pinned, result, worldVars>>

\* No decision was read and the deadline has not passed.
WaitParks(p) ==
    /\ pc[p] = "waited"
    /\ Stop(p, "parked")
    /\ UNCHANGED <<storeVars, worldVars>>

\* No decision was read and the deadline has passed: resolve the wait, unless a
\* decision came first.
WaitExpires(p) ==
    /\ pc[p] = "waited"
    /\ IF waits[At(p)] = "open"
       THEN /\ waits' = [waits EXCEPT ![At(p)] = "expired"]
            /\ status' = IF status = "waiting" THEN "active" ELSE status
            /\ Goto(p, "complete", "expired")
       ELSE Stop(p, "infra") /\ UNCHANGED <<waits, status>>
    /\ UNCHANGED <<pinned, result, calls, worldVars>>

-----------------------------------------------------------------------------
(* Resume, once RunRecorded returned.                                       *)

\* Whether a Python result consumed every recorded row (hasCall).
Consumed(p) == Len(hist[p]) >= Len(calls)

\* Read the status again; a Python result must have consumed every row.
Reread(p) ==
    /\ pc[p] = "ended"
    /\ \/ /\ status = "cancelled"
          /\ Return(p, "cancelled")
       \/ /\ status # "cancelled" /\ ended[p] = "infra"
          /\ Return(p, "error")
       \/ /\ status # "cancelled" /\ ended[p] = "parked"
          /\ Return(p, "parked")
       \/ /\ status # "cancelled" /\ ended[p] \in {"completed", "failed", "mismatch", "blocked"}
          /\ pc' = [pc EXCEPT ![p] = "settle"]
          /\ ended' = [ended EXCEPT ![p] =
                           IF @ \in {"completed", "failed"} /\ Consumed(p)
                           THEN @ ELSE "blocked"]
          /\ UNCHANGED <<lock, hist, window, live, request, response, read, ctxDone,
                         closed, report>>
    /\ UNCHANGED <<storeVars, worldVars>>

\* Variant: a Python result is reported although SetState found a conflict.
SettleAssumes(p) ==
    /\ pc[p] = "settle"
    /\ IF status \in Terminal
       THEN UNCHANGED <<status, result>>
       ELSE /\ status' = ended[p]
            /\ result' = IF ended[p] = "blocked" THEN <<>> ELSE hist[p]
    /\ Return(p, ended[p])
    /\ UNCHANGED <<pinned, calls, waits, worldVars>>

\* SetState.  ErrConflict means that Cancel came first: reported as cancelled
\* for a Python result, and still as blocked for an attempt that blocks.
Settle(p) ==
    /\ pc[p] = "settle"
    /\ IF status \in Terminal
       THEN /\ UNCHANGED <<status, result>>
            /\ Return(p, IF ended[p] = "blocked" THEN "blocked" ELSE "cancelled")
       ELSE /\ status' = ended[p]
            /\ result' = IF ended[p] = "blocked" THEN <<>> ELSE hist[p]
            /\ Return(p, ended[p])
    /\ UNCHANGED <<pinned, calls, waits, worldVars>>

-----------------------------------------------------------------------------
(* Failures.                                                                *)

\* A store operation, or a lookup, returns an error that changed nothing.
StoreFails(p) ==
    /\ \/ /\ pc[p] \in {"opened", "registered", "ended"}
          /\ Return(p, IF pc[p] = "opened" /\ pinned # Declaration[p] THEN "blocked" ELSE "error")
       \/ /\ pc[p] = "settle"
          /\ Return(p, IF ended[p] = "blocked" THEN "blocked" ELSE "error")
       \/ /\ pc[p] \in JournalPC \ {"dispatch"}
          /\ Stop(p, "infra")
    /\ UNCHANGED <<storeVars, worldVars>>

CtxEnds(p) ==
    /\ pc[p] \in GuestPC
    /\ p \notin ctxDone
    /\ ctxDone' = ctxDone \cup {p}
    /\ UNCHANGED <<storeVars, lock, worldVars, guestVars, pc, read, closed, report>>

\* The process is killed and started again, with a new Runner.
Crash(p) ==
    /\ pc[p] # "idle" \/ p \in closed
    /\ pc' = [pc EXCEPT ![p] = "idle"]
    /\ lock' = IF lock = p THEN NoProc ELSE lock
    /\ closed' = closed \ {p}
    /\ ctxDone' = ctxDone \ {p}
    /\ read' = [read EXCEPT ![p] = "absent"]
    /\ hist' = [hist EXCEPT ![p] = <<>>]
    /\ window' = [window EXCEPT ![p] = <<>>]
    /\ live' = live \ {p}
    /\ request' = [request EXCEPT ![p] = "none"]
    /\ response' = [response EXCEPT ![p] = "none"]
    /\ ended' = [ended EXCEPT ![p] = "none"]
    /\ report' = [report EXCEPT ![p] = "none"]
    /\ UNCHANGED <<storeVars, worldVars>>

-----------------------------------------------------------------------------
Journal(p) ==
    \/ \E r \in Request : CallOverBudget(p, r) \/ CallReplayed(p, r) \/ CallLive(p, r)
    \/ BeginNew(p) \/ BeginAgain(p) \/ BeginConflicts(p)
    \/ \E o \in Answer : HostCall(p, o)
    \/ HostCallRefused(p) \/ Complete(p) \/ LookupResolves(p)
    \/ WaitFound(p) \/ WaitDeclared(p) \/ WaitParks(p) \/ WaitExpires(p)

Resume(p) ==
    \/ Open(p) \/ OpenBlocked(p) \/ RefuseDefinition(p) \/ ReplayResult(p)
    \/ Register(p) \/ Recheck(p)
    \/ Journal(p) \/ GuestEnds(p)
    \/ Reread(p) \/ Settle(p)

Fault(p) == GuestFails(p) \/ StoreFails(p) \/ CtxEnds(p) \/ Crash(p)

Next ==
    \/ \E p \in Proc : Create(p) \/ Close(p) \/ Resume(p) \/ Fault(p)
    \/ \E i \in Sequence, d \in Answer : Decide(i, d)
    \/ Cancel

Spec == Init /\ [][Next]_vars

-----------------------------------------------------------------------------
(* Properties.                                                              *)

Completed(i) == calls[i].state = "completed"

\* Replay: whatever mixture of windows, BeginCall and CompleteCall produced
\* them, the outcomes a Guest has seen are, in order, the outcomes of completed
\* rows, and the rows still in its window are the ones the store has.
ReplayFaithful ==
    \A p \in Proc :
        /\ \A i \in 1..Len(hist[p]) :
               IF i <= MaxToolCalls
               THEN i <= Len(calls) /\ Completed(i) /\ hist[p][i] = calls[i].outcome
               ELSE hist[p][i] = "budget"
        /\ \A k \in 1..Len(window[p]) :
               Len(hist[p]) + k <= Len(calls) /\ window[p][k] = calls[Len(hist[p]) + k]

\* A call whose tool is Manual, or Lookup with a truthful resolver, acts on the
\* world at most once, however often the run is crashed and resumed; a wait or
\* an unknown tool never does, and nor does a call without a row.
EffectsAtMostOnce ==
    \A i \in Sequence :
        /\ effects[i] > 0 => /\ i <= Len(calls)
                             /\ Recovery[calls[i].request] \in {"retry", "lookup", "manual"}
        /\ effects[i] > 1 => Recovery[calls[i].request] = "retry"

\* The run is waiting exactly when its last row waits for a decision that
\* nobody has made, as long as it is neither cancelled nor blocked.
WaitingExact ==
    /\ status = "waiting" => calls # <<>> /\ waits[Len(calls)] = "open"
    /\ \A i \in Sequence :
           waits[i] = "open" => /\ i = Len(calls) /\ calls[i].state = "waiting"
                                /\ status \in {"waiting", "cancelled", "blocked"}

\* A Guest of the run executes only for the one process that holds the run's
\* lock, across crashes and restarts, and never on the core of a closed Runner,
\* though closed is checked before Claim and Close may come in between.
GuestAllowed ==
    \A p \in Proc :
        /\ pc[p] # "idle" <=> lock = p
        /\ pc[p] \in ActivePC => p \notin closed

\* What Resume reported stays true of the store: a completed, failed or
\* cancelled report is the run's status, then and ever after, although Cancel
\* takes no lock and may commit between Resume's reads and its SetState.
ReportHonest == \A p \in Proc : report[p] \in Terminal => status = report[p]

\* A durable outcome is what the tool answered: for a tool that is dispatched,
\* the outcome of its completed row is the last answer the world gave for it.
\* For an ExternalIO tool there is one exception, the error of a context that
\* ended before executeScheduled had its slot or had it back.
OutcomeIsAnswer ==
    \A i \in 1..Len(calls) :
        Completed(i) /\ Recovery[calls[i].request] \in {"retry", "lookup", "manual"}
            => \/ calls[i].outcome = applied[i]
               \/ calls[i].request \in External /\ calls[i].outcome = "ctxErr"

\* The attempts implement the abstract log: whatever they do, crash or race with
\* Decide and Cancel, the rows are the log of one execution of the program, no
\* durable outcome, decision or result is ever replaced, and a settled run
\* gets no new row.
Log == INSTANCE DurableLog
           WITH status <- status, result <- result, calls <- calls, waits <- waits
ImplementsLog == Log!LogSpec
=============================================================================
