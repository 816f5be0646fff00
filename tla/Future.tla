-------------------------------- MODULE Future --------------------------------
(***************************************************************************)
(* One Run of a Guest with early reads (future.go, with the bridge of      *)
(* bridge.go and the life of a Run in runner.go).                          *)
(*                                                                         *)
(* The Guest's thread alone edits the map of futures and the call budget.  *)
(* prepare starts a worker per early read; the worker stores its response, *)
(* closes done, cancels its context and leaves the wait group, one step    *)
(* each.  resolve hands the response over, or does without it.  The Run's  *)
(* context may end at any moment, and close waits for every worker.        *)
(*                                                                         *)
(* A request is a tool name with its arguments; the tool's value for it is *)
(* identified by the request itself, so that an answer shows which call it *)
(* came from.  The Journal of a recorded Run is the subject of DurableRun: *)
(* early reads are excluded there and no Journal appears here.             *)
(***************************************************************************)
EXTENDS Naturals, FiniteSets

CONSTANTS
    Request,      \* tool names with arguments
    Known,        \* the requests whose tool is in the manifest
    Early,        \* those whose tool has AllowEarlyRead
    NoRequest,
    MaxPending,   \* 64
    MaxToolCalls  \* maxToolCalls

ASSUME FutureAssumption ==
    /\ Early \subseteq Known /\ Known \subseteq Request
    /\ NoRequest \notin Request
    /\ MaxPending \in Nat /\ MaxToolCalls \in Nat

VARIABLES
    run,      \* Runner.run: "start", "guest", "close", "wait" or "returned"
    enabled,  \* runState.enabled: early reads were asked for
    ctx,      \* runState.ctx: "live" or "done"
    calls,    \* runState.calls
    next,     \* runState.next: the last handle given out
    pending,  \* the keys of runState.futures
    request,  \* each future's request
    cancelled,\* the handles whose own cancel was called
    worker,   \* "none", "calling", "stored", "published" or "finished"
    response, \* future.response: "none", "value" or "error"
    host,     \* where the Guest's thread is: "guest", "select" or "call"
    asked,    \* the request that thread waits for
    waits,    \* the handle it waits for in resolve's select
    answer    \* the last answer: its kind, what was asked, whose call it is

futureVars == <<next, pending, request, cancelled>>
workerVars == <<worker, response>>
hostVars   == <<host, asked, waits, answer>>
runVars == <<run, enabled, ctx, calls, futureVars, workerVars, hostVars>>

-----------------------------------------------------------------------------
Handle == 1 .. MaxToolCalls
\* "value" and "error" are the tool's; the others are the bridge's own errors.
Kind   == {"none", "value", "error", "unknownTool", "unknownFuture", "budget", "ctx",
           "badRequest", "unwritten"}
Answer == [kind : Kind, asked : Request \cup {NoRequest}, of : Request \cup {NoRequest}]
\* An answer that carries nothing of a tool.
Bare(k)  == [kind |-> k, asked |-> NoRequest, of |-> NoRequest]

\* The Guest runs and its thread is not inside a Host function.
InGuest == run = "guest" /\ host = "guest"

\* The context a worker was given: a child of the Run's.
WorkerCancelled(i) == ctx = "done" \/ i \in cancelled

FutureInit ==
    /\ run = "start" /\ enabled \in BOOLEAN /\ ctx = "live"
    /\ calls = 0 /\ next = 0 /\ pending = {} /\ cancelled = {}
    /\ request = [i \in Handle |-> NoRequest]
    /\ worker = [i \in Handle |-> "none"]
    /\ response = [i \in Handle |-> "none"]
    /\ host = "guest" /\ asked = NoRequest /\ waits = 0
    /\ answer = Bare("none")

\* marshalRunRequest and newGuest: the Guest starts, or the Run already ends.
Start ==
    /\ run = "start"
    /\ run' \in {"guest", "close"}
    /\ UNCHANGED <<enabled, ctx, calls, futureVars, workerVars, hostVars>>

\* The host function returns; writeResponse may find no room for the answer.
Respond(a) ==
    /\ host' = "guest" /\ asked' = NoRequest /\ waits' = 0
    /\ answer' \in {a, Bare("unwritten")}

\* The tool's own answer k to q, from the call that was made for of.
Reply(k, q, of) == Respond([kind |-> k, asked |-> q, of |-> of])

\* An error of the bridge.
Refuse(k) == Respond(Bare(k))

-----------------------------------------------------------------------------
(* The bridge.                                                             *)

\* readRequest refuses what the Guest passed; hostPrepare answers 0.
BadRequest ==
    /\ InGuest
    /\ Refuse("badRequest")
    /\ UNCHANGED <<run, enabled, ctx, calls, futureVars, workerVars>>

Preparable(q) ==
    /\ enabled /\ q \in Early
    /\ Cardinality(pending) < MaxPending
    /\ calls < MaxToolCalls

\* runState.prepare; a request it does not prepare changes nothing.
Prepare(q) ==
    /\ InGuest /\ Preparable(q)
    /\ calls' = calls + 1 /\ next' = next + 1
    /\ pending' = pending \cup {next'}
    /\ request' = [request EXCEPT ![next'] = q]
    /\ worker' = [worker EXCEPT ![next'] = "calling"]
    /\ UNCHANGED <<run, enabled, ctx, cancelled, response, hostVars>>

\* Runner.invoke and dispatch: the budget, the manifest, then the tool.
Invoke(q) ==
    \/ /\ calls >= MaxToolCalls
       /\ Refuse("budget") /\ UNCHANGED calls
    \/ /\ calls < MaxToolCalls /\ q \notin Known
       /\ calls' = calls + 1
       /\ Refuse("unknownTool")
    \/ /\ calls < MaxToolCalls /\ q \in Known
       /\ calls' = calls + 1
       /\ host' = "call" /\ asked' = q /\ waits' = 0
       /\ UNCHANGED answer

\* hostCall, and resolve with the handle 0 of a read that was not prepared.
Call(q) ==
    /\ InGuest /\ Invoke(q)
    /\ UNCHANGED <<run, enabled, ctx, futureVars, workerVars>>

\* The tool returns its value or an error; its context may have ended.
ToolReturns ==
    /\ host = "call"
    /\ \E k \in {"value", "error"} : Reply(k, asked, asked)
    /\ UNCHANGED <<run, enabled, ctx, calls, futureVars, workerVars>>

-----------------------------------------------------------------------------
(* runState.resolve.                                                       *)

\* A handle that was never given out, or was used already.
ResolveUnknown(i, q) ==
    /\ InGuest /\ i \notin pending
    /\ Refuse("unknownFuture")
    /\ UNCHANGED <<run, enabled, ctx, calls, futureVars, workerVars>>

\* Variant: a dropped read is not cancelled.
ResolveMismatchKeeps(i, q) ==
    /\ InGuest /\ i \in pending /\ request[i] # q
    /\ pending' = pending \ {i}
    /\ Invoke(q)
    /\ UNCHANGED <<run, enabled, ctx, next, request, cancelled, workerVars>>

\* Another request than the prepared one: its read is dropped and made anew.
ResolveMismatch(i, q) ==
    /\ InGuest /\ i \in pending /\ request[i] # q
    /\ pending' = pending \ {i}
    /\ cancelled' = cancelled \cup {i}
    /\ Invoke(q)
    /\ UNCHANGED <<run, enabled, ctx, next, request, workerVars>>

\* Variant: only the tool is compared, not the arguments.
ResolveAnyArgs(i, q) ==
    /\ InGuest /\ i \in pending
    /\ pending' = pending \ {i}
    /\ host' = "select" /\ asked' = q /\ waits' = i
    /\ UNCHANGED <<run, enabled, ctx, calls, next, request, cancelled, workerVars, answer>>

\* The prepared request: the thread waits in the select.
ResolveMatch(i, q) ==
    /\ InGuest /\ i \in pending /\ request[i] = q
    /\ pending' = pending \ {i}
    /\ host' = "select" /\ asked' = q /\ waits' = i
    /\ UNCHANGED <<run, enabled, ctx, calls, next, request, cancelled, workerVars, answer>>

\* <-f.done: the published response, an error included.
SelectDone ==
    /\ host = "select" /\ worker[waits] \in {"published", "finished"}
    /\ Reply(response[waits], asked, request[waits])
    /\ cancelled' = cancelled \cup {waits}
    /\ UNCHANGED <<run, enabled, ctx, calls, next, pending, request, workerVars>>

\* <-s.ctx.Done(), also when done is ready: select takes either.
SelectCtx ==
    /\ host = "select" /\ ctx = "done"
    /\ Refuse("ctx")
    /\ cancelled' = cancelled \cup {waits}
    /\ UNCHANGED <<run, enabled, ctx, calls, next, pending, request, workerVars>>

-----------------------------------------------------------------------------
(* The worker of a future.                                                 *)

\* spec.Call returns and the response is stored.
WorkerStores(i) ==
    /\ worker[i] = "calling"
    /\ worker' = [worker EXCEPT ![i] = "stored"]
    /\ \E k \in {"value", "error"} : response' = [response EXCEPT ![i] = k]
    /\ UNCHANGED <<run, enabled, ctx, calls, futureVars, hostVars>>

\* The deferred close(f.done).
WorkerPublishes(i) ==
    /\ worker[i] = "stored"
    /\ worker' = [worker EXCEPT ![i] = "published"]
    /\ UNCHANGED <<run, enabled, ctx, calls, futureVars, response, hostVars>>

\* The deferred cancel and workers.Done.
WorkerFinishes(i) ==
    /\ worker[i] = "published"
    /\ worker' = [worker EXCEPT ![i] = "finished"]
    /\ cancelled' = cancelled \cup {i}
    /\ UNCHANGED <<run, enabled, ctx, calls, next, pending, request, response, hostVars>>

Worker(i) == WorkerStores(i) \/ WorkerPublishes(i) \/ WorkerFinishes(i)

-----------------------------------------------------------------------------
(* The end of a Run.                                                       *)

\* The caller cancels, or its deadline passes.
CtxEnds ==
    /\ ctx = "live" /\ run # "returned"
    /\ ctx' = "done"
    /\ UNCHANGED <<run, enabled, calls, futureVars, workerVars, hostVars>>

\* The program ends or fails, or wazero stops it because its context is done.
GuestEnds ==
    /\ InGuest
    /\ run' = "close"
    /\ UNCHANGED <<enabled, ctx, calls, futureVars, workerVars, hostVars>>

\* Variant: close waits without cancelling.
CloseKeepsContext ==
    /\ run = "close"
    /\ run' = "wait"
    /\ UNCHANGED <<enabled, ctx, calls, futureVars, workerVars, hostVars>>

\* runState.close: cancel ...
CloseRun ==
    /\ run = "close"
    /\ run' = "wait" /\ ctx' = "done"
    /\ UNCHANGED <<enabled, calls, futureVars, workerVars, hostVars>>

\* ... and workers.Wait, then Run returns.
Return ==
    /\ run = "wait"
    /\ \A i \in Handle : worker[i] \in {"none", "finished"}
    /\ run' = "returned"
    /\ UNCHANGED <<enabled, ctx, calls, futureVars, workerVars, hostVars>>

-----------------------------------------------------------------------------
Guest ==
    \/ BadRequest
    \/ \E q \in Request :
          \/ Prepare(q) \/ Call(q)
          \/ \E i \in Handle : ResolveUnknown(i, q) \/ ResolveMismatch(i, q) \/ ResolveMatch(i, q)

Host == ToolReturns \/ SelectDone \/ SelectCtx

FutureNext ==
    \/ Start \/ Guest \/ Host \/ CtxEnds \/ GuestEnds \/ CloseRun \/ Return
    \/ \E i \in Handle : Worker(i)

\* A tool honours its context: a call returns once that is cancelled, and a
\* Guest whose context is done is stopped.  Nothing promises that a tool returns
\* before, or that a program ends.
Fairness ==
    /\ WF_runVars(Start) /\ WF_runVars(CloseRun) /\ WF_runVars(Return)
    /\ WF_runVars(ctx = "done" /\ GuestEnds)
    /\ WF_runVars(ctx = "done" /\ ToolReturns)
    /\ WF_runVars(SelectDone \/ SelectCtx)
    /\ \A i \in Handle :
          /\ WF_runVars(WorkerCancelled(i) /\ WorkerStores(i))
          /\ WF_runVars(WorkerPublishes(i)) /\ WF_runVars(WorkerFinishes(i))

FutureSpec == FutureInit /\ [][FutureNext]_runVars
FairSpec   == FutureSpec /\ Fairness

-----------------------------------------------------------------------------
(* Properties.                                                             *)

\* The worker of a future is still inside, or behind, its tool call.
Working(i) == worker[i] \in {"calling", "stored", "published"}

\* Every variable is in its domain and the policy bounds hold however calls and
\* early reads mix: at most MaxPending reads are pending, every tool call, early
\* or not, is counted, and so at most MaxToolCalls are made.
TypeOK ==
    /\ run \in {"start", "guest", "close", "wait", "returned"}
    /\ enabled \in BOOLEAN /\ ctx \in {"live", "done"}
    /\ calls \in 0 .. MaxToolCalls /\ next \in 0 .. calls
    /\ Cardinality(pending) <= MaxPending
    /\ pending \subseteq 1 .. next /\ cancelled \subseteq 1 .. next
    /\ request \in [Handle -> Request \cup {NoRequest}]
    /\ worker \in [Handle -> {"none", "calling", "stored", "published", "finished"}]
    /\ response \in [Handle -> {"none", "value", "error"}]
    /\ host \in {"guest", "select", "call"}
    /\ asked \in Request \cup {NoRequest}
    /\ waits \in 0 .. next
    /\ answer \in Answer

\* "Never reuse mismatched data": a tool's value or error reaches the Guest only
\* as the answer to the very request it was called with, and never before the
\* worker has stored it.
AnswersMatch ==
    /\ answer.kind \in {"value", "error"} => answer.of = answer.asked /\ answer.asked \in Known
    /\ host = "select" /\ worker[waits] \in {"published", "finished"} => response[waits] # "none"

\* No worker is lost: one whose context is live has its handle in the map or the
\* Guest's thread waiting for it, and none works on when Run has returned
\* ("Cooperative tools finish before Run returns, including discarded reads").
NoOrphanWorker ==
    /\ \A i \in Handle : Working(i) /\ ~WorkerCancelled(i) =>
          i \in pending \/ (host = "select" /\ waits = i)
    /\ run = "returned" => \A i \in Handle : ~Working(i)

\* A Run whose context has ended, or whose Guest has, returns: no wait of resolve
\* or of close lasts for ever while tools honour their contexts.
RunEnds == ctx = "done" \/ run = "close" ~> run = "returned"
===============================================================================
