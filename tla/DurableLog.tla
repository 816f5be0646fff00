------------------------------ MODULE DurableLog ------------------------------
(***************************************************************************)
(* What the rows of one durable run promise: they are the log of a single  *)
(* execution of the run's program, whatever processes, attempts, crashes   *)
(* and cancellations produced it.                                          *)
(*                                                                         *)
(* A row is appended for the call the program makes after the outcomes     *)
(* already recorded, and only when every earlier outcome is durable.  The  *)
(* output of a run that ended is what the program ends with after all of   *)
(* them.  There is no process, no lock and no Guest here: DurableRun is    *)
(* shown to implement this module, and ExportReplay reads the log that it  *)
(* describes.                                                              *)
(***************************************************************************)
EXTENDS Naturals, Sequences

CONSTANTS
    Request,        \* tool calls: a tool and its arguments
    Outcome,        \* what a call may come to, "budget" included
    Program(_),     \* outcomes seen -> requests, "return", "raise"
    MaxToolCalls    \* maxToolCalls: calls of one attempt

ASSUME LogAssumption ==
    /\ MaxToolCalls \in Nat
    /\ "budget" \in Outcome /\ {"none", "open"} \cap Outcome = {}

VARIABLES
    status, result,  \* the runs row: status, output
    calls,           \* the calls rows, in sequence order
    waits            \* waits row of each sequence: none, open or its decision

logVars == <<status, result, calls, waits>>

-----------------------------------------------------------------------------
Terminal  == {"completed", "failed", "cancelled"}
Settled   == Terminal \cup {"blocked"}
Sequence  == 1 .. MaxToolCalls
CallRow(r, s, o) == [request |-> r, state |-> s, outcome |-> o]
Completed(i) == calls[i].state = "completed"
Outcomes  == [i \in 1 .. Len(calls) |-> calls[i].outcome]
AllDone   == \A i \in 1 .. Len(calls) : Completed(i)

\* What Python can have seen when a run with these rows ends: the outcomes and,
\* over the call budget, a refusal for each further call that the program makes.
Ending(h) ==
    /\ h \in Seq(Outcome) /\ Len(h) >= Len(calls)
    /\ \A i \in 1 .. Len(calls) : h[i] = calls[i].outcome
    /\ \A i \in Len(calls) + 1 .. Len(h) :
           /\ Len(calls) = MaxToolCalls /\ h[i] = "budget"
           /\ \E r \in Request : r \in Program(SubSeq(h, 1, i - 1))

LogInit ==
    /\ status = "absent" /\ result = <<>> /\ calls = <<>>
    /\ waits = [i \in Sequence |-> "none"]

\* Store.Create.
LogCreate ==
    /\ status = "absent"
    /\ status' = "active"
    /\ UNCHANGED <<result, calls, waits>>

\* Store.BeginCall: the intent of the next call.
LogBegin(r) ==
    /\ status = "active" /\ AllDone /\ Len(calls) < MaxToolCalls
    /\ r \in Program(Outcomes)
    /\ calls' = Append(calls, CallRow(r, "pending", "none"))
    /\ UNCHANGED <<status, result, waits>>

\* Store.CompleteCall: the outcome of the open call, which is the last one; a
\* wait's is its decision.  A cancelled run still takes the outcome of the call
\* that was in progress.
LogComplete(o) ==
    /\ status \notin {"completed", "failed", "absent"}
    /\ calls # <<>> /\ ~Completed(Len(calls))
    /\ waits[Len(calls)] \in {"none", o}
    /\ calls' = [calls EXCEPT ![Len(calls)] = CallRow(@.request, "completed", o)]
    /\ UNCHANGED <<status, result, waits>>

\* Store.EnsureWait: the open call waits for a decision.
LogWait ==
    /\ status \notin Settled \cup {"absent"}
    /\ calls # <<>> /\ ~Completed(Len(calls)) /\ waits[Len(calls)] = "none"
    /\ calls' = [calls EXCEPT ![Len(calls)] = CallRow(@.request, "waiting", @.outcome)]
    /\ waits' = [waits EXCEPT ![Len(calls)] = "open"]
    /\ status' = "waiting"
    /\ UNCHANGED result

\* Store.ResolveWait: the first decision wins, also on a settled run.
LogResolve(i, o) ==
    /\ waits[i] = "open"
    /\ waits' = [waits EXCEPT ![i] = o]
    /\ status' = IF status = "waiting" THEN "active" ELSE status
    /\ UNCHANGED <<result, calls>>

\* Store.SetState with a Python result: every recorded call was seen.
LogEnd(s, h) ==
    /\ status \notin Settled \cup {"absent"} /\ AllDone /\ Ending(h)
    /\ (IF s = "completed" THEN "return" ELSE "raise") \in Program(h)
    /\ status' = s /\ result' = h
    /\ UNCHANGED <<calls, waits>>

\* Store.SetState by Cancel, or by an attempt that blocks the run.
LogSettle(s) ==
    /\ status \notin Terminal \cup {"absent"}
    /\ status' = s /\ result' = <<>>
    /\ UNCHANGED <<calls, waits>>

\* Everything but the end of the program.
LogStep ==
    \/ LogCreate \/ LogWait
    \/ \E r \in Request : LogBegin(r)
    \/ \E o \in Outcome \ {"budget"} : LogComplete(o) \/ \E i \in Sequence : LogResolve(i, o)
    \/ \E s \in {"cancelled", "blocked"} : LogSettle(s)

LogNext == LogStep \/ \E s \in {"completed", "failed"} : LogEnd(s, result')

LogSpec == LogInit /\ [][LogNext]_logVars
===============================================================================
