-------------------------- MODULE ExportReplayProofs --------------------------
(***************************************************************************)
(* Proofs about ExportReplay, for every program, every budget, any number  *)
(* of exporters and every page size.                                       *)
(*                                                                         *)
(* The inductive invariant has one part per reader.  LogInv is about the   *)
(* rows: they follow the program, only the last may be open, and a wait    *)
(* belongs to a row.  An ended run has no open row, so its rows are frozen *)
(* (RunStep) and the three reads of an export agree with them and with     *)
(* each other (ExportInv).  GuestInv says what a replayed Guest has seen   *)
(* of its bundle; VerdictRight and PagesComplete are inductive with these. *)
(***************************************************************************)
EXTENDS ExportReplay, SequenceTheorems, TLAPS

-----------------------------------------------------------------------------
(* The inductive invariant. *)

Statuses == {"absent", "active", "waiting", "blocked", "completed", "failed", "cancelled"}
Row == [request : Request, state : {"pending", "waiting", "completed"},
        outcome : Outcome \cup {"none"}]
Wait == Outcome \cup {"none", "open"}
Rows == {c \in Seq(Row) : Len(c) <= MaxToolCalls}
Tools == {"current", "old"}
Bundles == [status : Statuses, result : Seq(Outcome), tools : Tools, calls : Rows,
            waits : [Sequence -> Wait]]

\* The outcomes of the calls before the i-th, and calls that follow the program.
Past(c, i)  == [j \in 1 .. i - 1 |-> c[j].outcome]
Follows(c)  == \A i \in 1 .. Len(c) : c[i].request \in Program(Past(c, i))
EndOf(s)    == IF s = "completed" THEN "return" ELSE "raise"

\* Rows of an execution that came to its end: its calls follow the program, its
\* result is their outcomes and then refusals over the budget, and it ends there.
Faithful(s, r, c) ==
    /\ s \in Ended
    /\ r \in Seq(Outcome) /\ Len(c) <= Len(r) /\ Len(r) <= 2 * MaxToolCalls
    /\ \A i \in 1 .. Len(c) : c[i].state = "completed" /\ r[i] = c[i].outcome
    /\ \A i \in Len(c) + 1 .. Len(r) :
           /\ Len(c) = MaxToolCalls /\ r[i] = "budget"
           /\ \E q \in Request : q \in Program(SubSeq(r, 1, i - 1))
    /\ EndOf(s) \in Program(r)

LogInv ==
    /\ calls \in Rows /\ waits \in [Sequence -> Wait]
    /\ status \in Statuses /\ result \in Seq(Outcome)
    /\ Follows(calls)
    /\ \A i \in 1 .. Len(calls) : Completed(i) => calls[i].outcome \in Outcome
    /\ \A i \in 1 .. Len(calls) : i < Len(calls) => Completed(i)
    /\ \A i \in Sequence : waits[i] # "none" => i <= Len(calls)
    /\ \A i \in Sequence : waits[i] = "open" => ~Completed(i)
    /\ status \in Ended => Faithful(status, result, calls)

\* Outcomes that all have a value.
Valued(c) == \A i \in 1 .. Len(c) : c[i].outcome \notin Bare

\* What exporter e has read, and so far what it read is the run.
Reading(e) ==
    /\ xpc[e] # "done" => xend[e] = "none"
    /\ xpc[e] = "idle" => bundle[e].status = "absent"
    /\ xpc[e] \in {"calls", "waits", "create", "write"} =>
           /\ status \in Ended /\ bundle[e].status = status /\ bundle[e].result = result
           /\ tools = "current" /\ bundle[e].tools = tools
    /\ xpc[e] \in {"waits", "create", "write"} => bundle[e].calls = calls
    /\ xpc[e] \in {"create", "write"} => bundle[e].waits = waits /\ Valued(calls)
    /\ xpc[e] = "write" => file = "partial"
    /\ xend[e] = "bundle" /\ bundle[e].status \in Ended =>
           \/ bundle[e].tools = "old" \/ Oversized(bundle[e])
           \/ \E i \in DOMAIN bundle[e].calls : bundle[e].calls[i].outcome \in Bare

ExportInv ==
    /\ xpc \in [Exporter -> {"idle", "calls", "waits", "create", "write", "done"}]
    /\ xend \in [Exporter -> {"none", "ok", "bundle", "runtime"}]
    /\ bundle \in [Exporter -> Bundles] /\ data \in Bundles
    /\ tools \in Tools /\ edited \in BOOLEAN
    /\ \A e \in Exporter : Reading(e)
    /\ \A e, f \in Exporter : xpc[e] = "write" /\ xpc[f] = "write" => e = f
    /\ OnFile /\ ~edited => /\ status \in Ended /\ tools = "current" /\ data.tools = tools
                            /\ Valued(calls) /\ ~Oversized(data)
                            /\ data.status = status /\ data.result = result
                            /\ data.calls = calls /\ data.waits = waits
    /\ OnFile => \A i \in 1 .. Len(data.calls) : data.calls[i].outcome \in Outcome

\* The replayed Guest has seen the outcomes of the first index calls, each of
\* which it made, and after the whole budget only refusals; all this is the
\* beginning of the recorded result when nobody edited the bundle.
GuestInv ==
    /\ replay \in Bundles
    /\ rpc = "idle" => verdict.category = "none" /\ index = 0 /\ seen = <<>>
    /\ rpc = "guest" =>
           /\ verdict.category = "none"
           /\ index \in Nat /\ index <= Len(replay.calls)
           /\ seen \in Seq(Outcome) /\ index <= Len(seen)
           /\ index < Len(seen) => index = MaxToolCalls
           /\ \A i \in 1 .. index : Explained(replay, i) /\ seen[i] = replay.calls[i].outcome
           /\ \A i \in 1 .. Len(replay.calls) : replay.calls[i].outcome \in Outcome
           /\ ~edited => /\ Faithful(replay.status, replay.result, replay.calls)
                         /\ Follows(replay.calls)
                         /\ Len(seen) <= Len(replay.result)
                         /\ \A i \in 1 .. Len(seen) : seen[i] = replay.result[i]

PageInv == from \in Nat /\ pages \in Seq([sequence : Nat, class : {"final", "pending"}])


-----------------------------------------------------------------------------
(* Rows and the log. *)

\* What a call is answered with depends on the outcomes before it alone.
LEMMA PastAgrees ==
    ASSUME NEW c, NEW d, NEW i \in Nat, \A j \in 1 .. i - 1 : c[j].outcome = d[j].outcome
    PROVE  Past(c, i) = Past(d, i)
  BY DEF Past

LEMMA RowsType ==
    ASSUME NEW c \in Rows
    PROVE  /\ c \in Seq(Row) /\ Len(c) \in Nat /\ Len(c) <= MaxToolCalls
           /\ \A i \in 1 .. Len(c) : c[i] \in Row
  <1>1. c \in Seq(Row) /\ Len(c) <= MaxToolCalls
    BY DEF Rows
  <1> QED BY <1>1

\* The effect of one step of the log on its invariant.
LEMMA LogInitial == LogInit => LogInv
  <1> SUFFICES ASSUME LogInit PROVE LogInv
    OBVIOUS
  <1>1. calls = <<>> /\ calls \in Seq(Row) /\ Len(calls) = 0
    BY DEF LogInit
  <1>2. calls \in Rows
    BY <1>1, LogAssumption DEF Rows
  <1>3. waits \in [Sequence -> Wait] /\ result \in Seq(Outcome) /\ status \notin Ended /\ status \in Statuses
    BY DEF LogInit, Wait, Ended, Statuses
  <1>4. \A i \in Sequence : waits[i] = "none"
    BY DEF LogInit
  <1> QED BY <1>1, <1>2, <1>3, <1>4 DEF LogInv, Follows

\* Store.BeginCall appends a call that the program makes here.
LEMMA BeginKeepsLog ==
    ASSUME LogInv, NEW r \in Request, LogBegin(r)
    PROVE  /\ LogInv'
           /\ Len(calls') = Len(calls) + 1
           /\ \A i \in 1 .. Len(calls) : calls'[i] = calls[i]
  <1> DEFINE n == Len(calls)
             row == CallRow(r, "pending", "none")
  <1>1. calls \in Seq(Row) /\ n \in Nat /\ n < MaxToolCalls /\ MaxToolCalls \in Nat
    BY RowsType, LogAssumption DEF LogInv, LogBegin
  <1>2. row \in Row
    BY DEF Row, CallRow
  <1>3. calls' = Append(calls, row)
    BY DEF LogBegin
  <1>4. /\ calls' \in Seq(Row) /\ Len(calls') = n + 1 /\ calls'[n + 1] = row
        /\ \A i \in 1 .. n : calls'[i] = calls[i]
    BY <1>1, <1>2, <1>3, AppendProperties
  <1>5. calls' \in Rows
    BY <1>1, <1>4 DEF Rows
  <1>6. Follows(calls)'
    <2> SUFFICES ASSUME NEW i \in 1 .. n + 1
                 PROVE  calls'[i].request \in Program(Past(calls', i))
      BY <1>4 DEF Follows
    <2>1. i \in Nat /\ \A j \in 1 .. i - 1 : calls'[j].outcome = calls[j].outcome
      BY <1>1, <1>4
    <2>2. Past(calls', i) = Past(calls, i)
      BY <2>1, PastAgrees
    <2>3. CASE i \in 1 .. n
      BY <2>2, <2>3, <1>4 DEF LogInv, Follows
    <2>4. CASE i = n + 1
      <3>1. Past(calls, i) = Outcomes
        BY <2>4, <1>1 DEF Past, Outcomes
      <3>2. r \in Program(Outcomes) /\ row.request = r
        BY DEF LogBegin, CallRow
      <3> QED BY <3>1, <3>2, <2>2, <2>4, <1>4
    <2> QED BY <2>3, <2>4, <1>1
  <1>7. row.state = "pending" /\ AllDone /\ status = "active"
    BY DEF CallRow, LogBegin
  <1>8. status' = status /\ waits' = waits /\ result' = result
    BY DEF LogBegin
  <1>9. \A i \in 1 .. n + 1 : /\ Completed(i)' => calls'[i].outcome \in Outcome
                              /\ i < n + 1 => Completed(i)'
    BY <1>1, <1>4, <1>7 DEF LogInv, Completed, AllDone
  <1>10. \A i \in Sequence : waits'[i] # "none" => i <= n + 1
    BY <1>1, <1>8 DEF LogInv, Sequence
  <1>11. \A i \in Sequence : waits'[i] = "open" => ~Completed(i)'
    <2> SUFFICES ASSUME NEW i \in Sequence, waits[i] = "open" PROVE ~Completed(i)'
      BY <1>8
    <2>1. i \in 1 .. n /\ ~Completed(i)
      BY <1>1 DEF LogInv, Sequence
    <2> QED BY <2>1, <1>4 DEF Completed
  <1>12. status' \notin Ended
    BY <1>7, <1>8 DEF Ended
  <1> QED BY <1>4, <1>5, <1>6, <1>8, <1>9, <1>10, <1>11, <1>12 DEF LogInv

\* A change of the open row keeps its request and every other row.
LEMMA ReplaceLast ==
    ASSUME LogInv, calls # <<>>, ~Completed(Len(calls)),
           NEW s \in {"waiting", "completed"}, NEW o \in Outcome \cup {"none"},
           calls' = [calls EXCEPT ![Len(calls)] = CallRow(@.request, s, o)]
    PROVE  /\ calls' \in Rows /\ Len(calls') = Len(calls) /\ Len(calls) \in Sequence
           /\ \A i \in 1 .. Len(calls) - 1 : calls'[i] = calls[i]
           /\ calls'[Len(calls)].state = s /\ calls'[Len(calls)].outcome = o
           /\ Follows(calls)'
  <1> DEFINE n == Len(calls)
  <1>1. calls \in Seq(Row) /\ n \in Nat /\ n <= MaxToolCalls /\ MaxToolCalls \in Nat
    BY RowsType, LogAssumption DEF LogInv
  <1>2. n \in 1 .. n
    BY <1>1
  <1>3. calls[n] \in Row
    BY <1>1, <1>2
  <1>4. CallRow(calls[n].request, s, o) \in Row
    BY <1>3 DEF Row, CallRow
  <1>5. /\ calls' \in Seq(Row) /\ Len(calls') = n
        /\ \A i \in 1 .. n : calls'[i] = IF i = n THEN CallRow(calls[n].request, s, o) ELSE calls[i]
    BY <1>1, <1>2, <1>4
  <1>6. calls'[n] = CallRow(calls[n].request, s, o) /\ \A i \in 1 .. n - 1 : calls'[i] = calls[i]
    <2>1. \A i \in 1 .. n - 1 : i \in 1 .. n /\ i # n
      BY <1>1
    <2> QED BY <1>2, <1>5, <2>1
  <1>7. calls'[n].state = s /\ calls'[n].outcome = o /\ calls'[n].request = calls[n].request
    BY <1>6 DEF CallRow
  <1>8. Follows(calls)'
    <2> SUFFICES ASSUME NEW i \in 1 .. n
                 PROVE  calls'[i].request \in Program(Past(calls', i))
      BY <1>5 DEF Follows
    <2>1. i \in Nat /\ \A j \in 1 .. i - 1 : calls'[j].outcome = calls[j].outcome
      BY <1>1, <1>6
    <2>2. Past(calls', i) = Past(calls, i)
      BY <2>1, PastAgrees
    <2>3. calls'[i].request = calls[i].request
      BY <1>1, <1>6, <1>7
    <2> QED BY <2>2, <2>3 DEF LogInv, Follows
  <1>9. calls' \in Rows
    BY <1>1, <1>5 DEF Rows
  <1>10. n \in Sequence
    BY <1>1, <1>2 DEF Sequence
  <1> QED BY <1>5, <1>6, <1>7, <1>8, <1>9, <1>10

\* Store.CompleteCall records the outcome of the open row.
LEMMA CompleteKeepsLog ==
    ASSUME LogInv, NEW o \in Outcome \ {"budget"}, LogComplete(o)
    PROVE  /\ LogInv' /\ Len(calls') = Len(calls)
           /\ \A i \in 1 .. Len(calls) : Completed(i) => Completed(i)'
  <1> DEFINE n == Len(calls)
  <1>1. /\ status \notin Ended /\ calls # <<>> /\ ~Completed(n) /\ waits[n] \in {"none", o}
        /\ calls' = [calls EXCEPT ![n] = CallRow(@.request, "completed", o)]
        /\ status' = status /\ waits' = waits /\ result' = result
    BY DEF LogComplete, Ended
  <1>2. /\ calls' \in Rows /\ Len(calls') = n /\ n \in Sequence
        /\ \A i \in 1 .. n - 1 : calls'[i] = calls[i]
        /\ calls'[n].state = "completed" /\ calls'[n].outcome = o
        /\ Follows(calls)'
    BY <1>1, ReplaceLast
  <1>3. n \in Nat /\ n <= MaxToolCalls /\ \A i \in 1 .. n : i = n \/ i \in 1 .. n - 1
    BY <1>2, LogAssumption, RowsType DEF Sequence, LogInv
  <1>4. \A i \in 1 .. n - 1 : i \in 1 .. n /\ Completed(i)
    BY <1>3 DEF LogInv
  <1>5. \A i \in 1 .. n : Completed(i)'
    BY <1>2, <1>3, <1>4 DEF Completed
  <1>6. \A i \in 1 .. n : calls'[i].outcome \in Outcome
    BY <1>2, <1>3, <1>4 DEF LogInv
  <1>7. \A i \in Sequence : waits[i] # "open"
    <2> SUFFICES ASSUME NEW i \in Sequence, waits[i] = "open" PROVE FALSE
      OBVIOUS
    <2>1. i \in 1 .. n /\ ~Completed(i)
      BY <1>3 DEF LogInv, Sequence
    <2>2. i = n
      BY <2>1, <1>3, <1>4
    <2>3. "open" \notin Outcome
      BY LogAssumption
    <2> QED BY <1>1, <2>2, <2>3
  <1>8. \A i \in Sequence : waits'[i] # "none" => i <= Len(calls')
    BY <1>1, <1>2 DEF LogInv
  <1> QED BY <1>1, <1>2, <1>5, <1>6, <1>7, <1>8 DEF LogInv

\* Store.EnsureWait opens the wait of the open row.
LEMMA WaitKeepsLog ==
    ASSUME LogInv, LogWait
    PROVE  /\ LogInv' /\ Len(calls') = Len(calls) /\ status \notin Ended
           /\ \A i \in 1 .. Len(calls) : Completed(i) => Completed(i)'
  <1> DEFINE n == Len(calls)
  <1>1. /\ status \notin Ended /\ calls # <<>> /\ ~Completed(n)
        /\ calls' = [calls EXCEPT ![n] = CallRow(@.request, "waiting", @.outcome)]
        /\ waits' = [waits EXCEPT ![n] = "open"]
        /\ status' = "waiting" /\ result' = result
    BY DEF LogWait, Ended, Settled, Terminal
  <1>2. calls[n].outcome \in Outcome \cup {"none"}
    <2>1. calls \in Seq(Row) /\ n \in 1 .. n
      BY <1>1, RowsType DEF LogInv
    <2>2. calls[n] \in Row
      BY <2>1
    <2> QED BY <2>2 DEF Row
  <1>3. /\ calls' \in Rows /\ Len(calls') = n /\ n \in Sequence
        /\ \A i \in 1 .. n - 1 : calls'[i] = calls[i]
        /\ calls'[n].state = "waiting"
        /\ Follows(calls)'
    <2> HIDE DEF n
    <2>1. PICK o \in Outcome \cup {"none"} : o = calls[n].outcome
      BY <1>2
    <2>2. calls' = [calls EXCEPT ![n] = CallRow(@.request, "waiting", o)]
      BY <1>1, <2>1
    <2> QED BY <1>1, <2>1, <2>2, ReplaceLast DEF n
  <1>4. n \in Nat /\ n <= MaxToolCalls /\ \A i \in 1 .. n : i = n \/ i \in 1 .. n - 1
    BY <1>3, LogAssumption, RowsType DEF Sequence, LogInv
  <1>5. \A i \in 1 .. n - 1 : i \in 1 .. n /\ Completed(i) /\ i # n
    BY <1>4 DEF LogInv
  <1>6. \A i \in 1 .. n : /\ Completed(i)' => calls'[i].outcome \in Outcome
                          /\ i < n => Completed(i)'
                          /\ Completed(i) => Completed(i)'
    BY <1>1, <1>3, <1>4, <1>5 DEF LogInv, Completed
  <1>7. waits' \in [Sequence -> Wait]
    BY <1>1 DEF LogInv, Wait
  <1>8. \A i \in Sequence : waits'[i] # "none" => i <= n
    <2> SUFFICES ASSUME NEW i \in Sequence, waits'[i] # "none", i # n PROVE i <= n
      BY <1>4
    <2>1. waits'[i] = waits[i]
      BY <1>1 DEF LogInv
    <2> QED BY <2>1 DEF LogInv
  <1>9. \A i \in Sequence : waits'[i] = "open" => ~Completed(i)'
    <2> SUFFICES ASSUME NEW i \in Sequence, waits'[i] = "open" PROVE ~Completed(i)'
      OBVIOUS
    <2>1. i \in 1 .. n
      BY <1>8, <1>4 DEF Sequence
    <2>2. CASE i = n
      BY <2>2, <1>3 DEF Completed
    <2>3. CASE i # n
      <3>1. waits[i] = "open"
        BY <2>3, <1>1 DEF LogInv
      <3> QED BY <3>1, <2>1, <2>3, <1>4, <1>5 DEF LogInv
    <2> QED BY <2>2, <2>3
  <1>10. status' \notin Ended /\ status' \in Statuses
    BY <1>1 DEF Ended, Statuses
  <1> QED BY <1>1, <1>3, <1>6, <1>7, <1>8, <1>9, <1>10 DEF LogInv

\* Store.ResolveWait: no wait of an ended run is open any more.
LEMMA ResolveKeepsLog ==
    ASSUME LogInv, NEW i \in Sequence, NEW o \in Outcome \ {"budget"}, LogResolve(i, o)
    PROVE  LogInv' /\ status \notin Ended /\ calls' = calls
  <1>1. /\ waits[i] = "open" /\ waits' = [waits EXCEPT ![i] = o]
        /\ status' = (IF status = "waiting" THEN "active" ELSE status)
        /\ result' = result /\ calls' = calls
    BY DEF LogResolve
  <1>2. i \in 1 .. Len(calls) /\ ~Completed(i)
    BY <1>1, RowsType, LogAssumption DEF LogInv, Sequence
  <1>3. status \notin Ended
    BY <1>2 DEF LogInv, Faithful, Completed
  <1>4. status' \notin Ended /\ status' \in Statuses
    BY <1>1, <1>3 DEF LogInv, Ended, Statuses
  <1>5. waits' \in [Sequence -> Wait]
    BY <1>1 DEF LogInv, Wait
  <1>6. o # "open"
    BY LogAssumption
  <1>7. \A k \in Sequence : /\ waits'[k] # "none" => k <= Len(calls)
                            /\ waits'[k] = "open" => ~Completed(k)
    BY <1>1, <1>2, <1>6 DEF LogInv
  <1> QED BY <1>1, <1>3, <1>4, <1>5, <1>7 DEF LogInv, Completed, Follows

\* Store.SetState at the end of the program.
LEMMA EndKeepsLog ==
    ASSUME LogInv, NEW s \in {"completed", "failed"}, NEW k \in 0 .. MaxToolCalls,
           LogEnd(s, Refused(k))
    PROVE  LogInv' /\ status \notin Ended /\ calls' = calls
  <1>1. /\ status \notin Ended /\ AllDone /\ Ending(Refused(k))
        /\ EndOf(s) \in Program(Refused(k))
        /\ status' = s /\ result' = Refused(k) /\ calls' = calls /\ waits' = waits
    BY DEF LogEnd, Ended, Settled, Terminal, EndOf
  <1> DEFINE n == Len(calls)
  <1>2. calls \in Seq(Row) /\ n \in Nat /\ n <= MaxToolCalls /\ MaxToolCalls \in Nat
    BY RowsType, LogAssumption DEF LogInv
  <1>3. Len(Refused(k)) = n + k
    BY <1>2 DEF Refused
  <1>4. PICK h \in Seq(Outcome) : h = Refused(k)
    BY <1>1 DEF Ending
  <1>5. /\ Len(h) >= n /\ Len(h) <= 2 * MaxToolCalls
        /\ \A i \in 1 .. n : h[i] = calls[i].outcome
        /\ \A i \in n + 1 .. Len(h) :
              /\ n = MaxToolCalls /\ h[i] = "budget"
              /\ \E r \in Request : r \in Program(SubSeq(h, 1, i - 1))
    BY <1>1, <1>2, <1>3, <1>4 DEF Ending
  <1>6. Len(h) \in Nat
    BY <1>4
  <1>7. Faithful(s, h, calls)
    BY <1>1, <1>2, <1>4, <1>5, <1>6 DEF Faithful, AllDone, Completed, Ended
  <1>8. s \in Statuses
    BY DEF Statuses
  <1> QED BY <1>1, <1>4, <1>7, <1>8 DEF LogInv, Completed, Follows

\* Store.Create, Cancel, and an attempt that blocks the run.
LEMMA SettleKeepsLog ==
    ASSUME LogInv, LogCreate \/ \E s \in {"cancelled", "blocked"} : LogSettle(s)
    PROVE  LogInv' /\ status \notin Ended /\ calls' = calls
  <1>1. /\ status \notin Ended /\ status' \notin Ended /\ status' \in Statuses
        /\ calls' = calls /\ waits' = waits /\ (result' = result \/ result' = <<>>)
    BY DEF LogCreate, LogSettle, Ended, Terminal, Statuses
  <1>2. result \in Seq(Outcome) /\ <<>> \in Seq(Outcome)
    BY DEF LogInv
  <1>3. result' \in Seq(Outcome)
    BY <1>1, <1>2
  <1> QED BY <1>1, <1>3 DEF LogInv, Completed, Follows

\* The run's own step: its rows stay right, they never shrink, an outcome stays,
\* and the rows of a run that has ended never change.
LEMMA RunStep ==
    ASSUME LogInv, RunGoesOn
    PROVE  /\ LogInv' /\ status \notin Ended
           /\ Len(calls') >= Len(calls)
           /\ \A i \in 1 .. Len(calls) : Completed(i) => Completed(i)'
  <1>0. Len(calls) \in Nat
    BY RowsType DEF LogInv
  <1>1. ASSUME NEW r \in Request, LogBegin(r)
        PROVE  /\ LogInv' /\ status \notin Ended /\ Len(calls') >= Len(calls)
               /\ \A i \in 1 .. Len(calls) : Completed(i) => Completed(i)'
    BY <1>0, <1>1, BeginKeepsLog DEF LogBegin, Ended, Completed
  <1>2. ASSUME NEW o \in Outcome \ {"budget"}, LogComplete(o)
        PROVE  /\ LogInv' /\ status \notin Ended /\ Len(calls') >= Len(calls)
               /\ \A i \in 1 .. Len(calls) : Completed(i) => Completed(i)'
    <2>1. status \notin Ended
      BY <1>2 DEF LogComplete, Ended
    <2> QED BY <2>1, <1>0, <1>2, CompleteKeepsLog
  <1>3. CASE LogWait
    BY <1>0, <1>3, WaitKeepsLog
  <1>4. ASSUME LogInv', status \notin Ended, calls' = calls
        PROVE  Len(calls') >= Len(calls) /\ \A i \in 1 .. Len(calls) : Completed(i) => Completed(i)'
    BY <1>0, <1>4 DEF Completed
  <1>5. CASE \E o \in Outcome \ {"budget"}, i \in Sequence : LogResolve(i, o)
    BY <1>4, <1>5, ResolveKeepsLog
  <1>6. CASE \E s \in {"completed", "failed"}, k \in 0 .. MaxToolCalls : LogEnd(s, Refused(k))
    BY <1>4, <1>6, EndKeepsLog
  <1>7. CASE LogCreate \/ \E s \in {"cancelled", "blocked"} : LogSettle(s)
    BY <1>4, <1>7, SettleKeepsLog
  <1> QED BY <1>1, <1>2, <1>3, <1>5, <1>6, <1>7 DEF RunGoesOn, LogStep

-----------------------------------------------------------------------------
(* Export. *)

LEMMA BundleFields ==
    ASSUME NEW s, NEW r, NEW t, NEW c, NEW w
    PROVE  /\ Bundle(s, r, t, c, w).status = s /\ Bundle(s, r, t, c, w).result = r
           /\ Bundle(s, r, t, c, w).tools = t
           /\ Bundle(s, r, t, c, w).calls = c /\ Bundle(s, r, t, c, w).waits = w
           /\ s \in Statuses /\ r \in Seq(Outcome) /\ t \in Tools /\ c \in Rows /\ w \in [Sequence -> Wait]
                  => Bundle(s, r, t, c, w) \in Bundles
  BY DEF Bundle, Bundles

LEMMA BundlesType ==
    ASSUME NEW b \in Bundles
    PROVE  /\ b.status \in Statuses /\ b.result \in Seq(Outcome) /\ b.calls \in Rows
           /\ b.waits \in [Sequence -> Wait] /\ b.tools \in Tools
           /\ b = Bundle(b.status, b.result, b.tools, b.calls, b.waits)
  BY DEF Bundles, Bundle

\* While an exporter reads or its file stands unedited, the run has ended and
\* makes no step: only exporters that are idle or done see the run go on.
LEMMA RunKeepsExport ==
    ASSUME LogInv, ExportInv, RunGoesOn
    PROVE  ExportInv'
  <1>1. status \notin Ended /\ LogInv'
    BY RunStep
  <1>2. UNCHANGED <<tools, xpc, bundle, xend, file, data, edited>>
    BY DEF RunGoesOn, exportVars
  <1>3. ~(OnFile /\ ~edited)
    BY <1>1 DEF ExportInv
  <1>4. ASSUME NEW e \in Exporter PROVE Reading(e)'
    <2>1. Reading(e) /\ xpc[e] \notin {"calls", "waits", "create", "write"}
      BY <1>1 DEF ExportInv, Reading
    <2> QED BY <2>1, <1>2 DEF Reading, Valued
  <1> QED BY <1>2, <1>3, <1>4 DEF ExportInv, OnFile

\* What a step of exporter e must keep, when it only reads or ends.
LEMMA ReaderKeeps ==
    ASSUME LogInv, ExportInv, NEW e \in Exporter,
           UNCHANGED <<runVars, file, data, edited>>,
           NEW p \in {"calls", "waits", "create", "done"},
           NEW c \in {"none", "ok", "bundle", "runtime"},
           NEW b \in Bundles,
           xpc' = [xpc EXCEPT ![e] = p], xend' = [xend EXCEPT ![e] = c],
           bundle' = [bundle EXCEPT ![e] = b],
           p # "done" => /\ c = "none" /\ status \in Ended /\ b.status = status /\ b.result = result
                         /\ tools = "current" /\ b.tools = tools,
           p \in {"waits", "create"} => b.calls = calls,
           p = "create" => b.waits = waits /\ Valued(calls),
           c = "bundle" /\ b.status \in Ended =>
               \/ b.tools = "old" \/ Oversized(b)
               \/ \E i \in DOMAIN b.calls : b.calls[i].outcome \in Bare
    PROVE  ExportInv'
  <1>1. /\ status' = status /\ result' = result /\ calls' = calls /\ waits' = waits
        /\ file' = file /\ data' = data /\ edited' = edited /\ tools' = tools
    BY DEF runVars, logVars
  <1>2. /\ xpc' \in [Exporter -> {"idle", "calls", "waits", "create", "write", "done"}]
        /\ xend' \in [Exporter -> {"none", "ok", "bundle", "runtime"}]
        /\ bundle' \in [Exporter -> Bundles]
        /\ xpc'[e] = p /\ xend'[e] = c /\ bundle'[e] = b
        /\ \A f \in Exporter : f # e =>
               xpc'[f] = xpc[f] /\ xend'[f] = xend[f] /\ bundle'[f] = bundle[f]
    BY DEF ExportInv
  <1>3. ASSUME NEW f \in Exporter PROVE Reading(f)'
    <2>1. CASE f = e
      BY <1>1, <1>2, <2>1 DEF Reading, Valued
    <2>2. CASE f # e
      <3>1. Reading(f)
        BY DEF ExportInv
      <3> QED BY <1>1, <1>2, <2>2, <3>1 DEF Reading, Valued
    <2> QED BY <2>1, <2>2
  <1>4. \A f, g \in Exporter : xpc'[f] = "write" /\ xpc'[g] = "write" => f = g
    BY <1>2 DEF ExportInv
  <1> QED BY <1>1, <1>2, <1>3, <1>4 DEF ExportInv, OnFile

\* Store.Get, exportCalls, exportWaits and the death of a reader.
LEMMA ReadKeepsExport ==
    ASSUME LogInv, ExportInv, NEW e \in Exporter,
           ReadRun(e) \/ ReadCalls(e) \/ ReadWaits(e) \/ ExportDies(e)
    PROVE  ExportInv'
  <1>0. /\ bundle[e] \in Bundles /\ Reading(e)
        /\ calls \in Rows /\ waits \in [Sequence -> Wait]
        /\ status \in Statuses /\ result \in Seq(Outcome) /\ tools \in Tools
    BY DEF ExportInv, LogInv
  <1>f. /\ bundle[e].status \in Statuses /\ bundle[e].result \in Seq(Outcome)
        /\ bundle[e].calls \in Rows /\ bundle[e].waits \in [Sequence -> Wait]
        /\ bundle[e].tools \in Tools
    BY <1>0, BundlesType
  <1>t. /\ UNCHANGED <<runVars, file, data, edited>>
        /\ xend = [xend EXCEPT ![e] = xend[e]] /\ bundle = [bundle EXCEPT ![e] = bundle[e]]
    BY DEF ReadRun, ReadCalls, ReadWaits, ExportDies, ExportInv
  <1>1. CASE ReadRun(e)
    <2>0. xend[e] = "none" /\ bundle[e].status \notin Ended
      BY <1>0, <1>1 DEF ReadRun, Reading, Ended
    <2>1. CASE status = "absent"
      <3>1. /\ xpc' = [xpc EXCEPT ![e] = "done"] /\ xend' = [xend EXCEPT ![e] = "runtime"]
            /\ bundle' = bundle
        BY <1>1, <2>1 DEF ReadRun, XEnd
      <3>2. PICK b \in Bundles : b = bundle[e]
        BY <1>0
      <3> QED BY <3>1, <3>2, <1>t, ReaderKeeps
    <2>2. CASE status # "absent"
      <3>1. PICK b \in Bundles : b = Bundle(status, result, tools, bundle[e].calls, bundle[e].waits)
        BY <1>0, <1>f, BundleFields
      <3>2. bundle' = [bundle EXCEPT ![e] = b]
        BY <1>0, <1>1, <2>2, <3>1 DEF ReadRun, ExportInv
      <3>3. b.status = status /\ b.result = result /\ b.tools = tools
        BY <3>1, BundleFields
      <3>4. CASE status \in Ended /\ tools = "current"
        <4>1. xpc' = [xpc EXCEPT ![e] = "calls"] /\ xend' = [xend EXCEPT ![e] = "none"]
          BY <1>1, <1>t, <2>0, <2>2, <3>4 DEF ReadRun, XGoto
        <4> QED BY <3>2, <3>3, <3>4, <4>1, <1>t, ReaderKeeps
      <3>5. CASE ~(status \in Ended /\ tools = "current")
        <4>1. xpc' = [xpc EXCEPT ![e] = "done"] /\ xend' = [xend EXCEPT ![e] = "bundle"]
          BY <1>1, <2>2, <3>5 DEF ReadRun, XEnd
        <4>2. b.status \in Ended => b.tools = "old"
          BY <1>0, <3>3, <3>5 DEF Tools
        <4> QED BY <3>2, <4>1, <4>2, <1>t, ReaderKeeps
      <3> QED BY <3>4, <3>5
    <2> QED BY <2>1, <2>2
  <1>2. CASE ReadCalls(e)
    <2>0. xend[e] = "none" /\ bundle[e].status = status /\ bundle[e].result = result /\ status \in Ended
          /\ tools = "current" /\ bundle[e].tools = tools
      BY <1>0, <1>2 DEF ReadCalls, Reading
    <2>1. PICK b \in Bundles : b = Bundle(status, result, tools, calls, bundle[e].waits)
      BY <1>0, <1>f, BundleFields
    <2>2. bundle' = [bundle EXCEPT ![e] = b]
      BY <1>0, <1>2, <2>0, <2>1 DEF ReadCalls, ExportInv
    <2>3. xpc' = [xpc EXCEPT ![e] = "waits"] /\ xend' = [xend EXCEPT ![e] = "none"]
      BY <1>2, <1>t, <2>0 DEF ReadCalls, XGoto
    <2>4. b.status = status /\ b.result = result /\ b.tools = tools /\ b.calls = calls
      BY <2>1, BundleFields
    <2> QED BY <2>0, <2>2, <2>3, <2>4, <1>t, ReaderKeeps
  <1>3. CASE ReadWaits(e)
    <2>0. /\ xend[e] = "none" /\ bundle[e].status = status /\ bundle[e].result = result
          /\ status \in Ended /\ bundle[e].calls = calls
          /\ tools = "current" /\ bundle[e].tools = tools
      BY <1>0, <1>3 DEF ReadWaits, Reading
    <2>1. PICK b \in Bundles : b = Bundle(status, result, tools, calls, waits)
      BY <1>0, <1>f, BundleFields
    <2>2. bundle' = [bundle EXCEPT ![e] = b] /\ bundle'[e] = b
      BY <1>0, <1>3, <2>0, <2>1 DEF ReadWaits, ExportInv
    <2>4. b.status = status /\ b.result = result /\ b.tools = tools /\ b.calls = calls /\ b.waits = waits
      BY <2>1, BundleFields
    <2>5. /\ \A i \in 1 .. Len(calls) : Completed(i)
          /\ \A i \in Sequence : waits[i] # "none" => i \in 1 .. Len(calls)
      <3>1. Len(calls) \in Nat /\ \A i \in Sequence : i \in Nat \ {0}
        BY <1>0, RowsType, LogAssumption DEF Sequence
      <3> QED BY <2>0, <3>1 DEF LogInv, Faithful, Completed
    <2>6. ~(\E i \in Sequence : waits[i] = "open")
      BY <2>5 DEF LogInv
    <2>7. CASE ValidBundle(b)
      <3>1. xpc' = [xpc EXCEPT ![e] = "create"] /\ xend' = [xend EXCEPT ![e] = "none"]
        BY <1>3, <1>t, <2>0, <2>2, <2>6, <2>7 DEF ReadWaits, XGoto
      <3>2. Valued(calls)
        BY <2>4, <2>7 DEF ValidBundle, ValidCall, Valued
      <3> QED BY <2>0, <2>2, <2>4, <3>1, <3>2, <1>t, ReaderKeeps
    <2>8. CASE ~ValidBundle(b)
      <3>1. xpc' = [xpc EXCEPT ![e] = "done"] /\ xend' = [xend EXCEPT ![e] = "bundle"]
        BY <1>3, <2>2, <2>8 DEF ReadWaits, XEnd
      <3>2. PICK i \in 1 .. Len(calls) : ~ValidCall(calls[i])
        <4>1. Len(calls) \in Nat
          BY <1>0, RowsType
        <4> QED BY <4>1, <2>0, <2>4, <2>5, <2>8 DEF ValidBundle
      <3>3. calls[i].outcome \in Bare
        BY <2>5, <3>2 DEF ValidCall, Completed
      <3>4. i \in DOMAIN b.calls
        <4>1. calls \in Seq(Row)
          BY <1>0 DEF Rows
        <4> QED BY <2>4, <3>2, <4>1
      <3> QED BY <2>2, <2>4, <3>1, <3>3, <3>4, <1>t, ReaderKeeps
    <2> QED BY <2>7, <2>8
  <1>4. CASE ExportDies(e)
    <2>1. /\ xpc' = [xpc EXCEPT ![e] = "done"] /\ xend' = [xend EXCEPT ![e] = "runtime"]
          /\ bundle' = bundle
      BY <1>4 DEF ExportDies, XEnd
    <2>2. PICK b \in Bundles : b = bundle[e]
      BY <1>0
    <2> QED BY <2>1, <2>2, <1>t, ReaderKeeps
  <1> QED BY <1>1, <1>2, <1>3, <1>4

\* OpenFile with O_EXCL admits one writer.
LEMMA CreateKeepsExport ==
    ASSUME LogInv, ExportInv, NEW e \in Exporter, CreateFile(e)
    PROVE  ExportInv'
  <1>0. Reading(e) /\ xpc[e] = "create"
    BY DEF ExportInv, CreateFile
  <1>1. CASE file # "absent"
    <2>1. /\ xpc' = [xpc EXCEPT ![e] = "done"] /\ xend' = [xend EXCEPT ![e] = "runtime"]
          /\ bundle' = bundle /\ UNCHANGED <<runVars, file, data, edited>>
      BY <1>1 DEF CreateFile, XEnd
    <2>2. PICK b \in Bundles : b = bundle[e] /\ bundle' = [bundle EXCEPT ![e] = b]
      BY <2>1 DEF ExportInv
    <2> QED BY <2>1, <2>2, ReaderKeeps
  <1>2. CASE file = "absent"
    <2>1. /\ file' = "partial" /\ xpc' = [xpc EXCEPT ![e] = "write"] /\ xend' = xend
          /\ bundle' = bundle /\ data' = data /\ edited' = edited
          /\ status' = status /\ result' = result /\ calls' = calls /\ waits' = waits
          /\ tools' = tools
      BY <1>2 DEF CreateFile, XGoto, runVars, logVars
    <2>2. \A f \in Exporter : xpc[f] # "write"
      BY <1>2 DEF ExportInv, Reading
    <2>3. /\ xpc' \in [Exporter -> {"idle", "calls", "waits", "create", "write", "done"}]
          /\ xpc'[e] = "write" /\ \A f \in Exporter : f # e => xpc'[f] = xpc[f]
      BY <2>1 DEF ExportInv
    <2>4. ASSUME NEW f \in Exporter PROVE Reading(f)'
      <3>1. Reading(f)
        BY DEF ExportInv
      <3>2. CASE f = e
        BY <1>0, <2>1, <2>3, <3>2 DEF Reading, Valued
      <3>3. CASE f # e
        BY <2>1, <2>2, <2>3, <3>1, <3>3 DEF Reading, Valued
      <3> QED BY <3>2, <3>3
    <2>5. ~OnFile'
      BY <2>1 DEF OnFile
    <2> QED BY <2>1, <2>2, <2>3, <2>4, <2>5 DEF ExportInv
  <1> QED BY <1>1, <1>2

\* The writer writes the run's rows, or removes its file.
LEMMA WriteKeepsExport ==
    ASSUME LogInv, ExportInv, NEW e \in Exporter, WriteFile(e)
    PROVE  ExportInv'
  <1>0. Reading(e) /\ xpc[e] = "write" /\ bundle[e] \in Bundles
    BY DEF ExportInv, WriteFile
  <1>1. \A f \in Exporter : f # e => xpc[f] # "write"
    BY <1>0 DEF ExportInv
  <1>2. /\ bundle' = bundle /\ edited' = edited
        /\ status' = status /\ result' = result /\ calls' = calls /\ waits' = waits
        /\ tools' = tools
    BY DEF WriteFile, runVars, logVars
  <1>3. PICK c \in {"ok", "bundle", "runtime"} :
            /\ xpc' = [xpc EXCEPT ![e] = "done"] /\ xend' = [xend EXCEPT ![e] = c]
            /\ c = "bundle" => Oversized(bundle[e])
    BY DEF WriteFile, XEnd
  <1>4. /\ xpc' \in [Exporter -> {"idle", "calls", "waits", "create", "write", "done"}]
        /\ xend' \in [Exporter -> {"none", "ok", "bundle", "runtime"}]
        /\ xpc'[e] = "done" /\ xend'[e] = c
        /\ \A f \in Exporter : f # e => xpc'[f] = xpc[f] /\ xend'[f] = xend[f]
    BY <1>3 DEF ExportInv
  <1>5. ASSUME NEW f \in Exporter PROVE Reading(f)' /\ xpc'[f] # "write"
    <2>1. Reading(f)
      BY DEF ExportInv
    <2>2. CASE f = e
      BY <1>2, <1>3, <1>4, <2>2 DEF Reading, Valued
    <2>3. CASE f # e
      BY <1>1, <1>2, <1>4, <2>1, <2>3 DEF Reading, Valued
    <2> QED BY <2>2, <2>3
  <1>6. CASE file' = "written" /\ data' = bundle[e] /\ ~Oversized(bundle[e])
    <2>1. /\ status \in Ended /\ tools = "current" /\ data'.tools = tools /\ Valued(calls)
          /\ data'.status = status /\ data'.result = result
          /\ data'.calls = calls /\ data'.waits = waits /\ data' \in Bundles
      BY <1>0, <1>6 DEF Reading, Valued
    <2>2. \A i \in 1 .. Len(calls) : calls[i].outcome \in Outcome
      BY <2>1 DEF LogInv, Faithful, Completed
    <2> QED BY <1>2, <1>4, <1>5, <1>6, <2>1, <2>2 DEF ExportInv, OnFile, Valued
  <1>7. CASE file' = "absent" /\ data' = data
    <2>1. ~OnFile'
      BY <1>7 DEF OnFile
    <2> QED BY <1>2, <1>4, <1>5, <1>7, <2>1 DEF ExportInv
  <1> QED BY <1>6, <1>7 DEF WriteFile

\* An edit leaves a bundle that still reads as one.
LEMMA EditType ==
    ASSUME NEW b \in Bundles, \A i \in 1 .. Len(b.calls) : b.calls[i].outcome \in Outcome,
           NEW d \in EditsOf(b)
    PROVE  d \in Bundles /\ \A i \in 1 .. Len(d.calls) : d.calls[i].outcome \in Outcome
  <1>1. /\ b.status \in Statuses /\ b.result \in Seq(Outcome) /\ b.calls \in Rows
        /\ b.waits \in [Sequence -> Wait] /\ b.tools \in Tools
    BY BundlesType
  <1> DEFINE c0 == b.calls
             n  == Len(c0)
  <1>2. /\ c0 \in Seq(Row) /\ n \in Nat /\ n <= MaxToolCalls /\ MaxToolCalls \in Nat
        /\ \A i \in 1 .. n : c0[i] \in Row /\ c0[i].outcome \in Outcome
    BY <1>1, RowsType, LogAssumption
  <1>3. ASSUME NEW c \in Seq(Row), Len(c) <= n, \A i \in 1 .. Len(c) : c[i].outcome \in Outcome,
               d = Bundle(b.status, b.result, b.tools, c, b.waits)
        PROVE  d \in Bundles /\ \A i \in 1 .. Len(d.calls) : d.calls[i].outcome \in Outcome
    <2>1. c \in Rows
      <3>1. Len(c) \in Nat
        BY <1>3
      <3> QED BY <3>1, <1>2, <1>3 DEF Rows
    <2>2. d.calls = c /\ d \in Bundles
      BY <2>1, <1>1, <1>3, BundleFields
    <2> QED BY <2>2, <1>3
  <1>4. ASSUME NEW i \in 1 .. n, NEW x \in Row, x.outcome \in Outcome,
               d = Bundle(b.status, b.result, b.tools, [c0 EXCEPT ![i] = x], b.waits)
        PROVE  d \in Bundles /\ \A k \in 1 .. Len(d.calls) : d.calls[k].outcome \in Outcome
    <2>1. PICK c : c = [c0 EXCEPT ![i] = x]
      OBVIOUS
    <2>2. c \in Seq(Row) /\ Len(c) = n /\ \A k \in 1 .. n : c[k] = IF k = i THEN x ELSE c0[k]
      BY <2>1, <1>2, <1>4
    <2>3. \A k \in 1 .. n : c[k].outcome \in Outcome
      BY <2>2, <1>2, <1>4
    <2>4. Len(c) <= n /\ \A k \in 1 .. Len(c) : c[k].outcome \in Outcome
      BY <2>2, <2>3, <1>2
    <2>5. d = Bundle(b.status, b.result, b.tools, c, b.waits)
      BY <2>1, <1>4
    <2> QED BY <2>2, <2>4, <2>5, <1>3
  <1>5. CASE \E i \in 1 .. n, r \in Request :
               d = Bundle(b.status, b.result, b.tools, [c0 EXCEPT ![i] = CallRow(r, @.state, @.outcome)], b.waits)
    <2>1. PICK i \in 1 .. n, r \in Request :
              d = Bundle(b.status, b.result, b.tools, [c0 EXCEPT ![i] = CallRow(r, @.state, @.outcome)], b.waits)
      BY <1>5
    <2>2. PICK x : x = CallRow(r, c0[i].state, c0[i].outcome)
      OBVIOUS
    <2>3. x \in Row /\ x.outcome \in Outcome
      BY <1>2, <2>2 DEF Row, CallRow
    <2>4. [c0 EXCEPT ![i] = CallRow(r, @.state, @.outcome)] = [c0 EXCEPT ![i] = x]
      BY <2>2
    <2> QED BY <2>1, <2>3, <2>4, <1>4
  <1>6. CASE \E i \in 1 .. n, o \in Outcome \ {"budget"} :
               d = Bundle(b.status, b.result, b.tools, [c0 EXCEPT ![i] = CallRow(@.request, @.state, o)], b.waits)
    <2>1. PICK i \in 1 .. n, o \in Outcome \ {"budget"} :
              d = Bundle(b.status, b.result, b.tools, [c0 EXCEPT ![i] = CallRow(@.request, @.state, o)], b.waits)
      BY <1>6
    <2>2. PICK x : x = CallRow(c0[i].request, c0[i].state, o)
      OBVIOUS
    <2>3. x \in Row /\ x.outcome \in Outcome
      BY <1>2, <2>2 DEF Row, CallRow
    <2>4. [c0 EXCEPT ![i] = CallRow(@.request, @.state, o)] = [c0 EXCEPT ![i] = x]
      BY <2>2
    <2> QED BY <2>1, <2>3, <2>4, <1>4
  <1>7. CASE n # 0 /\ d = Bundle(b.status, b.result, b.tools, SubSeq(c0, 1, n - 1), b.waits)
    <2>1. PICK c : c = SubSeq(c0, 1, n - 1)
      OBVIOUS
    <2>2. n - 1 \in 0 .. n
      BY <1>2, <1>7
    <2>3. c \in Seq(Row) /\ Len(c) = n - 1 /\ \A k \in 1 .. n - 1 : c[k] = c0[k]
      BY <2>1, <2>2, <1>2, <1>7, SubSeqProperties
    <2>4. \A k \in 1 .. n - 1 : c[k].outcome \in Outcome
      BY <2>3, <1>2, SMTT(60)
    <2>5. Len(c) <= n /\ \A k \in 1 .. Len(c) : c[k].outcome \in Outcome
      BY <2>3, <2>4, <1>2
    <2> QED BY <2>1, <2>3, <2>5, <1>3, <1>7
  <1>8. CASE \E s \in Ended, t \in {b.tools, "old"} : d = Bundle(s, b.result, t, c0, b.waits)
    <2>1. PICK s \in Ended, t \in {b.tools, "old"} : d = Bundle(s, b.result, t, c0, b.waits)
      BY <1>8
    <2>2. s \in Statuses /\ t \in Tools
      BY <1>1 DEF Ended, Statuses, Tools
    <2>3. d.calls = c0 /\ d \in Bundles
      BY <2>1, <2>2, <1>1, BundleFields
    <2> QED BY <2>3, <1>2
  <1>9. CASE d \in EditedRequest(b)
    <2>1. PICK i \in 1 .. Len(b.calls), r \in Request :
              d = WithCalls(b, [b.calls EXCEPT ![i] = CallRow(r, @.state, @.outcome)])
      BY <1>9 DEF EditedRequest
    <2> QED BY <2>1, <1>5 DEF WithCalls
  <1>10. CASE d \in EditedOutcome(b)
    <2>1. PICK i \in 1 .. Len(b.calls), o \in Outcome \ {"budget"} :
              d = WithCalls(b, [b.calls EXCEPT ![i] = CallRow(@.request, @.state, o)])
      BY <1>10 DEF EditedOutcome
    <2> QED BY <2>1, <1>6 DEF WithCalls
  <1>11. CASE d \in CutShort(b)
    BY <1>7, <1>11 DEF CutShort, WithCalls
  <1>12. CASE d \in EditedRun(b)
    <2>1. PICK s \in Ended, t \in {b.tools, "old"} : d = Bundle(s, b.result, t, b.calls, b.waits)
      BY <1>12 DEF EditedRun
    <2> QED BY <2>1, <1>8
  <1> QED BY <1>9, <1>10, <1>11, <1>12 DEF EditsOf

LEMMA EditKeepsExport ==
    ASSUME LogInv, ExportInv, Edit
    PROVE  ExportInv'
  <1>1. /\ OnFile /\ data' \in EditsOf(data) /\ edited' = TRUE
        /\ UNCHANGED <<status, result, calls, waits, tools, xpc, bundle, xend, file>>
    BY DEF Edit, runVars, logVars
  <1>2. data' \in Bundles /\ \A i \in 1 .. Len(data'.calls) : data'.calls[i].outcome \in Outcome
    <2>1. PICK d \in EditsOf(data) : d = data'
      BY <1>1
    <2>2. data \in Bundles /\ \A i \in 1 .. Len(data.calls) : data.calls[i].outcome \in Outcome
      BY <1>1 DEF ExportInv
    <2> QED BY <2>1, <2>2, EditType
  <1>3. ASSUME NEW e \in Exporter PROVE Reading(e)'
    <2>1. Reading(e)
      BY DEF ExportInv
    <2> QED BY <1>1, <2>1 DEF Reading, Valued
  <1> QED BY <1>1, <1>2, <1>3 DEF ExportInv

\* Steps of the other parts.
LEMMA ExportUntouched ==
    ASSUME LogInv, ExportInv, UNCHANGED <<runVars, exportVars>>
    PROVE  LogInv' /\ ExportInv'
  <1>1. UNCHANGED <<status, result, calls, waits, tools, xpc, bundle, xend, file, data, edited>>
    BY DEF runVars, logVars, exportVars
  <1>2. LogInv'
    BY <1>1 DEF LogInv, Completed, Follows
  <1>3. ASSUME NEW e \in Exporter PROVE Reading(e)'
    <2>1. Reading(e)
      BY DEF ExportInv
    <2> QED BY <1>1, <2>1 DEF Reading, Valued
  <1> QED BY <1>1, <1>2, <1>3 DEF ExportInv, OnFile, Valued

LEMMA ExportPart ==
    ASSUME LogInv, ExportInv, [Next]_vars
    PROVE  LogInv' /\ ExportInv'
  <1>1. CASE RunGoesOn
    BY <1>1, RunStep, RunKeepsExport
  <1>2. ASSUME UNCHANGED runVars PROVE LogInv'
    BY <1>2 DEF runVars, logVars, LogInv, Completed, Follows
  <1>3. ASSUME NEW e \in Exporter, Export(e) PROVE LogInv' /\ ExportInv'
    <2>1. UNCHANGED runVars
      BY <1>3 DEF Export, ReadRun, ReadCalls, ReadWaits, CreateFile, WriteFile, ExportDies
    <2>2. ExportInv'
      BY <1>3, ReadKeepsExport, CreateKeepsExport, WriteKeepsExport DEF Export
    <2> QED BY <1>2, <2>1, <2>2
  <1>4. CASE Edit
    BY <1>2, <1>4, EditKeepsExport DEF Edit
  <1>5. CASE Replay
    BY <1>5, ExportUntouched DEF Replay, ReplayStarts, ReplayFails, ReplayCalls, ReplayEnds
  <1>6. CASE \E limit \in 0 .. MaxPage + 1 : ReadPage(limit)
    BY <1>6, ExportUntouched DEF ReadPage
  <1>7. CASE UNCHANGED vars
    BY <1>7, ExportUntouched DEF vars
  <1> QED BY <1>1, <1>3, <1>4, <1>5, <1>6, <1>7 DEF Next

LEMMA EmptyBundle == NoBundle \in Bundles /\ NoBundle.status = "absent" /\ NoBundle.calls = <<>>
  <1>1. <<>> \in Seq(Row) /\ Len(<<>>) = 0 /\ <<>> \in Seq(Outcome)
    OBVIOUS
  <1>2. <<>> \in Rows
    BY <1>1, LogAssumption DEF Rows
  <1>3. [i \in Sequence |-> "none"] \in [Sequence -> Wait] /\ "absent" \in Statuses /\ "old" \in Tools
    BY DEF Wait, Statuses, Tools
  <1>4. PICK e, w : e = <<>> /\ w = [i \in Sequence |-> "none"]
    OBVIOUS
  <1>5. NoBundle = Bundle("absent", e, "old", e, w)
    BY <1>4 DEF NoBundle
  <1>6. e \in Seq(Outcome) /\ e \in Rows /\ w \in [Sequence -> Wait]
    BY <1>1, <1>2, <1>3, <1>4
  <1>7. NoBundle \in Bundles /\ NoBundle.status = "absent" /\ NoBundle.calls = e
    BY <1>3, <1>5, <1>6, BundleFields
  <1> QED BY <1>4, <1>7

LEMMA ExportInitial == Init => LogInv /\ ExportInv
  <1> SUFFICES ASSUME Init PROVE LogInv /\ ExportInv
    OBVIOUS
  <1>1. LogInv
    BY LogInitial DEF Init
  <1>2. /\ xpc = [e \in Exporter |-> "idle"] /\ xend = [e \in Exporter |-> "none"]
        /\ bundle = [e \in Exporter |-> NoBundle] /\ file = "absent" /\ data = NoBundle
        /\ edited = FALSE /\ tools \in Tools
    BY DEF Init, Tools
  <1>3. \A e \in Exporter : Reading(e)
    BY <1>2, EmptyBundle DEF Reading, Ended
  <1>4. ~OnFile
    BY <1>2 DEF OnFile
  <1> QED BY <1>1, <1>2, <1>3, <1>4, EmptyBundle DEF ExportInv

\* What Export writes is the run: three unlocked reads of a run that goes on, and
\* still the file holds its last state, which ReadBundle accepts, one exporter wrote
\* it, and an ended run is refused only for old tool declarations, for its size or
\* for an outcome without a value, and for nothing that happened between the reads.
THEOREM ExportFileIsRun == Spec => []FileIsRun
  <1>1. ASSUME LogInv, ExportInv, OnFile, ~edited
        PROVE  data = Bundle(status, result, tools, calls, waits) /\ ValidBundle(data)
    <2>1. /\ status \in Ended /\ tools = "current" /\ data.tools = tools /\ Valued(calls)
          /\ data.status = status /\ data.result = result /\ data.calls = calls
          /\ data.waits = waits /\ data \in Bundles
      BY <1>1 DEF ExportInv
    <2>2. \A i \in 1 .. Len(calls) : calls[i].state = "completed"
      BY <1>1, <2>1 DEF LogInv, Faithful
    <2>3. ValidBundle(data)
      BY <1>1, <2>1, <2>2 DEF ValidBundle, ValidCall, Valued, LogInv
    <2> QED BY <2>1, <2>3, BundlesType
  <1>2. LogInv /\ ExportInv => FileIsRun
    <2> SUFFICES ASSUME LogInv, ExportInv PROVE FileIsRun
      OBVIOUS
    <2>1. OnFile /\ ~edited => ~Oversized(data)
      BY DEF ExportInv
    <2> QED BY <1>1, <2>1 DEF ExportInv, Reading, FileIsRun, OnFile
  <1> QED BY <1>2, ExportInitial, ExportPart, PTL DEF Spec

-----------------------------------------------------------------------------
(* Paged history. *)

LEMMA PageReads ==
    ASSUME LogInv, PageInv, PagesComplete, NEW limit \in 0 .. MaxPage + 1, ReadPage(limit)
    PROVE  PageInv' /\ PagesComplete'
  <1> DEFINE Page == [sequence : Nat, class : {"final", "pending"}]
             n == Len(calls)
  <1>1. n \in Nat /\ from \in Nat /\ pages \in Seq(Page) /\ Len(pages) \in Nat
        /\ from = Len(pages) + 1 /\ from <= n /\ calls' = calls
    BY RowsType DEF LogInv, PageInv, PagesComplete, ReadPage, runVars, logVars
  <1>2. PICK size \in Nat \ {0} : size = PageSize(limit)
    BY ExportAssumption DEF PageSize
  <1>3. PICK last \in Nat : last = IF n - from >= size THEN from + size - 1 ELSE n
    BY <1>1, <1>2
  <1>4. last >= from /\ last <= n
    BY <1>1, <1>2, <1>3
  <1> DEFINE row(i) == [sequence |-> from + i - 1, class |-> Class(calls[from + i - 1])]
  <1>5. PICK g : g = [i \in 1 .. (last + 1 - from) |-> row(i)]
    OBVIOUS
  <1>6. pages' = pages \o g /\ from' = last + 1
    BY <1>2, <1>3, <1>5 DEF ReadPage, NextFrom
  <1>7. \A i \in 1 .. (last + 1 - from) : row(i) \in Page
    BY <1>1, <1>4 DEF Class
  <1>8. g \in Seq(Page) /\ Len(g) = last + 1 - from
    BY <1>1, <1>4, <1>5, <1>7
  <1>9. /\ pages' \in Seq(Page) /\ Len(pages') = Len(pages) + Len(g)
        /\ \A i \in 1 .. Len(pages) + Len(g) :
               pages'[i] = IF i <= Len(pages) THEN pages[i] ELSE g[i - Len(pages)]
    BY <1>1, <1>6, <1>8, ConcatProperties
  <1>10. Len(pages') = last /\ Len(pages) + Len(g) = last
    BY <1>1, <1>4, <1>8, <1>9
  <1>11. ASSUME NEW i \in 1 .. last
         PROVE  pages'[i].sequence = i /\ (pages'[i].class = "final" => Completed(i)')
    <2>1. CASE i <= Len(pages)
      <3>1. pages'[i] = pages[i]
        BY <1>9, <1>10, <2>1
      <3> QED BY <3>1, <2>1, <1>1 DEF PagesComplete, Completed
    <2>2. CASE ~(i <= Len(pages))
      <3>1. /\ i - Len(pages) \in 1 .. (last + 1 - from) /\ pages'[i] = g[i - Len(pages)]
            /\ from + (i - Len(pages)) - 1 = i
        BY <1>1, <1>4, <1>8, <1>9, <2>2, SMTT(60)
      <3>2. pages'[i] = [sequence |-> i, class |-> Class(calls[i])]
        BY <3>1, <1>5
      <3> QED BY <3>2, <1>1 DEF Class, Completed
    <2> QED BY <2>1, <2>2
  <1>12. PageInv'
    BY <1>6, <1>9 DEF PageInv
  <1>13. PagesComplete'
    <2>1. from' = Len(pages') + 1 /\ Len(pages') <= Len(calls')
      BY <1>1, <1>4, <1>6, <1>10
    <2> QED BY <2>1, <1>10, <1>11 DEF PagesComplete
  <1> QED BY <1>12, <1>13

LEMMA PagePart ==
    ASSUME LogInv, PageInv, PagesComplete, [Next]_vars
    PROVE  PageInv' /\ PagesComplete'
  <1>1. Len(calls) \in Nat /\ pages \in Seq([sequence : Nat, class : {"final", "pending"}])
        /\ Len(pages) \in Nat /\ from \in Nat
    BY RowsType DEF LogInv, PageInv
  <1>2. CASE RunGoesOn
    <2>1. UNCHANGED <<from, pages>>
      BY <1>2 DEF RunGoesOn, pageVars
    <2>2. /\ LogInv' /\ Len(calls') >= Len(calls)
          /\ \A i \in 1 .. Len(calls) : Completed(i) => Completed(i)'
      BY <1>2, RunStep
    <2>3. Len(calls') \in Nat
      BY <2>2, RowsType DEF LogInv
    <2>4. Len(pages) <= Len(calls)' /\ \A i \in 1 .. Len(pages) : i \in 1 .. Len(calls)
      BY <1>1, <2>2, <2>3 DEF PagesComplete
    <2> QED BY <1>1, <2>1, <2>2, <2>4 DEF PageInv, PagesComplete
  <1>3. ASSUME UNCHANGED <<runVars, pageVars>> PROVE PageInv' /\ PagesComplete'
    BY <1>3 DEF runVars, logVars, pageVars, PageInv, PagesComplete, Completed
  <1>4. CASE \E e \in Exporter : Export(e)
    BY <1>3, <1>4 DEF Export, ReadRun, ReadCalls, ReadWaits, CreateFile, WriteFile, ExportDies
  <1>5. CASE Edit
    BY <1>3, <1>5 DEF Edit
  <1>6. CASE Replay
    BY <1>3, <1>6 DEF Replay, ReplayStarts, ReplayFails, ReplayCalls, ReplayEnds
  <1>7. CASE \E limit \in 0 .. MaxPage + 1 : ReadPage(limit)
    BY <1>7, PageReads
  <1>8. CASE UNCHANGED vars
    BY <1>3, <1>8 DEF vars
  <1> QED BY <1>2, <1>4, <1>5, <1>6, <1>7, <1>8 DEF Next

\* Pages read at different times are the history: every call once and in order,
\* and an outcome shown as final stays the call's outcome.
THEOREM ReplayPagesComplete == Spec => []PagesComplete
  <1>1. Init => PageInv /\ PagesComplete
    <2> SUFFICES ASSUME Init PROVE PageInv /\ PagesComplete
      OBVIOUS
    <2>1. from = 1 /\ pages = <<>> /\ Len(pages) = 0 /\ calls = <<>> /\ Len(calls) = 0
      BY DEF Init, LogInit
    <2>2. pages \in Seq([sequence : Nat, class : {"final", "pending"}])
      BY <2>1
    <2> QED BY <2>1, <2>2 DEF PageInv, PagesComplete
  <1> QED BY <1>1, ExportInitial, ExportPart, PagePart, PTL DEF Spec

-----------------------------------------------------------------------------
(* Offline replay. *)

\* The program does one thing after what it has seen.
LEMMA OneAnswer ==
    ASSUME NEW h \in Seq(Outcome), Len(h) <= 2 * MaxToolCalls,
           NEW a \in Program(h), NEW b \in Program(h)
    PROVE  a = b
  <1>1. Len(h) \in 0 .. 2 * MaxToolCalls
    BY LogAssumption
  <1>2. h \in [1 .. Len(h) -> Outcome]
    OBVIOUS
  <1> QED BY <1>1, <1>2, ReplayAssumption

LEMMA NoRequestEnds == \A s : EndOf(s) \notin Request
  BY ReplayAssumption DEF EndOf

LEMMA ExplainedIsFollowed ==
    ASSUME NEW b, NEW i
    PROVE  Explained(b, i) <=> b.calls[i].request \in Program(Past(b.calls, i))
  BY DEF Explained, Past

\* A replayed Guest that has not been refused has seen the outcomes of the calls
\* before the next one.
LEMMA SeenIsPast ==
    ASSUME GuestInv, rpc = "guest", Len(seen) = index
    PROVE  /\ index \in Nat /\ Past(replay.calls, index + 1) = seen
           /\ Len(seen) <= 2 * MaxToolCalls
  <1>1. /\ index \in Nat /\ index <= Len(replay.calls) /\ seen \in Seq(Outcome)
        /\ \A i \in 1 .. index : seen[i] = replay.calls[i].outcome
    BY DEF GuestInv
  <1>2. Len(replay.calls) \in Nat /\ Len(replay.calls) <= MaxToolCalls /\ MaxToolCalls \in Nat
    BY RowsType, BundlesType, LogAssumption DEF GuestInv
  <1>3. seen = [i \in 1 .. index |-> seen[i]]
    BY <1>1
  <1>4. (index + 1) - 1 = index
    BY <1>1
  <1>5. Past(replay.calls, index + 1) = [i \in 1 .. index |-> replay.calls[i].outcome]
    BY <1>4 DEF Past
  <1>6. [i \in 1 .. index |-> replay.calls[i].outcome] = [i \in 1 .. index |-> seen[i]]
    BY <1>1
  <1> QED BY <1>1, <1>2, <1>3, <1>5, <1>6

\* The Guest of an intact export does what the recorded run did: the next call of
\* the bundle, then refused calls, then the recorded end.
LEMMA IntactGuest ==
    ASSUME GuestInv, rpc = "guest", ~edited, NEW a \in Program(seen)
    PROVE  /\ index < Len(replay.calls) => a = replay.calls[index + 1].request /\ a \in Request
           /\ index = Len(replay.calls) /\ Len(seen) # Len(replay.result) =>
                  /\ a \in Request /\ index = MaxToolCalls
                  /\ Len(seen) + 1 <= Len(replay.result) /\ replay.result[Len(seen) + 1] = "budget"
           /\ index = Len(replay.calls) /\ Len(seen) = Len(replay.result) =>
                  /\ seen = replay.result /\ a = EndOf(replay.status) /\ a \notin Request
  <1> DEFINE n == Len(replay.calls)
             m == Len(seen)
             res == replay.result
  <1>1. /\ n \in Nat /\ n <= MaxToolCalls /\ MaxToolCalls \in Nat
        /\ \A i \in 1 .. n : replay.calls[i] \in Row
    BY RowsType, BundlesType, LogAssumption DEF GuestInv
  <1>2. /\ index \in Nat /\ index <= n /\ seen \in Seq(Outcome) /\ index <= m /\ m \in Nat
        /\ index < m => index = MaxToolCalls
        /\ Faithful(replay.status, res, replay.calls) /\ Follows(replay.calls)
        /\ m <= Len(res) /\ \A i \in 1 .. m : seen[i] = res[i]
    BY DEF GuestInv
  <1>3. /\ res \in Seq(Outcome) /\ Len(res) \in Nat /\ n <= Len(res) /\ Len(res) <= 2 * MaxToolCalls
        /\ \A i \in n + 1 .. Len(res) :
              /\ n = MaxToolCalls /\ res[i] = "budget"
              /\ \E q \in Request : q \in Program(SubSeq(res, 1, i - 1))
        /\ EndOf(replay.status) \in Program(res)
    BY <1>2 DEF Faithful
  <1>4. m <= 2 * MaxToolCalls
    BY <1>1, <1>2, <1>3
  <1>5. CASE index < n
    <2>1. m = index
      BY <1>1, <1>2, <1>5
    <2>2. Past(replay.calls, index + 1) = seen
      BY <2>1, SeenIsPast
    <2>3. index + 1 \in 1 .. n
      BY <1>1, <1>2, <1>5
    <2>4. replay.calls[index + 1].request \in Program(seen) /\ replay.calls[index + 1] \in Row
      BY <1>1, <1>2, <2>2, <2>3 DEF Follows
    <2>5. a = replay.calls[index + 1].request
      BY <1>2, <1>4, <2>4, OneAnswer
    <2>6. a \in Request
      BY <2>4, <2>5 DEF Row
    <2> QED BY <1>5, <1>2, <1>1, <2>5, <2>6
  <1>6. CASE index = n /\ m # Len(res)
    <2>1. m + 1 \in n + 1 .. Len(res) /\ m + 1 <= Len(res)
      BY <1>1, <1>2, <1>3, <1>6
    <2>2. /\ n = MaxToolCalls /\ res[m + 1] = "budget"
          /\ \E q \in Request : q \in Program(SubSeq(res, 1, (m + 1) - 1))
      BY <2>1, <1>3
    <2>3. (m + 1) - 1 = m
      BY <1>2
    <2>4. SubSeq(res, 1, m) = seen
      <3>1. m \in 0 .. Len(res)
        BY <1>2, <1>3
      <3>2. /\ SubSeq(res, 1, m) \in Seq(Outcome) /\ Len(SubSeq(res, 1, m)) = m
            /\ \A i \in 1 .. m : SubSeq(res, 1, m)[i] = res[i]
        BY <3>1, <1>3, SubSeqProperties
      <3> QED BY <3>2, <1>2, SeqEqual
    <2>5. PICK q \in Request : q \in Program(seen)
      BY <2>2, <2>3, <2>4
    <2>6. a = q
      BY <1>2, <1>4, <2>5, OneAnswer
    <2> QED BY <1>6, <2>1, <2>2, <2>5, <2>6
  <1>7. CASE index = n /\ m = Len(res)
    <2>1. seen = res
      BY <1>2, <1>3, <1>7, SeqEqual
    <2>2. a = EndOf(replay.status)
      BY <1>2, <1>3, <1>4, <2>1, OneAnswer
    <2> QED BY <1>7, <2>1, <2>2, NoRequestEnds
  <1> QED BY <1>1, <1>2, <1>5, <1>6, <1>7

\* A replay that claims nothing about the calls or the result is right.
LEMMA ClaimsNothing ==
    verdict.category \in {"none", "artifact", "bundle", "runtime"} => VerdictRight
  BY DEF VerdictRight

\* Steps of the other parts: an edit only takes the claim of intactness away.
LEMMA ReplayUntouched ==
    ASSUME GuestInv, VerdictRight, UNCHANGED replayVars, edited' = edited \/ edited' = TRUE
    PROVE  GuestInv' /\ VerdictRight'
  <1>1. /\ UNCHANGED <<rpc, replay, index, seen, verdict>>
        /\ ~edited' => ~edited
    BY DEF replayVars
  <1>2. GuestInv'
    BY <1>1 DEF GuestInv, Explained
  <1>3. VerdictRight'
    BY <1>1 DEF VerdictRight, Explained
  <1> QED BY <1>2, <1>3

\* ReadBundle and the fresh Guest: the bundle is the run's unless edited.
LEMMA StartKeepsReplay ==
    ASSUME LogInv, ExportInv, GuestInv, ReplayStarts
    PROVE  GuestInv' /\ VerdictRight'
  <1>1. /\ rpc = "idle" /\ verdict.category = "none" /\ index = 0 /\ seen = <<>>
        /\ index' = index /\ seen' = seen /\ edited' = edited /\ replay \in Bundles
    BY DEF ReplayStarts, GuestInv, exportVars
  <1>2. CASE rpc' = "done"
    <2>1. verdict'.category \in {"artifact", "bundle", "runtime"}
      BY <1>1, <1>2 DEF ReplayStarts, REnd
    <2>2. replay' \in Bundles
      BY <1>1 DEF ReplayStarts, ExportInv
    <2>3. VerdictRight'
      BY <2>1, ClaimsNothing DEF VerdictRight
    <2> QED BY <1>2, <2>2, <2>3 DEF GuestInv
  <1>3. CASE rpc' # "done"
    <2>1. rpc' = "guest" /\ verdict' = verdict /\ replay' = data /\ OnFile
      BY <1>3 DEF ReplayStarts, REnd
    <2>2. data \in Bundles /\ \A i \in 1 .. Len(data.calls) : data.calls[i].outcome \in Outcome
      BY <2>1 DEF ExportInv
    <2>3. ~edited => /\ Faithful(data.status, data.result, data.calls) /\ Follows(data.calls)
                     /\ Len(seen) <= Len(data.result)
      <3>1. Len(data.result) \in Nat /\ Len(seen) = 0
        BY <1>1, <2>2, BundlesType
      <3> QED BY <2>1, <3>1 DEF ExportInv, LogInv
    <2>4. seen' \in Seq(Outcome) /\ Len(seen') = 0 /\ Len(data.calls) \in Nat
      BY <1>1, <2>2, BundlesType, RowsType
    <2>5. VerdictRight'
      BY <1>1, <2>1, ClaimsNothing DEF VerdictRight
    <2>6. GuestInv'
      BY <1>1, <2>1, <2>2, <2>3, <2>4 DEF GuestInv
    <2> QED BY <2>5, <2>6
  <1> QED BY <1>2, <1>3

\* The Guest of the replay calls a tool.
LEMMA CallKeepsReplay ==
    ASSUME GuestInv, NEW r \in Request, ReplayCalls(r)
    PROVE  GuestInv' /\ VerdictRight'
  <1> DEFINE n == Len(replay.calls)
             m == Len(seen)
  <1>1. /\ rpc = "guest" /\ r \in Program(seen) /\ replay' = replay /\ edited' = edited
    BY DEF ReplayCalls, exportVars
  <1>2. /\ n \in Nat /\ n <= MaxToolCalls /\ MaxToolCalls \in Nat /\ replay \in Bundles
        /\ \A i \in 1 .. n : replay.calls[i] \in Row /\ replay.calls[i].outcome \in Outcome
    BY <1>1, RowsType, BundlesType, LogAssumption DEF GuestInv
  <1>3. /\ verdict.category = "none"
        /\ index \in Nat /\ index <= n /\ seen \in Seq(Outcome) /\ index <= m /\ m \in Nat
        /\ index < m => index = MaxToolCalls
        /\ \A i \in 1 .. index : Explained(replay, i) /\ seen[i] = replay.calls[i].outcome
        /\ ~edited => /\ Faithful(replay.status, replay.result, replay.calls)
                      /\ Follows(replay.calls) /\ m <= Len(replay.result)
                      /\ \A i \in 1 .. m : seen[i] = replay.result[i]
    BY <1>1 DEF GuestInv
  <1>n. ~edited => Len(replay.result) \in Nat
    BY <1>2, BundlesType
  <1>4. CASE m < MaxToolCalls /\ index >= n
    <2>1. m = index /\ index = n
      BY <1>2, <1>3, <1>4
    <2>2. rpc' = "done" /\ verdict'.category = "call" /\ verdict'.at = index
      BY <1>2, <1>3, <1>4 DEF ReplayCalls, Journalled, REnd
    <2>3. edited
      BY <1>1, <1>2, <1>4, <2>1, IntactGuest
    <2>4. VerdictRight'
      BY <1>1, <1>2, <1>3, <2>1, <2>2, <2>3 DEF VerdictRight
    <2> QED BY <1>1, <1>2, <2>2, <2>4 DEF GuestInv
  <1>5. CASE m < MaxToolCalls /\ index < n /\ replay.calls[index + 1].request # r
    <2>1. m = index
      BY <1>2, <1>3, <1>5
    <2>2. rpc' = "done" /\ verdict'.category = "call" /\ verdict'.at = index
      BY <1>2, <1>3, <1>5 DEF ReplayCalls, Journalled, REnd
    <2>3. edited
      BY <1>1, <1>5, IntactGuest
    <2>4. ~Explained(replay, index + 1)
      <3>1. Past(replay.calls, index + 1) = seen /\ m <= 2 * MaxToolCalls
        BY <1>1, <2>1, SeenIsPast
      <3>2. ~(replay.calls[index + 1].request \in Program(seen))
        BY <1>1, <1>3, <1>5, <3>1, OneAnswer
      <3> QED BY <3>1, <3>2, ExplainedIsFollowed
    <2>5. VerdictRight'
      BY <1>1, <1>2, <1>3, <2>2, <2>3, <2>4 DEF VerdictRight
    <2> QED BY <1>1, <1>2, <2>2, <2>5 DEF GuestInv
  <1>6. CASE m < MaxToolCalls /\ index < n /\ replay.calls[index + 1].request = r
    <2>1. m = index /\ index + 1 \in 1 .. n
      BY <1>2, <1>3, <1>6
    <2>2. PICK o \in Outcome : o = replay.calls[index + 1].outcome
      BY <1>2, <2>1
    <2>3. rpc' = rpc /\ verdict' = verdict /\ index' = index + 1 /\ seen' = Append(seen, o)
      BY <1>2, <1>3, <1>6, <2>2 DEF ReplayCalls, Journalled
    <2>4. /\ seen' \in Seq(Outcome) /\ Len(seen') = m + 1 /\ seen'[m + 1] = o
          /\ \A i \in 1 .. m : seen'[i] = seen[i]
      BY <1>3, <2>3, AppendProperties
    <2>5. Explained(replay, index + 1)
      <3>1. Past(replay.calls, index + 1) = seen
        BY <1>1, <2>1, SeenIsPast
      <3> QED BY <1>1, <1>6, <3>1, ExplainedIsFollowed
    <2>6. \A i \in 1 .. index + 1 : Explained(replay, i) /\ seen'[i] = replay.calls[i].outcome
      <3>1. \A i \in 1 .. index + 1 : i \in 1 .. index \/ i = index + 1
        BY <1>3
      <3> QED BY <1>3, <2>1, <2>2, <2>4, <2>5, <3>1
    <2>7. ~edited => m + 1 <= Len(replay.result) /\ \A i \in 1 .. m + 1 : seen'[i] = replay.result[i]
      <3> SUFFICES ASSUME ~edited
                   PROVE  m + 1 <= Len(replay.result) /\ \A i \in 1 .. m + 1 : seen'[i] = replay.result[i]
        OBVIOUS
      <3>1. n <= Len(replay.result) /\ replay.result[m + 1] = replay.calls[m + 1].outcome
        BY <1>3, <2>1 DEF Faithful
      <3>2. \A i \in 1 .. m + 1 : i \in 1 .. m \/ i = m + 1
        BY <1>3
      <3> QED BY <1>n, <1>2, <1>3, <2>1, <2>2, <2>4, <3>1, <3>2
    <2>8. VerdictRight'
      BY <1>3, <2>3, ClaimsNothing DEF VerdictRight
    <2>9. GuestInv'
      BY <1>1, <1>2, <1>3, <2>1, <2>3, <2>4, <2>6, <2>7 DEF GuestInv
    <2> QED BY <2>8, <2>9
  <1>7. CASE ~(m < MaxToolCalls)
    <2>1. index = MaxToolCalls /\ index = n
      BY <1>2, <1>3, <1>7
    <2>2. rpc' = rpc /\ verdict' = verdict /\ index' = index /\ seen' = Append(seen, "budget")
      BY <1>7 DEF ReplayCalls
    <2>3. "budget" \in Outcome
      BY LogAssumption
    <2>4. /\ seen' \in Seq(Outcome) /\ Len(seen') = m + 1 /\ seen'[m + 1] = "budget"
          /\ \A i \in 1 .. m : seen'[i] = seen[i]
      BY <1>3, <2>2, <2>3, AppendProperties
    <2>5. \A i \in 1 .. index : Explained(replay, i) /\ seen'[i] = replay.calls[i].outcome
      BY <1>3, <2>4
    <2>6. ~edited => m + 1 <= Len(replay.result) /\ \A i \in 1 .. m + 1 : seen'[i] = replay.result[i]
      <3> SUFFICES ASSUME ~edited
                   PROVE  m + 1 <= Len(replay.result) /\ \A i \in 1 .. m + 1 : seen'[i] = replay.result[i]
        OBVIOUS
      <3>1. m + 1 <= Len(replay.result) /\ replay.result[m + 1] = "budget"
        BY <1>1, <2>1, IntactGuest
      <3>2. \A i \in 1 .. m + 1 : i \in 1 .. m \/ i = m + 1
        BY <1>3
      <3> QED BY <1>3, <2>4, <3>1, <3>2
    <2>7. VerdictRight'
      BY <1>3, <2>2, ClaimsNothing DEF VerdictRight
    <2>8. GuestInv'
      BY <1>1, <1>2, <1>3, <2>1, <2>2, <2>4, <2>5, <2>6 DEF GuestInv
    <2> QED BY <2>7, <2>8
  <1> QED BY <1>2, <1>3, <1>4, <1>5, <1>6, <1>7

\* The program ends, or the Guest fails.
LEMMA EndKeepsReplay ==
    ASSUME GuestInv, NEW end \in {"return", "raise"}, ReplayEnds(end)
    PROVE  GuestInv' /\ VerdictRight'
  <1> DEFINE n == Len(replay.calls)
             m == Len(seen)
  <1>1. /\ rpc = "guest" /\ end \in Program(seen) /\ replay' = replay /\ edited' = edited
    BY DEF ReplayEnds, exportVars
  <1>2. /\ n \in Nat /\ n <= MaxToolCalls /\ MaxToolCalls \in Nat /\ replay \in Bundles
        /\ \A i \in 1 .. n : replay.calls[i] \in Row
    BY RowsType, BundlesType, LogAssumption DEF GuestInv
  <1>3. /\ index \in Nat /\ index <= n /\ seen \in Seq(Outcome) /\ index <= m /\ m \in Nat
        /\ index < m => index = MaxToolCalls
        /\ \A i \in 1 .. index : Explained(replay, i) /\ seen[i] = replay.calls[i].outcome
    BY <1>1 DEF GuestInv
  <1>4. end \notin Request
    BY ReplayAssumption
  <1>5. rpc' = "done"
    BY DEF ReplayEnds, REnd
  <1>6. GuestInv'
    BY <1>1, <1>2, <1>5 DEF GuestInv
  <1>7. CASE index # n
    <2>1. index < n /\ m = index /\ index + 1 \in 1 .. n
      BY <1>2, <1>3, <1>7
    <2>2. verdict'.category = "call" /\ verdict'.at = index
      BY <1>7 DEF ReplayEnds, REnd
    <2>3. edited
      BY <1>1, <1>4, <2>1, IntactGuest
    <2>4. ~Explained(replay, index + 1)
      <3>1. Past(replay.calls, index + 1) = seen /\ m <= 2 * MaxToolCalls
        BY <1>1, <2>1, SeenIsPast
      <3>2. replay.calls[index + 1].request \in Request
        BY <1>2, <2>1 DEF Row
      <3>3. ~(replay.calls[index + 1].request \in Program(seen))
        BY <1>1, <1>3, <1>4, <3>1, <3>2, OneAnswer
      <3> QED BY <3>1, <3>3, ExplainedIsFollowed
    <2>5. VerdictRight'
      BY <1>1, <1>2, <1>3, <2>2, <2>3, <2>4 DEF VerdictRight
    <2> QED BY <1>6, <2>5
  <1>8. CASE index = n /\ (seen # replay.result \/ end # EndOf(replay.status))
    <2>1. verdict'.category = "result"
      BY <1>8 DEF ReplayEnds, REnd, EndOf
    <2>2. edited
      BY <1>1, <1>4, <1>8, IntactGuest
    <2>3. VerdictRight'
      BY <1>1, <1>3, <1>8, <2>1, <2>2 DEF VerdictRight
    <2> QED BY <1>6, <2>3
  <1>9. CASE index = n /\ seen = replay.result /\ end = EndOf(replay.status)
    <2>1. verdict'.category = "ok"
      BY <1>9 DEF ReplayEnds, REnd, EndOf
    <2>2. VerdictRight'
      BY <1>1, <1>3, <1>9, <2>1 DEF VerdictRight, EndOf
    <2> QED BY <1>6, <2>2
  <1> QED BY <1>7, <1>8, <1>9

LEMMA ReplayPart ==
    ASSUME LogInv, ExportInv, GuestInv, VerdictRight, [Next]_vars
    PROVE  GuestInv' /\ VerdictRight'
  <1>1. CASE RunGoesOn
    BY <1>1, ReplayUntouched DEF RunGoesOn, exportVars
  <1>2. CASE \E e \in Exporter : Export(e)
    <2>1. UNCHANGED replayVars /\ edited' = edited
      BY <1>2 DEF Export, ReadRun, ReadCalls, ReadWaits, CreateFile, WriteFile, ExportDies
    <2> QED BY <2>1, ReplayUntouched
  <1>3. CASE Edit
    BY <1>3, ReplayUntouched DEF Edit
  <1>4. CASE ReplayStarts
    BY <1>4, StartKeepsReplay
  <1>5. CASE ReplayFails
    <2>1. /\ rpc' = "done" /\ verdict'.category = "runtime" /\ replay' = replay
      BY <1>5 DEF ReplayFails, REnd
    <2>2. VerdictRight'
      BY <2>1, ClaimsNothing DEF VerdictRight
    <2> QED BY <2>1, <2>2 DEF GuestInv
  <1>6. CASE \E r \in Request : ReplayCalls(r)
    BY <1>6, CallKeepsReplay
  <1>7. CASE \E end \in {"return", "raise"} : ReplayEnds(end)
    BY <1>7, EndKeepsReplay
  <1>8. CASE \E limit \in 0 .. MaxPage + 1 : ReadPage(limit)
    BY <1>8, ReplayUntouched DEF ReadPage, exportVars
  <1>9. CASE UNCHANGED vars
    BY <1>9, ReplayUntouched DEF vars, exportVars
  <1> QED BY <1>1, <1>2, <1>3, <1>4, <1>5, <1>6, <1>7, <1>8, <1>9 DEF Next, Replay

\* Replay's verdict is right about any bundle: "ok" only for a bundle of which the
\* program makes every call and ends with its result, a mismatch at the first call
\* that the program does not make, and no mismatch for an intact export.
THEOREM ReplayVerdictRight == Spec => []VerdictRight
  <1>1. Init => GuestInv /\ VerdictRight
    <2> SUFFICES ASSUME Init PROVE GuestInv /\ VerdictRight
      OBVIOUS
    <2>1. /\ rpc = "idle" /\ replay = NoBundle /\ index = 0 /\ seen = <<>>
          /\ verdict.category = "none"
      BY DEF Init
    <2>2. VerdictRight
      BY <2>1, ClaimsNothing
    <2> QED BY <2>1, <2>2, EmptyBundle DEF GuestInv
  <1> QED BY <1>1, ExportInitial, ExportPart, ReplayPart, PTL DEF Spec
===============================================================================
