--------------------------- MODULE DurableRunProofs ---------------------------
(***************************************************************************)
(* Proofs about DurableRun, for every set of processes, every program and  *)
(* every limit: its safety invariants, and that it implements DurableLog.  *)
(*                                                                         *)
(* The inductive invariant has two halves.  Rows is about the store and    *)
(* the world alone: only the last row is open, and what its wait, its      *)
(* effects and its outcome may be.  Attempt(p) says what a process that    *)
(* holds the lock knows of the rows: which of them its Guest has seen,     *)
(* that the journal is live only at the end of the completed rows, and     *)
(* what each stage of a live call has established.  A process without the  *)
(* lock is idle, knows nothing, and so no step of another disturbs it.     *)
(***************************************************************************)
EXTENDS DurableRun, SequenceTheorems, TLAPS

-----------------------------------------------------------------------------
(* The inductive invariant. *)

Status   == {"absent", "active", "waiting"} \cup Settled
Durable  == Outcome \ {"budget"}
Row      == [request : Request, state : {"pending", "waiting", "completed"},
             outcome : Durable \cup {"none"}]
Endings  == {"none", "completed", "failed", "infra", "parked", "mismatch", "blocked"}
Acts     == {r \in Request : Recovery[r] \in {"retry", "lookup", "manual"}}

StoreType ==
    /\ status \in Status
    /\ calls \in Seq(Row) /\ Len(calls) <= MaxToolCalls
    /\ waits \in [Sequence -> Durable \cup {"none", "open"}]
    /\ effects \in [Sequence -> 0..2]
    /\ applied \in [Sequence -> Answer \cup {"none"}]

ProcType ==
    /\ lock \in Proc \cup {NoProc}
    /\ pc \in [Proc -> ActivePC \cup {"idle", "opened"}]
    /\ read \in [Proc -> Status]
    /\ hist \in [Proc -> Seq(Outcome)]
    /\ window \in [Proc -> Seq(Row)]
    /\ request \in [Proc -> Request \cup {"none"}]
    /\ response \in [Proc -> Durable \cup {"none"}]
    /\ ended \in [Proc -> Endings]
    /\ report \in [Proc -> Status \cup {"none", "error", "parked"}]
    /\ live \subseteq Proc /\ ctxDone \subseteq Proc /\ closed \subseteq Proc

\* Only the last row is open; a wait belongs to a row of a wait, and an open
\* one, or a run that waits, to the last row while it is open.
Rows ==
    /\ status = "absent" => calls = <<>>
    /\ \A i \in 1..Len(calls) :
           /\ i < Len(calls) => Completed(i)
           /\ Completed(i) => calls[i].outcome # "none"
    /\ \A i \in Sequence : effects[i] > 0 => applied[i] \in Answer
    /\ \A i \in Sequence :
           waits[i] # "none" => i <= Len(calls) /\ Recovery[calls[i].request] = "wait"

\* The outcomes p's Guest has seen are those of completed rows, then refusals
\* of calls that the program made over the budget.
Seen(p) ==
    \A i \in 1..Len(hist[p]) :
        IF i <= MaxToolCalls
        THEN i <= Len(calls) /\ Completed(i) /\ hist[p][i] = calls[i].outcome
        ELSE /\ hist[p][i] = "budget"
             /\ \E r \in Request : r \in Program(SubSeq(hist[p], 1, i - 1))

\* The rows read ahead are the next completed rows; a live journal has no more
\* of them, in its window or in the store.
Ahead(p) ==
    /\ \A k \in 1..Len(window[p]) :
           /\ Len(hist[p]) + k <= Len(calls) /\ Completed(Len(hist[p]) + k)
           /\ window[p][k] = calls[Len(hist[p]) + k]
    /\ p \in live => /\ window[p] = <<>>
                     /\ \A i \in 1..Len(calls) : i > Len(hist[p]) => ~Completed(i)

\* The stages of a live call: it is one the program makes, and from BeginCall
\* on its row is the open one; before a dispatch that may not be repeated the
\* world has seen no effect of it, and a response is the one that may be stored.
Stage(p) ==
    /\ pc[p] \in JournalPC =>
           /\ p \in live /\ request[p] \in Request /\ request[p] \in Program(hist[p])
           /\ Len(hist[p]) < MaxToolCalls
    /\ pc[p] \in JournalPC \ {"begin"} =>
           /\ At(p) = Len(calls) /\ calls[At(p)].request = request[p]
    /\ pc[p] = "dispatch" => /\ request[p] \in Acts
                             /\ effects[At(p)] > 0 => Recovery[request[p]] = "retry"
    /\ pc[p] = "lookup" => Recovery[request[p]] = "lookup"
    /\ pc[p] \in {"wait", "waited"} => Recovery[request[p]] = "wait"
    /\ pc[p] = "waited" => waits[At(p)] # "none"
    /\ pc[p] = "complete" =>
           /\ response[p] \in Durable
           /\ waits[At(p)] \in {"none", response[p]}
           /\ request[p] \in Acts => \/ response[p] = applied[At(p)]
                                     \/ request[p] \in External /\ response[p] = "ctxErr"

\* How the Guest ended, and what Resume makes of it.
Ends(p) ==
    /\ pc[p] \in {"ended", "settle"} =>
           /\ ended[p] = "completed" => "return" \in Program(hist[p])
           /\ ended[p] = "failed" => "raise" \in Program(hist[p])
    /\ pc[p] = "settle" =>
           /\ ended[p] \in {"completed", "failed", "blocked"}
           /\ ended[p] # "blocked" => Consumed(p)

\* The status a process has read, and what others can have made of it.
Reads(p) ==
    /\ pc[p] # "idle" => status # "absent"
    /\ pc[p] = "opened" /\ read[p] \in Terminal => status = read[p]
    /\ pc[p] = "opened" /\ read[p] \notin Settled => status \in {"active", "waiting", "cancelled"}
    /\ pc[p] \in ActivePC => status \in {"active", "waiting", "cancelled"}

Attempt(p) ==
    /\ pc[p] # "idle" <=> lock = p
    /\ pc[p] \in ActivePC => p \notin closed
    /\ pc[p] \in {"idle", "opened", "registered"} =>
           hist[p] = <<>> /\ window[p] = <<>> /\ p \notin live
    /\ Reads(p) /\ Seen(p) /\ Ahead(p) /\ Stage(p) /\ Ends(p)

StoreInv == StoreType /\ Rows /\ EffectsAtMostOnce /\ WaitingExact /\ OutcomeIsAnswer

DInv ==
    /\ StoreInv /\ ProcType /\ ReportHonest
    /\ \A p \in Proc : Attempt(p)

-----------------------------------------------------------------------------
(* What the operators of the model return. *)

\* What a tool answers, a caller decides or a wait expires to can be stored.
LEMMA DurableOutcomes ==
    /\ \A o \in Answer : o \in Durable
    /\ {"ctxErr", "expired", "denied"} \subseteq Durable
    /\ "none" \notin Durable /\ "open" \notin Durable
<1>1. "none" \notin Answer /\ "open" \notin Answer /\ "budget" \notin Answer
  BY DurableAssumption
<1> QED
  BY <1>1 DEF Durable, Outcome

\* Writing one row leaves the others.
LEMMA RowWritten ==
    ASSUME calls \in Seq(Row), NEW i \in 1..Len(calls), NEW s \in {"waiting", "completed"},
           NEW o \in Durable \cup {"none"},
           calls' = [calls EXCEPT ![i] = CallRow(calls[i].request, s, o)]
    PROVE  /\ calls' \in Seq(Row) /\ Len(calls') = Len(calls)
           /\ \A j \in 1..Len(calls) : j # i => calls'[j] = calls[j]
           /\ calls'[i].state = s /\ calls'[i].outcome = o /\ calls'[i].request = calls[i].request
<1>1. calls[i] \in Row /\ Len(calls) \in Nat /\ calls \in [1..Len(calls) -> Row]
  OBVIOUS
<1>2. CallRow(calls[i].request, s, o) \in Row
  BY <1>1 DEF Row, CallRow
<1>3. /\ CallRow(calls[i].request, s, o).state = s /\ CallRow(calls[i].request, s, o).outcome = o
      /\ CallRow(calls[i].request, s, o).request = calls[i].request
  BY DEF CallRow
<1> QED
  BY <1>1, <1>2, <1>3

\* readCompleted returns the next completed rows, and nothing only when there
\* are none.
LEMMA ReadCompletedRows ==
    ASSUME StoreInv, NEW i \in Nat \ {0}, i <= Len(calls) + 1,
           \A j \in 1..Len(calls) : j < i => Completed(j)
    PROVE  /\ ReadCompleted(i) \in Seq(Row)
           /\ \A k \in 1..Len(ReadCompleted(i)) :
                  /\ i + k - 1 <= Len(calls) /\ Completed(i + k - 1)
                  /\ ReadCompleted(i)[k] = calls[i + k - 1]
           /\ ReadCompleted(i) = <<>> => \A j \in 1..Len(calls) : j >= i => ~Completed(j)
<1> DEFINE Ok(n) == /\ \A j \in i..n : calls[j].state = "completed"
                    /\ n < i + ReadAhead
                    /\ \/ n = Len(calls) \/ n + 1 = i + ReadAhead
                       \/ calls[n + 1].state # "completed"
           L == IF Len(calls) > 0 /\ ~Completed(Len(calls)) THEN Len(calls) - 1 ELSE Len(calls)
           n0 == IF L < i + ReadAhead - 1 THEN L ELSE i + ReadAhead - 1
           last == CHOOSE n \in (i - 1)..Len(calls) : Ok(n)
<1>0. Len(calls) \in Nat /\ ReadAhead \in Nat \ {0} /\ calls \in Seq(Row)
  BY DurableAssumption DEF StoreInv, StoreType
<1>1. n0 \in (i - 1)..Len(calls)
  BY <1>0
<1>2. \A j \in 1..Len(calls) : Completed(j) <=> j <= L
  BY <1>0 DEF StoreInv, Rows
<1>3. Ok(n0)
  BY <1>0, <1>1, <1>2 DEF Completed
<1>4. last \in (i - 1)..Len(calls) /\ Ok(last)
  <2> HIDE DEF Ok, n0
  <2> QED
    BY <1>1, <1>3, Zenon
<1>5. ReadCompleted(i) = SubSeq(calls, i, last)
  BY Zenon DEF ReadCompleted
<1> HIDE DEF last, L, n0
<1>6. /\ ReadCompleted(i) \in Seq(Row)
      /\ Len(ReadCompleted(i)) = last - i + 1
      /\ \A k \in 1..(last - i + 1) : ReadCompleted(i)[k] = calls[i + k - 1]
  BY <1>0, <1>4, <1>5, SubSeqProperties
<1>7. ASSUME NEW k \in 1..Len(ReadCompleted(i))
      PROVE  /\ i + k - 1 <= Len(calls) /\ Completed(i + k - 1)
             /\ ReadCompleted(i)[k] = calls[i + k - 1]
  <2>1. i + k - 1 \in i..last /\ i + k - 1 <= Len(calls) /\ k \in 1..(last - i + 1)
    BY <1>0, <1>4, <1>6
  <2>2. calls[i + k - 1].state = "completed"
    BY <1>4, <2>1
  <2> QED
    BY <1>6, <2>1, <2>2 DEF Completed
<1>8. ASSUME ReadCompleted(i) = <<>>, NEW j \in 1..Len(calls), j >= i, Completed(j)
      PROVE  FALSE
  <2>1. last = i - 1 /\ i <= Len(calls)
    BY <1>0, <1>4, <1>6, <1>8
  <2>2. calls[i].state # "completed"
    BY <1>0, <1>4, <1>8, <2>1
  <2>3. i <= L
    <3>1. j <= L /\ L \in Int
      BY <1>0, <1>2, <1>8 DEF L
    <3> QED
      BY <1>8, <3>1
  <2> QED
    BY <1>2, <2>1, <2>2, <2>3 DEF Completed
<1> QED
  BY <1>6, <1>7, <1>8

\* The rows a call is replayed from.
LEMMA HistoryRows ==
    ASSUME DInv, NEW p \in Proc, pc[p] = "guest", p \notin live, Len(hist[p]) < MaxToolCalls
    PROVE  /\ History(p) \in Seq(Row)
           /\ \A k \in 1..Len(History(p)) :
                  /\ Len(hist[p]) + k <= Len(calls) /\ Completed(Len(hist[p]) + k)
                  /\ History(p)[k] = calls[Len(hist[p]) + k]
           /\ History(p) = <<>> =>
                  \A i \in 1..Len(calls) : i > Len(hist[p]) => ~Completed(i)
<1>0. /\ Len(hist[p]) \in Nat /\ Len(calls) \in Nat /\ MaxToolCalls \in Nat
      /\ StoreInv /\ Attempt(p) /\ window[p] \in Seq(Row)
  BY DurableAssumption DEF DInv, StoreInv, StoreType, ProcType
<1>1. CASE window[p] # <<>>
  BY <1>0, <1>1 DEF History, Attempt, Ahead
<1>2. CASE window[p] = <<>>
  <2>1. /\ At(p) \in Nat \ {0} /\ At(p) <= Len(calls) + 1 /\ At(p) = Len(hist[p]) + 1
        /\ \A j \in 1..Len(calls) : j < At(p) => Completed(j)
    BY <1>0 DEF At, Attempt, Seen
  <2>2. History(p) = ReadCompleted(At(p))
    BY <1>2 DEF History
  <2>3. /\ ReadCompleted(At(p)) \in Seq(Row)
        /\ \A k \in 1..Len(ReadCompleted(At(p))) :
               /\ At(p) + k - 1 <= Len(calls) /\ Completed(At(p) + k - 1)
               /\ ReadCompleted(At(p))[k] = calls[At(p) + k - 1]
        /\ ReadCompleted(At(p)) = <<>> => \A j \in 1..Len(calls) : j >= At(p) => ~Completed(j)
    BY <1>0, <2>1, ReadCompletedRows
  <2>4. \A k \in 1..Len(ReadCompleted(At(p))) : At(p) + k - 1 = Len(hist[p]) + k
    BY <1>0, <2>1, <2>3
  <2>5. \A k \in 1..Len(ReadCompleted(At(p))) :
            /\ Len(hist[p]) + k <= Len(calls) /\ Completed(Len(hist[p]) + k)
            /\ ReadCompleted(At(p))[k] = calls[Len(hist[p]) + k]
    BY <2>3, <2>4, Zenon
  <2>6. \A j \in 1..Len(calls) : j > Len(hist[p]) => j >= At(p)
    BY <1>0, <2>1
  <2> QED
    BY <2>2, <2>3, <2>5, <2>6, Zenon
<1> QED
  BY <1>1, <1>2

\* What a Guest has seen grows by one outcome and keeps what it had.
LEMMA HistoryGrows ==
    ASSUME NEW h \in Seq(Outcome), NEW o \in Outcome
    PROVE  /\ Append(h, o) \in Seq(Outcome)
           /\ Len(Append(h, o)) = Len(h) + 1
           /\ \A i \in 1..Len(h) : Append(h, o)[i] = h[i]
           /\ Append(h, o)[Len(h) + 1] = o
           /\ \A i \in 1..Len(h) + 1 : SubSeq(Append(h, o), 1, i - 1) = SubSeq(h, 1, i - 1)
<1>1. /\ Append(h, o) \in Seq(Outcome)
      /\ Len(Append(h, o)) = Len(h) + 1
      /\ \A i \in 1..Len(h) : Append(h, o)[i] = h[i]
      /\ Append(h, o)[Len(h) + 1] = o
  BY AppendProperties
<1>2. ASSUME NEW i \in 1..Len(h) + 1
      PROVE  SubSeq(Append(h, o), 1, i - 1) = SubSeq(h, 1, i - 1)
  <2>1. i - 1 \in Int /\ Len(h) \in Nat /\ i - 1 <= Len(h)
    OBVIOUS
  <2>2. \A j \in 1..i - 1 : Append(h, o)[j] = h[j]
    BY <1>1, <2>1
  <2> QED
    BY <2>1, <2>2
<1> QED
  BY <1>1, <1>2

-----------------------------------------------------------------------------
(* Frames: what a step of each kind leaves true.                           *)

LEMMA StoreKept ==
    ASSUME DInv, UNCHANGED <<storeVars, worldVars>>
    PROVE  StoreInv' /\ status' = status /\ calls' = calls /\ waits' = waits
           /\ effects' = effects /\ applied' = applied
  BY DEF DInv, StoreInv, StoreType, Rows, EffectsAtMostOnce, WaitingExact, OutcomeIsAnswer,
         Completed, storeVars, worldVars

\* A process that does not hold the lock is idle, and another's step with the
\* lock, or on the way to it, does not concern it.
LEMMA OthersIdle ==
    ASSUME DInv, NEW p \in Proc, NEW q \in Proc \ {p}, lock \in {p, NoProc}, lock' \in {p, NoProc},
           pc'[q] = pc[q], hist'[q] = hist[q], window'[q] = window[q], q \in live' => q \in live
    PROVE  Attempt(q)'
<1>1. pc[q] = "idle" /\ lock # q /\ lock' # q
  BY DurableAssumption DEF DInv, Attempt
<1>2. hist[q] = <<>> /\ window[q] = <<>> /\ q \notin live
  BY <1>1 DEF DInv, Attempt
<1>3. pc'[q] = "idle" /\ hist'[q] = <<>> /\ window'[q] = <<>> /\ q \notin live'
  BY <1>1, <1>2
<1>4. Reads(q)' /\ Stage(q)' /\ Ends(q)'
  BY <1>3 DEF Reads, Stage, Ends, ActivePC, GuestPC, JournalPC
<1>5. Seen(q)' /\ Ahead(q)'
  BY <1>3 DEF Seen, Ahead
<1> QED
  BY <1>1, <1>3, <1>4, <1>5 DEF Attempt, ActivePC, GuestPC, JournalPC

\* A process that is idle again has left nothing behind.
LEMMA IdleAttempt ==
    ASSUME NEW p \in Proc, pc'[p] = "idle", lock' # p, hist'[p] = <<>>, window'[p] = <<>>, p \notin live'
    PROVE  Attempt(p)'
<1>1. Reads(p)' /\ Stage(p)' /\ Ends(p)'
  BY DEF Reads, Stage, Ends, ActivePC, GuestPC, JournalPC
<1>2. Seen(p)' /\ Ahead(p)'
  BY DEF Seen, Ahead
<1> QED
  BY <1>1, <1>2 DEF Attempt, ActivePC, GuestPC, JournalPC

\* Resume returns with a report that the store bears out.
LEMMA ReturnStep ==
    ASSUME DInv, NEW p \in Proc, pc[p] # "idle",
           NEW what \in Status \cup {"error", "parked"}, Return(p, what), StoreInv',
           what \in Terminal => status' = what, status \in Terminal => status' = status
    PROVE  DInv'
<1>0. lock = p /\ lock' = NoProc /\ NoProc # p
  BY DurableAssumption DEF DInv, Attempt, Return
<1>1. ProcType'
  <2>1. "absent" \in Status /\ "none" \in Endings /\ "idle" \in ActivePC \cup {"idle", "opened"}
    BY DEF Status, Endings
  <2>2. <<>> \in Seq(Outcome) /\ <<>> \in Seq(Row)
    OBVIOUS
  <2> QED
    BY <2>1, <2>2 DEF DInv, ProcType, Return
<1>2. ReportHonest'
  BY DEF DInv, ProcType, ReportHonest, Return
<1>3. ASSUME NEW q \in Proc PROVE Attempt(q)'
  <2>1. CASE q = p
    BY <1>0, <2>1, IdleAttempt DEF Return, DInv, ProcType
  <2>2. CASE q # p
    BY <1>0, <2>2, OthersIdle DEF Return, DInv, ProcType
  <2> QED
    BY <2>1, <2>2
<1> QED
  BY <1>1, <1>2, <1>3 DEF DInv

\* The Guest ends without a Python result.
LEMMA StopStep ==
    ASSUME DInv, NEW p \in Proc, pc[p] \in GuestPC,
           NEW why \in {"infra", "parked", "mismatch", "blocked"}, Stop(p, why),
           UNCHANGED <<storeVars, worldVars>>
    PROVE  DInv'
<1>0. lock = p /\ lock' = p /\ pc[p] # "idle"
  BY DEF DInv, Attempt, Stop, GuestPC, JournalPC
<1>1. StoreInv' /\ status' = status /\ calls' = calls
  BY StoreKept
<1>2. ProcType'
  BY DEF DInv, ProcType, Stop, Endings, ActivePC
<1>3. ReportHonest'
  BY <1>1 DEF DInv, ReportHonest, Stop
<1>4. ASSUME NEW q \in Proc PROVE Attempt(q)'
  <2>1. CASE q = p
    <3>1. /\ pc'[p] = "ended" /\ ended'[p] \in {"infra", "parked", "mismatch", "blocked"}
          /\ hist' = hist /\ window' = window /\ live' = live /\ closed' = closed
          /\ pc[p] \in ActivePC
      BY DEF DInv, ProcType, Stop, ActivePC
    <3>2. Seen(p)' /\ Ahead(p)'
      BY <1>1, <3>1 DEF DInv, Attempt, Seen, Ahead, Completed
    <3>3. Reads(p)' /\ Stage(p)' /\ Ends(p)'
      BY <1>1, <3>1 DEF DInv, Attempt, Reads, Stage, Ends, ActivePC, GuestPC, JournalPC
    <3> QED
      BY <1>0, <2>1, <3>1, <3>2, <3>3 DEF Attempt, DInv
  <2>2. CASE q # p
    BY <1>0, <2>2, OthersIdle DEF Stop, DInv, ProcType
  <2> QED
    BY <2>1, <2>2
<1> QED
  BY <1>1, <1>2, <1>3, <1>4 DEF DInv

\* The journal goes on: the rows its Guest has seen are kept, no row behind
\* them is completed, and its new stage holds.
LEMMA GotoStep ==
    ASSUME DInv, NEW p \in Proc, pc[p] \in JournalPC,
           NEW s \in JournalPC, NEW o \in Durable \cup {"none"}, Goto(p, s, o),
           StoreInv', status' \in {"active", "waiting", "cancelled"},
           status \in Terminal => status' = status,
           Len(calls) <= Len(calls'),
           \A i \in 1..Len(hist[p]) : i <= Len(calls) => calls'[i] = calls[i],
           \A i \in 1..Len(calls') : i > Len(hist[p]) => ~Completed(i)',
           Stage(p)'
    PROVE  DInv'
<1>0. lock = p /\ lock' = p /\ pc[p] # "idle"
  BY DEF DInv, Attempt, Goto, JournalPC
<1>1. ProcType'
  BY DEF DInv, ProcType, Goto, ActivePC, GuestPC
<1>2. ReportHonest'
  BY DEF DInv, ReportHonest, Goto
<1>3. ASSUME NEW q \in Proc PROVE Attempt(q)'
  <2>1. CASE q = p
    <3>1. /\ pc'[p] = s /\ hist' = hist /\ window' = window /\ live' = live /\ closed' = closed
          /\ pc[p] \in ActivePC /\ p \in live
      BY DEF DInv, ProcType, Goto, ActivePC, GuestPC, Attempt, Stage
    <3>2. Seen(p)'
      <4>1. /\ Seen(p) /\ Len(calls) \in Nat /\ Len(calls') \in Nat
            /\ Len(hist[p]) \in Nat /\ MaxToolCalls \in Nat
        BY DurableAssumption DEF DInv, Attempt, StoreInv, StoreType, ProcType
      <4> QED
        BY <3>1, <4>1 DEF Seen, Completed
    <3>3. Ahead(p)'
      BY <3>1 DEF DInv, Attempt, Ahead
    <3>4. Reads(p)' /\ Ends(p)'
      BY <3>1 DEF Reads, Ends, ActivePC, GuestPC, JournalPC
    <3> QED
      BY <1>0, <2>1, <3>1, <3>2, <3>3, <3>4 DEF Attempt, DInv, JournalPC
  <2>2. CASE q # p
    BY <1>0, <2>2, OthersIdle DEF Goto, DInv, ProcType
  <2> QED
    BY <2>1, <2>2
<1> QED
  BY <1>1, <1>2, <1>3 DEF DInv

\* Python gets an outcome.
LEMMA DeliverStep ==
    ASSUME DInv, NEW p \in Proc, pc[p] \in GuestPC,
           NEW o \in Outcome, Deliver(p, o), StoreInv', status' = status,
           NEW w \in Seq(Row), window' = [window EXCEPT ![p] = w], live' = live,
           Seen(p)', Ahead(p)'
    PROVE  DInv'
<1>0. lock = p /\ lock' = p /\ pc[p] # "idle"
  BY DEF DInv, Attempt, Deliver, GuestPC, JournalPC
<1>1. ProcType'
  <2>1. hist[p] \in Seq(Outcome) /\ Append(hist[p], o) \in Seq(Outcome)
    BY HistoryGrows DEF DInv, ProcType
  <2>2. hist' \in [Proc -> Seq(Outcome)]
    BY <2>1 DEF DInv, ProcType, Deliver
  <2> QED
    BY <2>2 DEF DInv, ProcType, Deliver, ActivePC, GuestPC
<1>2. ReportHonest'
  BY DEF DInv, ReportHonest, Deliver
<1>3. ASSUME NEW q \in Proc PROVE Attempt(q)'
  <2>1. CASE q = p
    <3>1. pc'[p] = "guest" /\ closed' = closed /\ pc[p] \in ActivePC
      BY DEF DInv, ProcType, Deliver, ActivePC
    <3>2. Reads(p)' /\ Ends(p)' /\ Stage(p)'
      BY <3>1 DEF DInv, Attempt, Reads, Ends, Stage, ActivePC, GuestPC, JournalPC
    <3> QED
      BY <1>0, <2>1, <3>1, <3>2 DEF Attempt, DInv
  <2>2. CASE q # p
    <3>1. pc'[q] = pc[q] /\ hist'[q] = hist[q] /\ window'[q] = window[q]
      BY <2>2 DEF Deliver, DInv, ProcType
    <3> QED
      BY <1>0, <2>2, <3>1, OthersIdle
  <2> QED
    BY <2>1, <2>2
<1> QED
  BY <1>1, <1>2, <1>3 DEF DInv

-----------------------------------------------------------------------------
(* The initial states. *)

LEMMA DurableInit == Init => DInv
<1> SUFFICES ASSUME Init PROVE DInv
  OBVIOUS
<1>1. StoreInv
  <2>1. calls = <<>> /\ Len(calls) = 0 /\ calls \in Seq(Row) /\ MaxToolCalls \in Nat
    BY DurableAssumption DEF Init
  <2>2. StoreType
    BY <2>1 DEF Init, StoreType, Status
  <2>3. Rows /\ EffectsAtMostOnce /\ WaitingExact /\ OutcomeIsAnswer
    BY <2>1 DEF Init, Rows, EffectsAtMostOnce, WaitingExact, OutcomeIsAnswer
  <2> QED
    BY <2>2, <2>3 DEF StoreInv
<1>2. ProcType
  <2>1. <<>> \in Seq(Outcome) /\ <<>> \in Seq(Row)
    OBVIOUS
  <2> QED
    BY <2>1 DEF Init, ProcType, Status, Endings
<1>3. ReportHonest
  BY DEF Init, ReportHonest, Terminal
<1>4. ASSUME NEW p \in Proc PROVE Attempt(p)
  <2>1. pc[p] = "idle" /\ lock # p /\ hist[p] = <<>> /\ window[p] = <<>> /\ p \notin live
    BY DurableAssumption DEF Init
  <2>2. Reads(p) /\ Stage(p) /\ Ends(p)
    BY <2>1 DEF Reads, Stage, Ends, ActivePC, GuestPC, JournalPC
  <2>3. Seen(p) /\ Ahead(p)
    BY <2>1 DEF Seen, Ahead
  <2> QED
    BY <2>1, <2>2, <2>3 DEF Attempt, ActivePC, GuestPC, JournalPC
<1> QED
  BY <1>1, <1>2, <1>3, <1>4 DEF DInv

-----------------------------------------------------------------------------
(* The control plane. *)

\* A write to the store without the lock: every attempt keeps what it knows.
LEMMA ControlStep ==
    ASSUME DInv, UNCHANGED <<lock, guestVars, procVars, calls, worldVars>>, StoreInv',
           status' \in Status, status \in Terminal => status' = status,
           (\E p \in Proc : pc[p] # "idle") => status' # "absent",
           status \in {"active", "waiting", "cancelled"} =>
               status' \in {"active", "waiting", "cancelled"},
           \A p \in Proc : Stage(p)'
    PROVE  DInv'
<1>1. ProcType'
  BY DEF DInv, ProcType, guestVars, procVars
<1>2. ReportHonest'
  BY DEF DInv, ReportHonest, procVars
<1>3. ASSUME NEW p \in Proc PROVE Attempt(p)'
  <2>1. Attempt(p)
    BY DEF DInv
  <2>2. Reads(p)'
    BY <2>1 DEF Attempt, Reads, procVars
  <2>3. Seen(p)' /\ Ahead(p)' /\ Ends(p)'
    BY <2>1 DEF Attempt, Seen, Ahead, Ends, Consumed, Completed, procVars, guestVars
  <2> QED
    BY <2>1, <2>2, <2>3 DEF Attempt, procVars, guestVars
<1> QED
  BY <1>1, <1>2, <1>3 DEF DInv

LEMMA CreateStep ==
    ASSUME DInv, NEW p \in Proc, Create(p)
    PROVE  DInv'
<1>1. StoreInv'
  BY DEF DInv, StoreInv, StoreType, Rows, EffectsAtMostOnce, WaitingExact, OutcomeIsAnswer,
         Completed, Create, worldVars, Status
<1>2. \A q \in Proc : Stage(q)'
  BY DEF DInv, Attempt, Stage, Create, guestVars, procVars, worldVars, At
<1> QED
  BY <1>1, <1>2, ControlStep DEF Create, Status, Terminal

LEMMA DecideStep ==
    ASSUME DInv, NEW i \in Sequence, NEW d \in Answer, Decide(i, d)
    PROVE  DInv'
<1>0. /\ d \in Durable /\ d # "open" /\ d # "none" /\ waits[i] = "open" /\ i = Len(calls)
      /\ calls[i].state = "waiting" /\ status \in {"waiting", "cancelled", "blocked"}
      /\ waits' = [waits EXCEPT ![i] = d] /\ calls' = calls
      /\ effects' = effects /\ applied' = applied
      /\ "open" \notin Durable
  BY DurableAssumption DEF DInv, StoreInv, WaitingExact, Decide, Durable, Outcome, worldVars
<1>1. status' \in Status /\ status' = IF status = "waiting" THEN "active" ELSE status
  BY <1>0 DEF Decide, Status, Settled, Terminal
<1>2. StoreInv'
  <2>1. StoreType'
    BY <1>0, <1>1 DEF DInv, StoreInv, StoreType
  <2>2. Rows'
    BY <1>0, <1>1 DEF DInv, StoreInv, StoreType, Rows, Completed
  <2>3. WaitingExact'
    BY <1>0, <1>1 DEF DInv, StoreInv, StoreType, WaitingExact
  <2>4. EffectsAtMostOnce' /\ OutcomeIsAnswer'
    BY <1>0 DEF DInv, StoreInv, EffectsAtMostOnce, OutcomeIsAnswer, Completed
  <2> QED
    BY <2>1, <2>2, <2>3, <2>4 DEF StoreInv
<1>3. ASSUME NEW q \in Proc PROVE Stage(q)'
  <2>1. Stage(q) /\ pc' = pc /\ request' = request /\ response' = response /\ hist' = hist /\ live' = live
    BY DEF DInv, Attempt, Decide, guestVars, procVars
  <2>2. pc[q] \in JournalPC \ {"begin"} => At(q) \in Sequence
    BY <2>1, DurableAssumption DEF Stage, DInv, ProcType, At, Sequence
  <2>3. pc[q] = "complete" => At(q) # i
    BY <1>0, <2>1 DEF Stage, JournalPC
  <2> QED
    BY <1>0, <2>1, <2>2, <2>3 DEF Stage, At, JournalPC, DInv, StoreInv, StoreType
<1> QED
  BY <1>0, <1>1, <1>2, <1>3, ControlStep DEF Decide, Terminal, worldVars

LEMMA CancelStep ==
    ASSUME DInv, Cancel
    PROVE  DInv'
<1>1. StoreInv'
  BY DEF DInv, StoreInv, StoreType, Rows, EffectsAtMostOnce, WaitingExact, OutcomeIsAnswer,
         Completed, Cancel, worldVars, Status, Settled, Terminal
<1>2. \A q \in Proc : Stage(q)'
  BY DEF DInv, Attempt, Stage, Cancel, guestVars, procVars, worldVars, At
<1> QED
  BY <1>1, <1>2, ControlStep DEF Cancel, Status, Settled, Terminal

LEMMA CloseStep ==
    ASSUME DInv, NEW p \in Proc, Close(p)
    PROVE  DInv'
<1>1. StoreInv' /\ status' = status /\ calls' = calls /\ waits' = waits
      /\ effects' = effects /\ applied' = applied
  BY StoreKept DEF Close
<1>2. ProcType' /\ ReportHonest'
  BY <1>1 DEF DInv, ProcType, ReportHonest, Close, guestVars
<1>3. ASSUME NEW q \in Proc PROVE Attempt(q)'
  <2>1. Attempt(q)
    BY DEF DInv
  <2>2. Seen(q)' /\ Ahead(q)' /\ Stage(q)' /\ Ends(q)' /\ Reads(q)'
    BY <1>1, <2>1 DEF Attempt, Seen, Ahead, Ends, Stage, Reads, Consumed, Completed, At, Close, guestVars
  <2>3. pc[q] \in ActivePC => q \notin closed'
    BY <2>1 DEF Attempt, Close
  <2> QED
    BY <2>1, <2>2, <2>3 DEF Attempt, Close, guestVars
<1> QED
  BY <1>1, <1>2, <1>3 DEF DInv

-----------------------------------------------------------------------------
(* Resume, up to the start of the Guest. *)

LEMMA OpenStep ==
    ASSUME DInv, NEW p \in Proc, Open(p)
    PROVE  DInv'
<1>1. StoreInv' /\ status' = status /\ calls' = calls
  BY StoreKept DEF Open
<1>2. ProcType'
  BY DEF DInv, StoreInv, StoreType, ProcType, Open, guestVars
<1>3. ReportHonest'
  BY <1>1 DEF DInv, ProcType, ReportHonest, Open, Terminal
<1>4. ASSUME NEW q \in Proc PROVE Attempt(q)'
  <2>1. CASE q = p
    <3>1. /\ pc'[p] = "opened" /\ read'[p] = status /\ status # "absent" /\ status \in Status
          /\ hist'[p] = <<>> /\ window'[p] = <<>> /\ p \notin live' /\ lock' = p
      BY DEF Open, DInv, ProcType, StoreInv, StoreType, Attempt, guestVars
    <3>2. Reads(p)' /\ Stage(p)' /\ Ends(p)'
      BY <1>1, <3>1 DEF Reads, Stage, Ends, ActivePC, GuestPC, JournalPC, Status
    <3>3. Seen(p)' /\ Ahead(p)'
      BY <3>1 DEF Seen, Ahead
    <3> QED
      BY <2>1, <3>1, <3>2, <3>3 DEF Attempt, ActivePC, GuestPC, JournalPC
  <2>2. CASE q # p
    BY <2>2, OthersIdle DEF Open, DInv, ProcType, guestVars
  <2> QED
    BY <2>1, <2>2
<1> QED
  BY <1>1, <1>2, <1>3, <1>4 DEF DInv

LEMMA RefuseDefinitionStep ==
    ASSUME DInv, NEW p \in Proc, RefuseDefinition(p)
    PROVE  DInv'
<1>1. StoreInv'
  BY DEF DInv, StoreInv, StoreType, Rows, EffectsAtMostOnce, WaitingExact, OutcomeIsAnswer,
         Completed, RefuseDefinition, worldVars, Status, Settled, Terminal, Attempt, Reads
<1> QED
  BY <1>1, ReturnStep DEF RefuseDefinition, Status, Settled, Terminal

\* Register and Recheck let an attempt go on that has seen nothing yet.
LEMMA ProceedStep ==
    ASSUME DInv, NEW p \in Proc, NEW s \in {"registered", "guest"},
           pc[p] \in {"opened", "registered"}, p \notin closed,
           status \in {"active", "waiting", "cancelled"},
           pc' = [pc EXCEPT ![p] = s],
           UNCHANGED <<lock, guestVars, read, ctxDone, closed, report, storeVars, worldVars>>
    PROVE  DInv'
<1>1. StoreInv' /\ status' = status /\ calls' = calls
  BY StoreKept
<1>2. ProcType' /\ ReportHonest'
  BY <1>1 DEF DInv, ProcType, ReportHonest, guestVars, ActivePC, GuestPC
<1>3. lock = p /\ lock' = p
  BY DEF DInv, Attempt
<1>4. ASSUME NEW q \in Proc PROVE Attempt(q)'
  <2>1. CASE q = p
    <3>1. /\ pc'[p] = s /\ hist'[p] = <<>> /\ window'[p] = <<>> /\ p \notin live' /\ p \notin closed'
      BY DEF DInv, ProcType, Attempt, guestVars
    <3>2. Reads(p)' /\ Stage(p)' /\ Ends(p)'
      BY <1>1, <3>1 DEF Reads, Stage, Ends, ActivePC, GuestPC, JournalPC
    <3>3. Seen(p)' /\ Ahead(p)'
      BY <3>1 DEF Seen, Ahead
    <3> QED
      BY <1>3, <2>1, <3>1, <3>2, <3>3 DEF Attempt
  <2>2. CASE q # p
    BY <1>3, <2>2, OthersIdle DEF DInv, ProcType, guestVars
  <2> QED
    BY <2>1, <2>2
<1> QED
  BY <1>1, <1>2, <1>4 DEF DInv

LEMMA StartStep ==
    ASSUME DInv, NEW p \in Proc,
           OpenBlocked(p) \/ ReplayResult(p) \/ Register(p) \/ Recheck(p)
    PROVE  DInv'
<1>0. Attempt(p) /\ status \in Status
  BY DEF DInv, StoreInv, StoreType
<1>1. CASE OpenBlocked(p)
  BY <1>1, ReturnStep, StoreKept DEF OpenBlocked, Status, Settled, Terminal
<1>2. CASE ReplayResult(p)
  <2>1. status = read[p] /\ read[p] \in Terminal
    BY <1>0, <1>2 DEF ReplayResult, Attempt, Reads
  <2> QED
    BY <1>2, <2>1, ReturnStep, StoreKept DEF ReplayResult, Status, Settled
<1>3. CASE Register(p)
  <2>1. CASE p \in closed
    BY <1>3, <2>1, ReturnStep, StoreKept DEF Register, Terminal
  <2>2. CASE p \notin closed
    <3>1. status \in {"active", "waiting", "cancelled"}
      BY <1>0, <1>3 DEF Register, Attempt, Reads
    <3> QED
      BY <1>3, <2>2, <3>1, ProceedStep DEF Register
  <2> QED
    BY <2>1, <2>2
<1>4. CASE Recheck(p)
  <2>1. status \in {"active", "waiting", "cancelled"} /\ p \notin closed
    BY <1>0, <1>4 DEF Recheck, Attempt, Reads, ActivePC
  <2>2. CASE status = "cancelled"
    BY <1>4, <2>2, ReturnStep, StoreKept DEF Recheck, Terminal, Status, Settled
  <2>3. CASE status # "cancelled"
    BY <1>4, <2>1, <2>3, ProceedStep DEF Recheck
  <2> QED
    BY <2>2, <2>3
<1> QED
  BY <1>1, <1>2, <1>3, <1>4

-----------------------------------------------------------------------------
(* The Guest and the replay half of journal.Call. *)

LEMMA CallOverBudgetStep ==
    ASSUME DInv, NEW p \in Proc, NEW r \in Request, CallOverBudget(p, r)
    PROVE  DInv'
<1>0. /\ StoreInv' /\ status' = status /\ calls' = calls /\ Attempt(p) /\ pc[p] = "guest"
      /\ hist[p] \in Seq(Outcome) /\ Len(hist[p]) \in Nat /\ Len(hist[p]) >= MaxToolCalls
      /\ MaxToolCalls \in Nat /\ r \in Program(hist[p]) /\ "budget" \in Outcome
      /\ window' = window /\ live' = live /\ window[p] \in Seq(Row)
      /\ hist'[p] = Append(hist[p], "budget")
      /\ Len(calls) \in Nat /\ Len(calls) <= MaxToolCalls
  BY StoreKept, DurableAssumption
     DEF CallOverBudget, Calling, DInv, ProcType, Outcome, Deliver, StoreInv, StoreType
<1>1. /\ Len(hist'[p]) = Len(hist[p]) + 1
      /\ \A i \in 1..Len(hist[p]) : hist'[p][i] = hist[p][i]
      /\ hist'[p][Len(hist[p]) + 1] = "budget"
      /\ \A i \in 1..Len(hist[p]) + 1 : SubSeq(hist'[p], 1, i - 1) = SubSeq(hist[p], 1, i - 1)
  BY <1>0, HistoryGrows
<1>2. SubSeq(hist[p], 1, Len(hist[p])) = hist[p]
  BY <1>0
<1>3. Seen(p)'
  <2> SUFFICES ASSUME NEW i \in 1..Len(hist'[p])
               PROVE  IF i <= MaxToolCalls
                      THEN i <= Len(calls) /\ Completed(i) /\ hist'[p][i] = calls[i].outcome
                      ELSE /\ hist'[p][i] = "budget"
                           /\ \E q \in Request : q \in Program(SubSeq(hist'[p], 1, i - 1))
    BY <1>0 DEF Seen, Completed
  <2>1. CASE i \in 1..Len(hist[p])
    <3>1. /\ IF i <= MaxToolCalls
             THEN i <= Len(calls) /\ Completed(i) /\ hist[p][i] = calls[i].outcome
             ELSE /\ hist[p][i] = "budget"
                  /\ \E q \in Request : q \in Program(SubSeq(hist[p], 1, i - 1))
          /\ hist'[p][i] = hist[p][i] /\ SubSeq(hist'[p], 1, i - 1) = SubSeq(hist[p], 1, i - 1)
      BY <1>0, <1>1, <2>1 DEF Attempt, Seen
    <3> QED
      BY <3>1
  <2>2. CASE i = Len(hist[p]) + 1
    <3>1. SubSeq(hist'[p], 1, i - 1) = hist[p]
      BY <1>0, <1>1, <1>2, <2>2
    <3>2. ~(i <= MaxToolCalls) /\ hist'[p][i] = "budget"
      BY <1>0, <1>1, <2>2
    <3>3. r \in Program(SubSeq(hist'[p], 1, i - 1))
      BY <1>0, <3>1, Zenon
    <3> QED
      BY <3>2, <3>3, Zenon
  <2> QED
    BY <1>0, <1>1, <2>1, <2>2
<1>4. Ahead(p)'
  <2>1. Len(window[p]) = 0
    <3>1. ASSUME Len(window[p]) # 0 PROVE FALSE
      <4>1. Len(hist[p]) + 1 <= Len(calls)
        BY <1>0, <3>1 DEF Attempt, Ahead
      <4> QED
        BY <1>0, <4>1
    <3> QED
      BY <3>1
  <2> QED
    BY <1>0, <1>1, <2>1 DEF Attempt, Ahead, Completed
<1> QED
  <2>1. window' = [window EXCEPT ![p] = window[p]]
    BY <1>0 DEF DInv, ProcType
  <2> QED
    BY <1>0, <1>3, <1>4, <2>1, DeliverStep DEF CallOverBudget, GuestPC

LEMMA CallReplayedStep ==
    ASSUME DInv, NEW p \in Proc, NEW r \in Request, CallReplayed(p, r)
    PROVE  DInv'
<1>0. /\ StoreInv' /\ status' = status /\ calls' = calls /\ Attempt(p) /\ pc[p] = "guest"
      /\ hist[p] \in Seq(Outcome) /\ Len(hist[p]) \in Nat /\ Len(hist[p]) < MaxToolCalls
      /\ MaxToolCalls \in Nat /\ p \notin live /\ Len(calls) \in Nat /\ calls \in Seq(Row)
  BY StoreKept, DurableAssumption
     DEF CallReplayed, Calling, DInv, ProcType, StoreInv, StoreType
<1>1. /\ History(p) \in Seq(Row)
      /\ \A k \in 1..Len(History(p)) :
             /\ Len(hist[p]) + k <= Len(calls) /\ Completed(Len(hist[p]) + k)
             /\ History(p)[k] = calls[Len(hist[p]) + k]
  BY <1>0, HistoryRows
<1>2. History(p) # <<>>
  BY DEF CallReplayed
<1> DEFINE H == History(p)
           n == Len(hist[p]) + 1
<1> HIDE DEF H
<1>3. /\ Len(H) >= 1 /\ Len(H) \in Nat /\ Head(H) = calls[n] /\ Completed(n) /\ n <= Len(calls)
      /\ Tail(H) \in Seq(Row) /\ Len(Tail(H)) = Len(H) - 1
      /\ \A k \in 1..Len(Tail(H)) :
             /\ n + k <= Len(calls) /\ Completed(n + k) /\ Tail(H)[k] = calls[n + k]
  <2>1. H \in Seq(Row) /\ H # <<>>
    BY <1>1, <1>2 DEF H
  <2>2. /\ \A k \in 1..Len(H) :
               /\ Len(hist[p]) + k <= Len(calls) /\ Completed(Len(hist[p]) + k)
               /\ H[k] = calls[Len(hist[p]) + k]
    BY <1>1 DEF H
  <2>3. /\ Tail(H) \in Seq(Row) /\ Len(Tail(H)) = Len(H) - 1 /\ Len(H) \in Nat /\ Len(H) >= 1
        /\ \A k \in 1..Len(Tail(H)) : Tail(H)[k] = H[k + 1]
    BY <2>1, HeadTailProperties
  <2>4. Head(H) = H[1]
    BY <2>1
  <2>5. Head(H) = calls[n] /\ Completed(n) /\ n <= Len(calls)
    BY <2>2, <2>3, <2>4
  <2>6. ASSUME NEW k \in 1..(Len(H) - 1)
        PROVE  n + k <= Len(calls) /\ Completed(n + k) /\ Tail(H)[k] = calls[n + k]
    <3>0. Len(hist[p]) \in Nat /\ Len(H) \in Nat
      BY <1>0, <2>3, Zenon
    <3>1. k + 1 \in 1..Len(H)
      BY <3>0
    <3>2. Len(hist[p]) + (k + 1) = n + k
      <4>1. \A x \in Nat : x + (k + 1) = (x + 1) + k
        BY <3>1
      <4> QED
        BY <3>0, <4>1
    <3>3. /\ Len(hist[p]) + (k + 1) <= Len(calls) /\ Completed(Len(hist[p]) + (k + 1))
          /\ H[k + 1] = calls[Len(hist[p]) + (k + 1)]
      BY <2>2, <3>1
    <3>4. n + k <= Len(calls) /\ Completed(n + k) /\ H[k + 1] = calls[n + k]
      <4> HIDE DEF n
      <4> QED
        BY <3>3, <3>2
    <3> QED
      BY <2>3, <3>4
  <2> QED
    BY <2>3, <2>5, <2>6
<1>4. CASE Head(H).request # r
  <2>1. Stop(p, "mismatch") /\ UNCHANGED <<storeVars, worldVars>>
    BY <1>4 DEF CallReplayed, H
  <2> QED
    BY <1>0, <2>1, StopStep DEF GuestPC
<1>5. CASE Head(H).request = r
  <2>1. /\ Deliver(p, Head(H).outcome) /\ window' = [window EXCEPT ![p] = Tail(H)] /\ live' = live
    BY <1>5 DEF CallReplayed, H
  <2> DEFINE o == calls[n].outcome
  <2>2. o \in Durable /\ o \in Outcome /\ Head(H).outcome = o
    <3>1. n \in 1..Len(calls) /\ calls[n] \in Row /\ Completed(n)
      BY <1>0, <1>3
    <3>2. calls[n].outcome # "none"
      BY <3>1 DEF DInv, StoreInv, Rows
    <3>3. calls[n].outcome \in Durable
      BY <3>1, <3>2 DEF Row
    <3> QED
      BY <1>3, <3>3 DEF Durable
  <2> HIDE DEF o
  <2>3. hist'[p] = Append(hist[p], o) /\ window'[p] = Tail(H)
    BY <2>1, <2>2 DEF Deliver, DInv, ProcType
  <2>4. /\ Len(hist'[p]) = n
        /\ \A i \in 1..Len(hist[p]) : hist'[p][i] = hist[p][i]
        /\ hist'[p][n] = o
    BY <1>0, <2>2, <2>3, HistoryGrows
  <2>5. Seen(p)'
    <3> SUFFICES ASSUME NEW i \in 1..n
                 PROVE  i <= MaxToolCalls /\ i <= Len(calls) /\ Completed(i) /\ hist'[p][i] = calls[i].outcome
      BY <1>0, <2>4 DEF Seen, Completed
    <3>1. CASE i \in 1..Len(hist[p])
      BY <1>0, <2>4, <3>1, SMTT(60) DEF Attempt, Seen
    <3>2. CASE i = n
      BY <1>0, <1>3, <2>4, <3>2 DEF o
    <3> QED
      BY <1>0, <3>1, <3>2
  <2>6. Ahead(p)'
    BY <1>0, <1>3, <2>1, <2>3, <2>4 DEF Ahead, Completed
  <2> QED
    BY <1>0, <1>3, <2>1, <2>2, <2>5, <2>6, DeliverStep DEF GuestPC
<1> QED
  BY <1>4, <1>5

\* A step of p's own Guest, with the store and what it has seen kept.
LEMMA CallLiveStep ==
    ASSUME DInv, NEW p \in Proc, NEW r \in Request, CallLive(p, r)
    PROVE  DInv'
<1>0. /\ StoreInv' /\ status' = status /\ calls' = calls /\ Attempt(p) /\ pc[p] = "guest"
      /\ Len(hist[p]) < MaxToolCalls /\ lock = p /\ lock' = p /\ pc[p] \in ActivePC
  BY StoreKept DEF CallLive, Calling, DInv, Attempt, ActivePC, GuestPC
<1>1. window[p] = <<>> /\ \A i \in 1..Len(calls) : i > Len(hist[p]) => ~Completed(i)
  <2>1. CASE p \in live
    BY <1>0, <2>1 DEF Attempt, Ahead
  <2>2. CASE p \notin live
    <3>1. History(p) = <<>>
      BY <2>2 DEF CallLive
    <3>2. window[p] = <<>>
      BY <3>1 DEF History
    <3> QED
      BY <1>0, <2>2, <3>1, <3>2, HistoryRows
  <2> QED
    BY <2>1, <2>2
<1>2. ProcType' /\ ReportHonest'
  BY <1>0 DEF DInv, ProcType, ReportHonest, CallLive, ActivePC, GuestPC, JournalPC
<1>3. ASSUME NEW q \in Proc PROVE Attempt(q)'
  <2>1. CASE q = p
    <3>1. /\ pc'[p] = "begin" /\ request'[p] = r /\ p \in live' /\ hist' = hist /\ window' = window
          /\ closed' = closed /\ r \in Program(hist[p])
      BY DEF CallLive, Calling, DInv, ProcType
    <3>2. Seen(p)' /\ Ahead(p)'
      BY <1>0, <1>1, <3>1 DEF Attempt, Seen, Ahead, Completed
    <3>3. Reads(p)' /\ Stage(p)' /\ Ends(p)'
      BY <1>0, <3>1 DEF Attempt, Reads, Stage, Ends, ActivePC, GuestPC, JournalPC
    <3> QED
      BY <1>0, <2>1, <3>1, <3>2, <3>3 DEF Attempt, ActivePC, GuestPC, JournalPC
  <2>2. CASE q # p
    BY <1>0, <2>2, OthersIdle DEF CallLive, DInv, ProcType
  <2> QED
    BY <2>1, <2>2
<1> QED
  BY <1>0, <1>2, <1>3 DEF DInv

LEMMA GuestEndsStep ==
    ASSUME DInv, NEW p \in Proc, GuestEnds(p)
    PROVE  DInv'
<1>0. /\ StoreInv' /\ status' = status /\ calls' = calls /\ Attempt(p) /\ pc[p] = "guest"
      /\ lock = p /\ lock' = p /\ pc[p] \in ActivePC
  BY StoreKept DEF GuestEnds, DInv, Attempt, ActivePC, GuestPC
<1>1. /\ pc'[p] = "ended" /\ hist' = hist /\ window' = window /\ live' = live /\ closed' = closed
      /\ \/ ended' = [ended EXCEPT ![p] = "completed"] /\ "return" \in Program(hist[p])
         \/ ended' = [ended EXCEPT ![p] = "failed"] /\ "raise" \in Program(hist[p])
  BY DEF GuestEnds, DInv, ProcType
<1>2. ProcType' /\ ReportHonest'
  BY <1>0, <1>1 DEF DInv, ProcType, ReportHonest, GuestEnds, ActivePC, Endings
<1>3. ASSUME NEW q \in Proc PROVE Attempt(q)'
  <2>1. CASE q = p
    <3>1. Seen(p)' /\ Ahead(p)'
      BY <1>0, <1>1 DEF Attempt, Seen, Ahead, Completed
    <3>2. Reads(p)' /\ Stage(p)'
      BY <1>0, <1>1 DEF Attempt, Reads, Stage, ActivePC, GuestPC, JournalPC
    <3>3. Ends(p)'
      BY <1>1 DEF Ends, DInv, ProcType
    <3> QED
      BY <1>0, <1>1, <2>1, <3>1, <3>2, <3>3 DEF Attempt
  <2>2. CASE q # p
    BY <1>0, <2>2, OthersIdle DEF GuestEnds, DInv, ProcType
  <2> QED
    BY <2>1, <2>2
<1> QED
  BY <1>0, <1>2, <1>3 DEF DInv

-----------------------------------------------------------------------------
(* The live half of journal.Call. *)

\* What is known of a live call before BeginCall.
LEMMA AtLive ==
    ASSUME DInv, NEW p \in Proc, pc[p] \in JournalPC
    PROVE  /\ hist[p] \in Seq(Outcome) /\ Len(hist[p]) \in Nat /\ At(p) = Len(hist[p]) + 1
           /\ At(p) \in Sequence /\ calls \in Seq(Row) /\ Len(calls) \in Nat /\ MaxToolCalls \in Nat
           /\ Len(hist[p]) <= Len(calls) /\ Len(calls) <= At(p)
           /\ \A i \in 1..Len(hist[p]) : i <= Len(calls) /\ Completed(i)
           /\ \A i \in 1..Len(hist[p]) : hist[p][i] = calls[i].outcome
           /\ \A i \in 1..Len(calls) : i > Len(hist[p]) => ~Completed(i)
           /\ request[p] \in Request /\ status \in {"active", "waiting", "cancelled"}
           /\ Stage(p) /\ pc[p] \in GuestPC
<1>1. /\ Attempt(p) /\ hist[p] \in Seq(Outcome) /\ Len(hist[p]) \in Nat /\ MaxToolCalls \in Nat
      /\ calls \in Seq(Row) /\ Len(calls) \in Nat /\ Rows
  BY DurableAssumption DEF DInv, StoreInv, StoreType, ProcType
<1>2. /\ p \in live /\ request[p] \in Request /\ Len(hist[p]) < MaxToolCalls /\ Stage(p)
      /\ status \in {"active", "waiting", "cancelled"}
  BY <1>1 DEF Attempt, Stage, Reads, ActivePC, GuestPC
<1>3. \A i \in 1..Len(hist[p]) : i <= Len(calls) /\ Completed(i) /\ hist[p][i] = calls[i].outcome
  BY <1>1, <1>2 DEF Attempt, Seen
<1>4. \A i \in 1..Len(calls) : i > Len(hist[p]) => ~Completed(i)
  BY <1>1, <1>2 DEF Attempt, Ahead
<1>5. Len(hist[p]) <= Len(calls)
  BY <1>1, <1>3
<1>6. Len(calls) <= Len(hist[p]) + 1
  <2>1. ASSUME Len(calls) > Len(hist[p]) + 1 PROVE FALSE
    <3>1. Completed(Len(hist[p]) + 1)
      BY <1>1, <2>1 DEF Rows
    <3> QED
      BY <1>1, <1>4, <2>1, <3>1
  <2> QED
    BY <1>1, <2>1
<1> QED
  BY <1>1, <1>2, <1>3, <1>4, <1>5, <1>6 DEF At, Sequence, GuestPC

\* What the recovery mode of a call makes of its committed row.
LEMMA RouteStep ==
    ASSUME DInv, NEW p \in Proc, pc[p] = "begin", NEW created \in BOOLEAN,
           Route(p, request[p], created),
           StoreInv', status' = status, waits' = waits, effects' = effects, applied' = applied,
           ~created => UNCHANGED <<storeVars, worldVars>>,
           Len(calls) <= Len(calls'), Len(calls') = At(p),
           calls'[At(p)].request = request[p], calls'[At(p)].state # "completed",
           \A i \in 1..Len(hist[p]) : calls'[i] = calls[i],
           created => effects[At(p)] = 0
    PROVE  DInv'
<1>0. pc[p] \in JournalPC
  BY DEF JournalPC
<1>1. /\ Len(hist[p]) \in Nat /\ At(p) = Len(hist[p]) + 1 /\ At(p) \in Sequence
      /\ request[p] \in Request /\ status \in {"active", "waiting", "cancelled"}
      /\ Stage(p) /\ pc[p] \in GuestPC
  BY <1>0, AtLive
<1>2. \A i \in 1..Len(calls') : i > Len(hist[p]) => ~Completed(i)'
  BY <1>1 DEF Completed
<1>3. waits'[At(p)] # "none" => Recovery[request[p]] = "wait"
  BY <1>1 DEF StoreInv, Rows
<1>4. ASSUME NEW s \in {"dispatch", "complete", "lookup", "wait"}, NEW o \in Durable \cup {"none"},
             Goto(p, s, o),
             s = "dispatch" => Dispatches(request[p], created),
             s = "complete" => o = "denied" /\ Recovery[request[p]] = "unknown",
             s = "lookup" => Recovery[request[p]] = "lookup",
             s = "wait" => Recovery[request[p]] = "wait"
      PROVE  DInv'
  <2>1. /\ pc'[p] = s /\ response'[p] = o /\ hist' = hist /\ live' = live /\ request' = request
        /\ s \in JournalPC /\ s # "begin" /\ At(p)' = At(p)
    BY <1>4 DEF Goto, DInv, ProcType, JournalPC, At
  <2>2. s = "dispatch" => /\ request[p] \in Acts
                          /\ effects[At(p)] > 0 => Recovery[request[p]] = "retry"
    <3>1. effects[At(p)] = 0 => ~(effects[At(p)] > 0)
      OBVIOUS
    <3> QED
      BY <1>1, <1>4, <3>1 DEF Dispatches, Acts
  <2>3. s = "complete" => /\ o \in Durable /\ waits'[At(p)] = "none" /\ request[p] \notin Acts
    BY <1>3, <1>4 DEF Durable, Outcome, Acts
  <2>4. /\ p \in live /\ request[p] \in Program(hist[p]) /\ Len(hist[p]) < MaxToolCalls
    BY <1>0, <1>1 DEF Stage
  <2>5. Stage(p)'
    BY <1>1, <1>4, <2>1, <2>2, <2>3, <2>4 DEF Stage
  <2> QED
    BY <1>0, <1>1, <1>2, <1>4, <2>1, <2>5, GotoStep
<1>5. CASE Dispatches(request[p], created) /\ Goto(p, "dispatch", "none")
  BY <1>4, <1>5
<1>6. CASE Recovery[request[p]] = "unknown" /\ Goto(p, "complete", "denied")
  BY <1>4, <1>6, DurableAssumption DEF Durable, Outcome
<1>7. CASE Recovery[request[p]] = "wait" /\ Goto(p, "wait", "none")
  BY <1>4, <1>7
<1>8. CASE Recovery[request[p]] = "lookup" /\ Goto(p, "lookup", "none")
  BY <1>4, <1>8
<1>9. CASE ~created /\ Stop(p, "blocked")
  BY <1>1, <1>9, StopStep
<1> QED
  BY <1>5, <1>6, <1>7, <1>8, <1>9 DEF Route

LEMMA BeginNewStep ==
    ASSUME DInv, NEW p \in Proc, BeginNew(p)
    PROVE  DInv'
<1>0. pc[p] \in JournalPC /\ pc[p] = "begin" /\ At(p) > Len(calls) /\ status \notin Settled \cup {"waiting"}
  BY DEF BeginNew, JournalPC
<1> DEFINE row == CallRow(request[p], "pending", "none")
<1>1. /\ Len(hist[p]) \in Nat /\ At(p) = Len(hist[p]) + 1 /\ At(p) \in Sequence
      /\ calls \in Seq(Row) /\ Len(calls) \in Nat /\ Len(calls) = Len(hist[p])
      /\ \A i \in 1..Len(calls) : Completed(i)
      /\ request[p] \in Request /\ status = "active" /\ MaxToolCalls \in Nat
  BY <1>0, AtLive DEF Settled, Terminal
<1>2. /\ calls' = Append(calls, row) /\ row \in Row
      /\ status' = status /\ waits' = waits /\ effects' = effects /\ applied' = applied
  BY <1>1 DEF BeginNew, Row, CallRow, worldVars
<1> HIDE DEF row
<1>3. /\ calls' \in Seq(Row) /\ Len(calls') = Len(calls) + 1
      /\ \A i \in 1..Len(calls) : calls'[i] = calls[i]
      /\ calls'[Len(calls) + 1] = row
  BY <1>1, <1>2, AppendProperties
<1>4. row.request = request[p] /\ row.state = "pending" /\ row.outcome = "none"
  BY DEF row, CallRow
<1>5. StoreInv'
  <2>1. StoreType'
    BY <1>1, <1>2, <1>3 DEF DInv, StoreInv, StoreType, Sequence
  <2>2. Rows'
    <3>1. \A i \in 1..Len(calls') :
              (i < Len(calls') => Completed(i)') /\ (Completed(i)' => calls'[i].outcome # "none")
      <4> SUFFICES ASSUME NEW i \in 1..Len(calls')
                   PROVE  (i < Len(calls') => Completed(i)') /\ (Completed(i)' => calls'[i].outcome # "none")
        OBVIOUS
      <4>1. CASE i \in 1..Len(calls)
        BY <1>1, <1>3, <4>1 DEF DInv, StoreInv, Rows, Completed
      <4>2. CASE i = Len(calls) + 1
        BY <1>1, <1>3, <1>4, <4>2 DEF Completed
      <4> QED
        BY <1>1, <1>3, <4>1, <4>2
    <3>2. \A i \in Sequence :
              waits[i] # "none" => i <= Len(calls') /\ Recovery[calls'[i].request] = "wait"
      BY <1>1, <1>3 DEF DInv, StoreInv, Rows, Sequence
    <3>3. \A i \in Sequence : effects[i] > 0 => applied[i] \in Answer
      BY DEF DInv, StoreInv, Rows
    <3> QED
      BY <1>1, <1>2, <3>1, <3>2, <3>3 DEF Rows, Sequence
  <2>3. EffectsAtMostOnce'
    <3>1. EffectsAtMostOnce /\ effects \in [Sequence -> 0..2]
      BY DEF DInv, StoreInv, StoreType
    <3> SUFFICES ASSUME NEW i \in Sequence, effects[i] > 0
                 PROVE  /\ i <= Len(calls') /\ calls'[i] = calls[i]
                        /\ Recovery[calls[i].request] \in {"retry", "lookup", "manual"}
                        /\ effects[i] > 1 => Recovery[calls[i].request] = "retry"
      <4>1. \A i \in Sequence : effects[i] > 1 => effects[i] > 0
        BY <3>1
      <4> QED
        BY <1>2, <4>1 DEF EffectsAtMostOnce
    <3>2. i \in 1..Len(calls)
      BY <1>1, <3>1 DEF EffectsAtMostOnce, Sequence
    <3> QED
      BY <1>1, <1>3, <3>1, <3>2 DEF EffectsAtMostOnce
  <2>4. WaitingExact'
    BY <1>1, <1>2 DEF DInv, StoreInv, WaitingExact
  <2>5. OutcomeIsAnswer'
    <3> SUFFICES ASSUME NEW i \in 1..Len(calls'), Completed(i)',
                        Recovery[calls'[i].request] \in {"retry", "lookup", "manual"}
                 PROVE  \/ calls'[i].outcome = applied[i]
                        \/ calls'[i].request \in External /\ calls'[i].outcome = "ctxErr"
      BY <1>2 DEF OutcomeIsAnswer
    <3>1. i \in 1..Len(calls)
      BY <1>1, <1>3, <1>4 DEF Completed
    <3> QED
      BY <1>3, <3>1 DEF DInv, StoreInv, OutcomeIsAnswer, Completed
  <2> QED
    BY <2>1, <2>2, <2>3, <2>4, <2>5 DEF StoreInv
<1>6. effects[At(p)] = 0
  <2>1. ~(effects[At(p)] > 0)
    BY <1>0, <1>1 DEF DInv, StoreInv, EffectsAtMostOnce
  <2> QED
    BY <1>1, <2>1 DEF DInv, StoreInv, StoreType
<1>7. /\ Len(calls) <= Len(calls') /\ Len(calls') = At(p)
      /\ calls'[At(p)].request = request[p] /\ calls'[At(p)].state # "completed"
      /\ \A i \in 1..Len(hist[p]) : calls'[i] = calls[i]
  BY <1>1, <1>3, <1>4
<1> QED
  BY <1>0, <1>2, <1>5, <1>6, <1>7, RouteStep DEF BeginNew

LEMMA BeginAgainStep ==
    ASSUME DInv, NEW p \in Proc, BeginAgain(p)
    PROVE  DInv'
<1>0. pc[p] \in JournalPC /\ pc[p] \in GuestPC /\ pc[p] = "begin" /\ At(p) <= Len(calls)
  BY DEF BeginAgain, JournalPC, GuestPC
<1>1. /\ StoreInv' /\ status' = status /\ calls' = calls /\ waits' = waits
      /\ effects' = effects /\ applied' = applied
  BY StoreKept DEF BeginAgain
<1>2. /\ Len(calls) = At(p) /\ ~Completed(At(p)) /\ Len(calls) \in Nat
  BY <1>0, AtLive
<1>3. CASE calls[At(p)].request # request[p]
  BY <1>0, <1>3, StopStep DEF BeginAgain
<1>4. CASE calls[At(p)].request = request[p]
  <2>1. Route(p, request[p], FALSE) /\ UNCHANGED <<storeVars, worldVars>>
    BY <1>4 DEF BeginAgain
  <2> QED
    BY <1>0, <1>1, <1>2, <1>4, <2>1, RouteStep DEF Completed
<1> QED
  BY <1>3, <1>4

LEMMA BeginConflictsStep ==
    ASSUME DInv, NEW p \in Proc, BeginConflicts(p)
    PROVE  DInv'
  BY StopStep DEF BeginConflicts, GuestPC, JournalPC

\* The stages of a live call whose row is committed.
LEMMA AtOpenRow ==
    ASSUME DInv, NEW p \in Proc, pc[p] \in JournalPC \ {"begin"}
    PROVE  /\ At(p) = Len(calls) /\ At(p) \in 1..Len(calls) /\ calls[At(p)].request = request[p]
           /\ ~Completed(At(p)) /\ calls[At(p)] \in Row
           /\ waits[At(p)] # "none" => Recovery[request[p]] = "wait"
           /\ Recovery[request[p]] \in {"retry", "lookup", "manual", "wait", "unknown"}
<1>1. /\ At(p) = Len(hist[p]) + 1 /\ At(p) \in Sequence /\ Stage(p) /\ Len(calls) \in Nat
      /\ \A i \in 1..Len(calls) : i > Len(hist[p]) => ~Completed(i)
      /\ Len(hist[p]) \in Nat /\ calls \in Seq(Row) /\ request[p] \in Request
  BY AtLive
<1>2. At(p) = Len(calls) /\ calls[At(p)].request = request[p]
  BY <1>1 DEF Stage
<1> QED
  BY <1>1, <1>2, DurableAssumption DEF DInv, StoreInv, Rows

\* A step that only moves the journal on.
LEMMA MoveStep ==
    ASSUME DInv, NEW p \in Proc, pc[p] \in JournalPC \ {"begin"},
           NEW s \in JournalPC \ {"begin"}, NEW o \in Durable \cup {"none"}, Goto(p, s, o),
           UNCHANGED <<storeVars, worldVars>>, Stage(p)'
    PROVE  DInv'
<1>1. StoreInv' /\ status' = status /\ calls' = calls
  BY StoreKept
<1>2. /\ Len(calls) \in Nat /\ status \in {"active", "waiting", "cancelled"}
      /\ \A i \in 1..Len(calls) : i > Len(hist[p]) => ~Completed(i)
  BY AtLive
<1> QED
  BY <1>1, <1>2, GotoStep DEF Completed

\* A response that may be stored, for the row of the call.
LEMMA ResponseStage ==
    ASSUME DInv, NEW p \in Proc, pc[p] \in JournalPC \ {"begin"},
           NEW o \in Durable, Goto(p, "complete", o),
           calls'[At(p)].request = calls[At(p)].request, Len(calls') = Len(calls),
           waits'[At(p)] \in {"none", o},
           request[p] \in Acts => \/ o = applied'[At(p)]
                                  \/ request[p] \in External /\ o = "ctxErr"
    PROVE  Stage(p)'
<1>1. /\ pc'[p] = "complete" /\ response'[p] = o /\ hist' = hist /\ live' = live /\ request' = request
      /\ At(p)' = At(p)
  BY DEF Goto, DInv, ProcType, At
<1>2. /\ p \in live /\ request[p] \in Request /\ request[p] \in Program(hist[p])
      /\ Len(hist[p]) < MaxToolCalls /\ At(p) = Len(calls) /\ calls[At(p)].request = request[p]
  BY DEF DInv, Attempt, Stage
<1> QED
  BY <1>1, <1>2 DEF Stage

LEMMA HostCallStep ==
    ASSUME DInv, NEW p \in Proc, NEW o \in Answer, HostCall(p, o)
    PROVE  DInv'
<1>0. pc[p] \in JournalPC \ {"begin"} /\ pc[p] \in JournalPC /\ pc[p] = "dispatch"
  BY DEF HostCall, JournalPC
<1>1. /\ At(p) = Len(calls) /\ At(p) \in 1..Len(calls) /\ calls[At(p)].request = request[p]
      /\ ~Completed(At(p)) /\ (waits[At(p)] # "none" => Recovery[request[p]] = "wait")
  BY <1>0, AtOpenRow
<1>2. /\ At(p) \in Sequence /\ status \in {"active", "waiting", "cancelled"} /\ request[p] \in Request
      /\ \A i \in 1..Len(calls) : i > Len(hist[p]) => ~Completed(i)
      /\ Len(calls) \in Nat
  BY <1>0, AtLive
<1>3. effects[At(p)] > 0 => Recovery[request[p]] = "retry"
  BY <1>0 DEF DInv, Attempt, Stage
<1>4. request[p] \in Acts
  BY <1>0 DEF DInv, Attempt, Stage
<1> DEFINE a == IF request[p] \in External /\ p \in ctxDone THEN "ctxErr" ELSE o
<1>5. /\ Goto(p, "complete", a) /\ status' = status /\ calls' = calls /\ waits' = waits
      /\ effects' = [effects EXCEPT ![At(p)] = IF @ < 2 THEN @ + 1 ELSE @]
      /\ applied' = [applied EXCEPT ![At(p)] = o]
  BY DEF HostCall, storeVars
<1>6. a \in Durable /\ (a = o \/ (request[p] \in External /\ a = "ctxErr"))
  <2>1. o \in Durable /\ "ctxErr" \in Durable
    BY DurableOutcomes
  <2> QED
    BY <2>1
<1> HIDE DEF a
<1>7. StoreInv'
  <2>1. StoreType'
    BY <1>2, <1>5 DEF DInv, StoreInv, StoreType
  <2>2. Rows'
    BY <1>2, <1>5 DEF DInv, StoreInv, StoreType, Rows, Completed
  <2>3. EffectsAtMostOnce'
    BY <1>1, <1>2, <1>3, <1>4, <1>5 DEF DInv, StoreInv, StoreType, EffectsAtMostOnce, Acts
  <2>4. WaitingExact'
    BY <1>5 DEF DInv, StoreInv, WaitingExact
  <2>5. OutcomeIsAnswer'
    BY <1>1, <1>5 DEF DInv, StoreInv, StoreType, OutcomeIsAnswer, Completed, Sequence
  <2> QED
    BY <2>1, <2>2, <2>3, <2>4, <2>5 DEF StoreInv
<1>8. Stage(p)'
  <2>1. waits'[At(p)] = "none"
    BY <1>1, <1>4, <1>5 DEF Acts
  <2>2. applied'[At(p)] = o
    BY <1>2, <1>5 DEF DInv, StoreInv, StoreType
  <2> QED
    BY <1>0, <1>5, <1>6, <2>1, <2>2, ResponseStage
<1> QED
  BY <1>0, <1>2, <1>5, <1>6, <1>7, <1>8, GotoStep DEF Completed, JournalPC

LEMMA HostCallRefusedStep ==
    ASSUME DInv, NEW p \in Proc, HostCallRefused(p)
    PROVE  DInv'
<1>0. /\ pc[p] \in JournalPC \ {"begin"} /\ pc[p] = "dispatch" /\ request[p] \in External
      /\ "ctxErr" \in Durable /\ Goto(p, "complete", "ctxErr") /\ "complete" \in JournalPC \ {"begin"}
  BY DEF HostCallRefused, JournalPC, Durable, Outcome
<1>1. waits[At(p)] = "none"
  <2>1. request[p] \in Acts /\ (waits[At(p)] # "none" => Recovery[request[p]] = "wait")
    BY <1>0, AtOpenRow DEF DInv, Attempt, Stage
  <2> QED
    BY <2>1 DEF Acts
<1>2. Stage(p)'
  BY <1>0, <1>1, ResponseStage, StoreKept DEF HostCallRefused
<1> QED
  BY <1>0, <1>2, MoveStep DEF HostCallRefused

LEMMA LookupResolvesStep ==
    ASSUME DInv, NEW p \in Proc, LookupResolves(p)
    PROVE  DInv'
<1>0. /\ pc[p] \in JournalPC \ {"begin"} /\ pc[p] \in GuestPC /\ pc[p] = "lookup"
      /\ {"complete", "dispatch"} \subseteq JournalPC \ {"begin"}
      /\ UNCHANGED <<storeVars, worldVars>>
  BY DEF LookupResolves, JournalPC, GuestPC
<1>1. /\ calls' = calls /\ waits' = waits /\ effects' = effects /\ applied' = applied
  BY <1>0, StoreKept
<1>2. /\ Recovery[request[p]] = "lookup" /\ waits[At(p)] = "none" /\ At(p) \in Sequence
      /\ Stage(p) /\ request[p] \in Request
  BY <1>0, AtOpenRow, AtLive DEF Stage
<1>3. CASE effects[At(p)] = 0 /\ Goto(p, "dispatch", "none")
  <2>1. /\ pc'[p] = "dispatch" /\ hist' = hist /\ live' = live /\ request' = request /\ At(p)' = At(p)
    BY <1>3 DEF Goto, DInv, ProcType, At
  <2>2. ~(effects[At(p)] > 0)
    BY <1>3
  <2>3. Stage(p)'
    BY <1>0, <1>1, <1>2, <2>1, <2>2 DEF Stage, Acts
  <2> QED
    BY <1>0, <1>3, <2>3, MoveStep
<1>4. CASE effects[At(p)] > 0 /\ Goto(p, "complete", applied[At(p)])
  <2>1. applied[At(p)] \in Durable
    BY <1>2, <1>4, DurableAssumption DEF DInv, StoreInv, Rows, Durable, Outcome
  <2>2. Stage(p)'
    BY <1>0, <1>1, <1>2, <1>4, <2>1, ResponseStage
  <2> QED
    BY <1>0, <1>4, <2>1, <2>2, MoveStep
<1>5. CASE Stop(p, "parked") \/ Stop(p, "blocked")
  BY <1>0, <1>5, StopStep
<1> QED
  BY <1>3, <1>4, <1>5 DEF LookupResolves

LEMMA CompleteStep ==
    ASSUME DInv, NEW p \in Proc, Complete(p)
    PROVE  DInv'
<1>0. pc[p] \in JournalPC \ {"begin"} /\ pc[p] \in JournalPC /\ pc[p] \in GuestPC /\ pc[p] = "complete"
  BY DEF Complete, JournalPC, GuestPC
<1>1. /\ At(p) = Len(calls) /\ At(p) \in 1..Len(calls) /\ calls[At(p)].request = request[p]
      /\ ~Completed(At(p)) /\ (waits[At(p)] # "none" => Recovery[request[p]] = "wait")
  BY <1>0, AtOpenRow
<1>2. /\ hist[p] \in Seq(Outcome) /\ Len(hist[p]) \in Nat /\ At(p) = Len(hist[p]) + 1
      /\ At(p) \in Sequence /\ calls \in Seq(Row) /\ Len(calls) \in Nat /\ MaxToolCalls \in Nat
      /\ \A i \in 1..Len(hist[p]) : Completed(i)
      /\ \A i \in 1..Len(hist[p]) : hist[p][i] = calls[i].outcome
      /\ Stage(p)
  BY <1>0, AtLive
<1> DEFINE o == response[p]
<1>3. /\ Persisted(p) = o /\ o \in Durable /\ o \in Outcome /\ waits[At(p)] \in {"none", o}
      /\ p \in live /\ window[p] = <<>> /\ Len(hist[p]) < MaxToolCalls
      /\ request[p] \in Acts => \/ o = applied[At(p)]
                                \/ request[p] \in External /\ o = "ctxErr"
  BY <1>0, <1>1, <1>2 DEF Persisted, Completed, Stage, Durable, DInv, Attempt, Ahead
<1>4. /\ calls' = [calls EXCEPT ![At(p)] = CallRow(calls[At(p)].request, "completed", o)]
      /\ Deliver(p, o) /\ window' = window /\ live' = live
      /\ status' = status /\ waits' = waits /\ effects' = effects /\ applied' = applied
  BY <1>3 DEF Complete, worldVars
<1> HIDE DEF o
<1>5. /\ calls' \in Seq(Row) /\ Len(calls') = Len(calls)
      /\ \A j \in 1..Len(calls) : j # At(p) => calls'[j] = calls[j]
      /\ calls'[At(p)].state = "completed" /\ calls'[At(p)].outcome = o
      /\ calls'[At(p)].request = calls[At(p)].request
  <2>1. /\ calls \in Seq(Row) /\ At(p) \in 1..Len(calls) /\ o \in Durable \cup {"none"}
        /\ calls' = [calls EXCEPT ![At(p)] = CallRow(calls[At(p)].request, "completed", o)]
    BY <1>1, <1>2, <1>3, <1>4, Zenon
  <2> QED
    BY <2>1, RowWritten
<1>6. o # "none" /\ o # "open"
  BY <1>3, DurableOutcomes
<1>7. StoreInv'
  <2>1. StoreType'
    BY <1>4, <1>5 DEF DInv, StoreInv, StoreType
  <2>2. Rows'
    BY <1>1, <1>2, <1>4, <1>5, <1>6 DEF DInv, StoreInv, Rows, Completed
  <2>3. EffectsAtMostOnce'
    <3>1. \A i \in 1..Len(calls) : calls'[i].request = calls[i].request
      BY <1>5
    <3>2. \A i \in Sequence : i <= Len(calls) => i \in 1..Len(calls)
      BY <1>2 DEF Sequence
    <3>3. \A i \in Sequence : effects[i] > 1 => effects[i] > 0
      BY DEF DInv, StoreInv, StoreType
    <3> QED
      BY <1>4, <1>5, <3>1, <3>2, <3>3 DEF DInv, StoreInv, EffectsAtMostOnce
  <2>4. WaitingExact'
    <3>1. waits[At(p)] # "open"
      BY <1>3, <1>6
    <3> QED
      BY <1>1, <1>2, <1>4, <1>5, <3>1 DEF DInv, StoreInv, WaitingExact
  <2>5. OutcomeIsAnswer'
    <3> SUFFICES ASSUME NEW i \in 1..Len(calls), calls'[i].state = "completed",
                        Recovery[calls'[i].request] \in {"retry", "lookup", "manual"}
                 PROVE  \/ calls'[i].outcome = applied[i]
                        \/ calls'[i].request \in External /\ calls'[i].outcome = "ctxErr"
      BY <1>4, <1>5 DEF OutcomeIsAnswer, Completed
    <3>1. CASE i = At(p)
      <4>1. request[p] \in Acts
        BY <1>0, <1>1, <1>5, <3>1, AtLive DEF Acts
      <4> QED
        BY <1>1, <1>3, <1>5, <3>1, <4>1
    <3>2. CASE i # At(p)
      BY <1>5, <3>2 DEF DInv, StoreInv, OutcomeIsAnswer, Completed
    <3> QED
      BY <3>1, <3>2
  <2> QED
    BY <2>1, <2>2, <2>3, <2>4, <2>5 DEF StoreInv
<1>8. hist'[p] = Append(hist[p], o)
  BY <1>4 DEF Deliver, DInv, ProcType
<1>9. /\ Len(hist'[p]) = Len(hist[p]) + 1
      /\ \A i \in 1..Len(hist[p]) : hist'[p][i] = hist[p][i]
      /\ hist'[p][Len(hist[p]) + 1] = o
  BY <1>2, <1>3, <1>8, HistoryGrows
<1>10. Seen(p)'
  <2> SUFFICES ASSUME NEW i \in 1..Len(hist'[p])
               PROVE  /\ i <= MaxToolCalls /\ i <= Len(calls') /\ calls'[i].state = "completed"
                      /\ hist'[p][i] = calls'[i].outcome
    BY DEF Seen, Completed
  <2>1. CASE i \in 1..Len(hist[p])
    <3>1. i \in 1..Len(calls) /\ i # At(p) /\ i <= MaxToolCalls
      BY <1>1, <1>2, <1>3, <2>1
    <3>2. calls'[i] = calls[i] /\ hist'[p][i] = hist[p][i]
      BY <1>5, <1>9, <2>1, <3>1
    <3> QED
      BY <1>2, <1>5, <2>1, <3>1, <3>2 DEF Completed
  <2>2. CASE i = At(p)
    <3>1. i \in 1..Len(calls) /\ i <= MaxToolCalls /\ hist'[p][i] = o
      BY <1>1, <1>2, <1>3, <1>9, <2>2
    <3> QED
      BY <1>5, <2>2, <3>1
  <2> QED
    BY <1>2, <1>9, <2>1, <2>2
<1>11. Ahead(p)'
  BY <1>1, <1>2, <1>3, <1>4, <1>5, <1>9 DEF Ahead
<1> QED
  <2>1. window' = [window EXCEPT ![p] = window[p]] /\ window[p] \in Seq(Row)
    BY <1>4 DEF DInv, ProcType
  <2> QED
    BY <1>0, <1>3, <1>4, <1>7, <1>10, <1>11, <2>1, DeliverStep

LEMMA WaitFoundStep ==
    ASSUME DInv, NEW p \in Proc, WaitFound(p)
    PROVE  DInv'
<1>0. /\ pc[p] \in JournalPC \ {"begin"} /\ pc[p] = "wait" /\ UNCHANGED <<storeVars, worldVars>>
      /\ {"waited", "complete"} \subseteq JournalPC \ {"begin"}
  BY DEF WaitFound, JournalPC
<1>1. /\ calls' = calls /\ waits' = waits /\ effects' = effects /\ applied' = applied
  BY <1>0, StoreKept
<1>2. Recovery[request[p]] = "wait" /\ Stage(p) /\ At(p) \in Sequence
  BY <1>0, AtLive DEF Stage
<1>3. CASE waits[At(p)] = "open" /\ Goto(p, "waited", "none")
  <2>1. /\ pc'[p] = "waited" /\ hist' = hist /\ live' = live /\ request' = request /\ At(p)' = At(p)
    BY <1>3 DEF Goto, DInv, ProcType, At
  <2>2. Stage(p)'
    BY <1>0, <1>1, <1>2, <1>3, <2>1 DEF Stage
  <2> QED
    BY <1>0, <1>3, <2>2, MoveStep
<1>4. CASE waits[At(p)] \notin {"none", "open"} /\ Goto(p, "complete", waits[At(p)])
  <2>1. waits[At(p)] \in Durable
    BY <1>2, <1>4 DEF DInv, StoreInv, StoreType
  <2>2. request[p] \notin Acts
    BY <1>2 DEF Acts
  <2>3. Stage(p)'
    BY <1>0, <1>1, <1>4, <2>1, <2>2, ResponseStage
  <2> QED
    BY <1>0, <1>4, <2>1, <2>3, MoveStep
<1> QED
  BY <1>3, <1>4 DEF WaitFound

LEMMA WaitDeclaredStep ==
    ASSUME DInv, NEW p \in Proc, WaitDeclared(p)
    PROVE  DInv'
<1>0. pc[p] \in JournalPC \ {"begin"} /\ pc[p] \in JournalPC /\ pc[p] \in GuestPC /\ pc[p] = "wait"
      /\ waits[At(p)] = "none"
  BY DEF WaitDeclared, JournalPC, GuestPC
<1>1. CASE status \in Settled
  BY <1>0, <1>1, StopStep DEF WaitDeclared, storeVars
<1>2. CASE status \notin Settled
  <2>1. /\ At(p) = Len(calls) /\ At(p) \in 1..Len(calls) /\ calls[At(p)].request = request[p]
        /\ ~Completed(At(p)) /\ calls[At(p)] \in Row
    BY <1>0, AtOpenRow
  <2>2. /\ Len(hist[p]) \in Nat /\ At(p) = Len(hist[p]) + 1
        /\ At(p) \in Sequence /\ calls \in Seq(Row) /\ Len(calls) \in Nat
        /\ Stage(p) /\ Recovery[request[p]] = "wait"
    BY <1>0, AtLive DEF Stage
  <2>3. /\ waits' = [waits EXCEPT ![At(p)] = "open"]
        /\ calls' = [calls EXCEPT ![At(p)] = CallRow(calls[At(p)].request, "waiting", calls[At(p)].outcome)]
        /\ status' = "waiting" /\ effects' = effects /\ applied' = applied
        /\ Goto(p, "waited", "none")
    BY <1>2 DEF WaitDeclared, worldVars
  <2>4. /\ calls' \in Seq(Row) /\ Len(calls') = Len(calls)
        /\ \A j \in 1..Len(calls) : j # At(p) => calls'[j] = calls[j]
        /\ calls'[At(p)].state = "waiting"
        /\ calls'[At(p)].request = calls[At(p)].request
    <3>1. calls[At(p)].outcome \in Durable \cup {"none"}
      BY <2>1 DEF Row
    <3> QED
      BY <2>1, <2>2, <2>3, <3>1, RowWritten
  <2>5. StoreInv'
    <3>1. StoreType'
      BY <2>2, <2>3, <2>4 DEF DInv, StoreInv, StoreType, Status
    <3>2. Rows'
      <4>1. \A i \in 1..Len(calls) :
                (i < Len(calls) => Completed(i)') /\ (Completed(i)' => calls'[i].outcome # "none")
        BY <2>1, <2>2, <2>4 DEF DInv, StoreInv, Rows, Completed
      <4>2. \A i \in Sequence :
                waits'[i] # "none" => i <= Len(calls) /\ Recovery[calls'[i].request] = "wait"
        BY <2>1, <2>2, <2>3, <2>4 DEF DInv, StoreInv, StoreType, Rows, Sequence
      <4> QED
        BY <2>3, <2>4, <4>1, <4>2 DEF DInv, StoreInv, Rows
    <3>3. EffectsAtMostOnce'
      <4>1. \A i \in 1..Len(calls) : calls'[i].request = calls[i].request
        BY <2>4
      <4>2. \A i \in Sequence : i <= Len(calls) => i \in 1..Len(calls)
        BY <2>2 DEF Sequence
      <4>3. \A i \in Sequence : effects[i] > 1 => effects[i] > 0
        BY DEF DInv, StoreInv, StoreType
      <4> QED
        BY <2>3, <2>4, <4>1, <4>2, <4>3 DEF DInv, StoreInv, EffectsAtMostOnce
    <3>4. WaitingExact'
      BY <1>0, <2>1, <2>2, <2>3, <2>4 DEF DInv, StoreInv, StoreType, WaitingExact
    <3>5. OutcomeIsAnswer'
      BY <2>1, <2>3, <2>4 DEF DInv, StoreInv, OutcomeIsAnswer, Completed
    <3> QED
      BY <3>1, <3>2, <3>3, <3>4, <3>5 DEF StoreInv
  <2>6. Stage(p)'
    <3>1. /\ pc'[p] = "waited" /\ hist' = hist /\ live' = live /\ request' = request /\ At(p)' = At(p)
      BY <2>3 DEF Goto, DInv, ProcType, At
    <3>2. waits'[At(p)] = "open"
      BY <2>2, <2>3 DEF DInv, StoreInv, StoreType
    <3> QED
      BY <1>0, <2>1, <2>2, <2>4, <3>1, <3>2 DEF Stage
  <2>7. /\ \A i \in 1..Len(hist[p]) : i <= Len(calls) => calls'[i] = calls[i]
        /\ \A i \in 1..Len(calls') : i > Len(hist[p]) => ~Completed(i)'
    <3>1. \A i \in 1..Len(hist[p]) : i \in 1..Len(calls) /\ i # At(p)
      BY <2>1, <2>2
    <3>2. \A i \in 1..Len(calls) : i > Len(hist[p]) => i = At(p)
      BY <2>1, <2>2
    <3> QED
      BY <2>4, <3>1, <3>2 DEF Completed
  <2>8. status \notin Terminal
    BY <1>2 DEF Settled
  <2> QED
    BY <1>0, <2>2, <2>3, <2>4, <2>5, <2>6, <2>7, <2>8, GotoStep DEF JournalPC
<1> QED
  BY <1>1, <1>2

LEMMA WaitExpiresStep ==
    ASSUME DInv, NEW p \in Proc, WaitExpires(p)
    PROVE  DInv'
<1>0. pc[p] \in JournalPC \ {"begin"} /\ pc[p] \in JournalPC /\ pc[p] \in GuestPC /\ pc[p] = "waited"
  BY DEF WaitExpires, JournalPC, GuestPC
<1>1. CASE waits[At(p)] # "open"
  BY <1>0, <1>1, StopStep DEF WaitExpires, storeVars
<1>2. CASE waits[At(p)] = "open"
  <2>1. /\ At(p) = Len(calls) /\ At(p) \in 1..Len(calls) /\ calls[At(p)].request = request[p]
    BY <1>0, AtOpenRow
  <2>2. /\ At(p) \in Sequence /\ Len(calls) \in Nat /\ Stage(p) /\ Recovery[request[p]] = "wait"
        /\ status \in {"active", "waiting", "cancelled"}
        /\ \A i \in 1..Len(calls) : i > Len(hist[p]) => ~Completed(i)
    BY <1>0, AtLive DEF Stage
  <2>3. /\ waits' = [waits EXCEPT ![At(p)] = "expired"] /\ calls' = calls
        /\ status' = IF status = "waiting" THEN "active" ELSE status
        /\ effects' = effects /\ applied' = applied
        /\ Goto(p, "complete", "expired")
    BY <1>2 DEF WaitExpires, worldVars
  <2>4. "expired" \in Durable /\ waits'[At(p)] = "expired" /\ request[p] \notin Acts
    BY <2>2, <2>3, DurableOutcomes DEF DInv, StoreInv, StoreType, Acts
  <2>5. StoreInv'
    <3>1. StoreType'
      BY <2>2, <2>3, <2>4 DEF DInv, StoreInv, StoreType, Status
    <3>2. Rows'
      <4>1. \A i \in Sequence :
                waits'[i] # "none" => i <= Len(calls) /\ Recovery[calls[i].request] = "wait"
        BY <2>1, <2>2, <2>3 DEF DInv, StoreInv, StoreType, Rows
      <4>2. status' # "absent"
        BY <2>2, <2>3
      <4> QED
        BY <2>3, <4>1, <4>2 DEF DInv, StoreInv, Rows, Completed
    <3>3. WaitingExact'
      BY <1>2, <2>1, <2>2, <2>3 DEF DInv, StoreInv, StoreType, WaitingExact
    <3>4. EffectsAtMostOnce' /\ OutcomeIsAnswer'
      BY <2>3 DEF DInv, StoreInv, EffectsAtMostOnce, OutcomeIsAnswer, Completed
    <3> QED
      BY <3>1, <3>2, <3>3, <3>4 DEF StoreInv
  <2>6. Stage(p)'
    BY <1>0, <2>3, <2>4, ResponseStage
  <2> QED
    BY <1>0, <2>2, <2>3, <2>4, <2>5, <2>6, GotoStep DEF Completed, JournalPC, Terminal
<1> QED
  BY <1>1, <1>2

-----------------------------------------------------------------------------
(* Resume, once RunRecorded returned, and failures. *)

LEMMA RereadStep ==
    ASSUME DInv, NEW p \in Proc, Reread(p)
    PROVE  DInv'
<1>0. pc[p] = "ended" /\ pc[p] # "idle" /\ UNCHANGED <<storeVars, worldVars>>
  BY DEF Reread
<1>1. StoreInv' /\ status' = status /\ calls' = calls
  BY <1>0, StoreKept
<1>2. CASE status = "cancelled" /\ Return(p, "cancelled")
  BY <1>0, <1>1, <1>2, ReturnStep DEF Status, Settled, Terminal
<1>3. CASE Return(p, "error") \/ Return(p, "parked")
  BY <1>0, <1>1, <1>3, ReturnStep DEF Terminal
<1>4. CASE /\ pc' = [pc EXCEPT ![p] = "settle"]
           /\ ended' = [ended EXCEPT ![p] =
                            IF @ \in {"completed", "failed"} /\ Consumed(p)
                            THEN @ ELSE "blocked"]
           /\ UNCHANGED <<lock, hist, window, live, request, response, read, ctxDone,
                          closed, report>>
  <2>1. lock = p /\ lock' = p /\ Attempt(p) /\ pc[p] \in ActivePC
    BY <1>0, <1>4 DEF DInv, Attempt, ActivePC
  <2>2. /\ pc'[p] = "settle" /\ ended'[p] \in {"completed", "failed", "blocked"}
        /\ ended'[p] # "blocked" => ended'[p] = ended[p] /\ Consumed(p)
    BY <1>4 DEF DInv, ProcType
  <2>3. ProcType' /\ ReportHonest'
    BY <1>1, <1>4 DEF DInv, ProcType, ReportHonest, ActivePC, Endings
  <2>4. ASSUME NEW q \in Proc PROVE Attempt(q)'
    <3>1. CASE q = p
      <4>1. Seen(p)' /\ Ahead(p)'
        BY <1>1, <1>4, <2>1 DEF Attempt, Seen, Ahead, Completed
      <4>2. Reads(p)' /\ Stage(p)'
        BY <1>1, <2>1, <2>2 DEF Attempt, Reads, Stage, ActivePC, GuestPC, JournalPC
      <4>3. Ends(p)'
        BY <1>0, <1>1, <1>4, <2>1, <2>2 DEF Attempt, Ends, Consumed
      <4> QED
        BY <1>4, <2>1, <2>2, <3>1, <4>1, <4>2, <4>3 DEF Attempt
    <3>2. CASE q # p
      BY <1>4, <2>1, <3>2, OthersIdle DEF DInv, ProcType
    <3> QED
      BY <3>1, <3>2
  <2> QED
    BY <1>1, <2>3, <2>4 DEF DInv
<1> QED
  BY <1>2, <1>3, <1>4 DEF Reread

\* A Guest that has seen every row has seen an outcome of each.
LEMMA ConsumedRows ==
    ASSUME DInv, NEW p \in Proc, Consumed(p)
    PROVE  \A i \in 1..Len(calls) : Completed(i) /\ hist[p][i] = calls[i].outcome
<1>1. /\ Seen(p) /\ Len(calls) \in Nat /\ Len(calls) <= MaxToolCalls /\ Len(hist[p]) \in Nat
      /\ MaxToolCalls \in Nat
  BY DurableAssumption DEF DInv, StoreInv, StoreType, ProcType, Attempt
<1> QED
  BY <1>1 DEF Seen, Consumed

LEMMA SettleStep ==
    ASSUME DInv, NEW p \in Proc, Settle(p)
    PROVE  DInv'
<1>0. /\ pc[p] = "settle" /\ pc[p] # "idle" /\ status \in {"active", "waiting", "cancelled"}
      /\ ended[p] \in {"completed", "failed", "blocked"}
      /\ ended[p] # "blocked" => Consumed(p)
      /\ calls' = calls /\ waits' = waits /\ effects' = effects /\ applied' = applied
  BY DEF Settle, DInv, Attempt, Ends, Reads, ActivePC, worldVars
<1>1. CASE status \in Terminal
  <2>1. status = "cancelled" /\ status' = status
    BY <1>0, <1>1 DEF Settle, Terminal
  <2>2. StoreInv'
    BY <1>0, <2>1 DEF DInv, StoreInv, StoreType, Rows, EffectsAtMostOnce, WaitingExact,
       OutcomeIsAnswer, Completed
  <2>3. CASE ended[p] = "blocked"
    BY <1>0, <1>1, <2>1, <2>2, <2>3, ReturnStep DEF Settle, Status, Settled, Terminal
  <2>4. CASE ended[p] # "blocked"
    BY <1>0, <1>1, <2>1, <2>2, <2>4, ReturnStep DEF Settle, Status, Settled, Terminal
  <2> QED
    BY <2>3, <2>4
<1>2. CASE status \notin Terminal
  <2>1. status' = ended[p] /\ Return(p, ended[p])
    BY <1>2 DEF Settle
  <2>2. ended[p] # "blocked" => \A i \in Sequence : waits[i] # "open"
    <3> SUFFICES ASSUME ended[p] # "blocked", NEW i \in Sequence, waits[i] = "open" PROVE FALSE
      OBVIOUS
    <3>1. i = Len(calls) /\ calls[i].state = "waiting" /\ i \in 1..Len(calls)
      BY DurableAssumption DEF DInv, StoreInv, WaitingExact, Sequence
    <3>2. Completed(i)
      BY <1>0, <3>1, ConsumedRows
    <3> QED
      BY <3>1, <3>2 DEF Completed
  <2>3. StoreInv'
    <3>1. StoreType' /\ Rows' /\ EffectsAtMostOnce' /\ OutcomeIsAnswer'
      BY <1>0, <2>1 DEF DInv, StoreInv, StoreType, Rows, EffectsAtMostOnce,
         OutcomeIsAnswer, Completed, Status, Settled, Terminal
    <3>2. WaitingExact'
      BY <1>0, <2>1, <2>2 DEF DInv, StoreInv, WaitingExact
    <3> QED
      BY <3>1, <3>2 DEF StoreInv
  <2> QED
    BY <1>0, <1>2, <2>1, <2>3, ReturnStep DEF Status, Settled, Terminal
<1> QED
  BY <1>1, <1>2

LEMMA StoreFailsStep ==
    ASSUME DInv, NEW p \in Proc, StoreFails(p)
    PROVE  DInv'
<1>0. UNCHANGED <<storeVars, worldVars>> /\ StoreInv' /\ status' = status
  BY StoreKept DEF StoreFails
<1>1. CASE pc[p] \in JournalPC \ {"dispatch"} /\ Stop(p, "infra")
  BY <1>0, <1>1, StopStep DEF GuestPC
<1>2. CASE pc[p] # "idle" /\ (Return(p, "blocked") \/ Return(p, "error"))
  BY <1>0, <1>2, ReturnStep DEF Status, Settled, Terminal
<1> QED
  BY <1>1, <1>2 DEF StoreFails

LEMMA CtxEndsStep ==
    ASSUME DInv, NEW p \in Proc, CtxEnds(p)
    PROVE  DInv'
<1>1. StoreInv' /\ status' = status /\ calls' = calls /\ waits' = waits
      /\ effects' = effects /\ applied' = applied
  BY StoreKept DEF CtxEnds
<1>2. ProcType' /\ ReportHonest'
  BY <1>1 DEF DInv, ProcType, ReportHonest, CtxEnds, guestVars
<1>3. ASSUME NEW q \in Proc PROVE Attempt(q)'
  <2>1. Attempt(q)
    BY DEF DInv
  <2>2. Seen(q)' /\ Ahead(q)' /\ Stage(q)' /\ Ends(q)' /\ Reads(q)'
    BY <1>1, <2>1 DEF Attempt, Seen, Ahead, Ends, Stage, Reads, Consumed, Completed, At, CtxEnds, guestVars
  <2> QED
    BY <2>1, <2>2 DEF Attempt, CtxEnds, guestVars
<1> QED
  BY <1>1, <1>2, <1>3 DEF DInv

LEMMA CrashStep ==
    ASSUME DInv, NEW p \in Proc, Crash(p)
    PROVE  DInv'
<1>1. StoreInv' /\ status' = status /\ calls' = calls /\ waits' = waits
      /\ effects' = effects /\ applied' = applied
  BY StoreKept DEF Crash
<1>2. ProcType'
  <2>1. "absent" \in Status /\ "none" \in Endings /\ "idle" \in ActivePC \cup {"idle", "opened"}
    BY DEF Status, Endings
  <2>2. <<>> \in Seq(Outcome) /\ <<>> \in Seq(Row)
    OBVIOUS
  <2> QED
    BY <2>1, <2>2 DEF DInv, ProcType, Crash
<1>3. ReportHonest'
  BY <1>1 DEF DInv, ProcType, ReportHonest, Crash, Terminal
<1>4. ASSUME NEW q \in Proc PROVE Attempt(q)'
  <2>1. CASE q = p
    BY <2>1, IdleAttempt, DurableAssumption DEF Crash, DInv, ProcType
  <2>2. CASE q # p
    <3>1. /\ Attempt(q) /\ pc'[q] = pc[q] /\ read'[q] = read[q] /\ hist'[q] = hist[q]
          /\ window'[q] = window[q] /\ request'[q] = request[q] /\ response'[q] = response[q]
          /\ ended'[q] = ended[q] /\ (q \in live' <=> q \in live) /\ (q \in closed' <=> q \in closed)
          /\ (lock' = q <=> lock = q)
      BY <2>2, DurableAssumption DEF Crash, DInv, ProcType
    <3>2. Seen(q)' /\ Ahead(q)' /\ Stage(q)' /\ Ends(q)' /\ Reads(q)'
      BY <1>1, <3>1 DEF Attempt, Seen, Ahead, Ends, Stage, Reads, Consumed, Completed, At
    <3> QED
      BY <3>1, <3>2 DEF Attempt
  <2> QED
    BY <2>1, <2>2
<1> QED
  BY <1>1, <1>2, <1>3, <1>4 DEF DInv

-----------------------------------------------------------------------------
(* The theorems. *)

LEMMA DurableStep == DInv /\ [Next]_vars => DInv'
<1> SUFFICES ASSUME DInv, [Next]_vars PROVE DInv'
  OBVIOUS
<1>1. ASSUME NEW p \in Proc, Create(p) \/ Close(p) PROVE DInv'
  BY <1>1, CreateStep, CloseStep
<1>2. ASSUME NEW p \in Proc, Journal(p) PROVE DInv'
  <2>1. CASE WaitParks(p)
    BY <2>1, StopStep DEF WaitParks, GuestPC, JournalPC
  <2> QED
    BY <1>2, <2>1, CallOverBudgetStep, CallReplayedStep, CallLiveStep, BeginNewStep, BeginAgainStep,
       BeginConflictsStep, HostCallStep, HostCallRefusedStep, CompleteStep, LookupResolvesStep,
       WaitFoundStep, WaitDeclaredStep, WaitExpiresStep DEF Journal
<1>3. ASSUME NEW p \in Proc, Resume(p) PROVE DInv'
  BY <1>2, <1>3, OpenStep, StartStep, RefuseDefinitionStep, GuestEndsStep, RereadStep, SettleStep
     DEF Resume
<1>4. ASSUME NEW p \in Proc, Fault(p) PROVE DInv'
  <2>1. CASE GuestFails(p)
    BY <2>1, StopStep DEF GuestFails, GuestPC
  <2> QED
    BY <1>4, <2>1, StoreFailsStep, CtxEndsStep, CrashStep DEF Fault
<1>5. ASSUME NEW i \in Sequence, NEW d \in Answer, Decide(i, d) PROVE DInv'
  BY <1>5, DecideStep
<1>6. CASE Cancel
  BY <1>6, CancelStep
<1>7. CASE UNCHANGED vars
  <2>1. StoreInv' /\ \A p \in Proc : Stage(p)'
    BY <1>7, StoreKept DEF vars, DInv, Attempt, Stage, At, procVars, guestVars, storeVars, worldVars
  <2> QED
    BY <1>7, <2>1, ControlStep DEF vars, storeVars, DInv, StoreInv, StoreType, Attempt, Reads
<1> QED
  BY <1>1, <1>3, <1>4, <1>5, <1>6, <1>7 DEF Next

LEMMA DurableInvariant == Spec => []DInv
  BY DurableInit, DurableStep, PTL DEF Spec

\* Whatever mixture of read-ahead, BeginCall and CompleteCall delivers them, a
\* Guest sees exactly the outcomes of the completed rows, in order: replay
\* (journal.Call and readCompleted) is faithful for every read-ahead.
THEOREM DurableReplayFaithful == Spec => []ReplayFaithful
<1>1. DInv => ReplayFaithful
  BY DEF DInv, Attempt, Seen, Ahead, ReplayFaithful
<1> QED
  BY <1>1, DurableInvariant, PTL

\* However often a run is crashed and resumed, a Manual call, or a Lookup call
\* with a truthful resolver, acts on the world at most once.
THEOREM DurableEffectsAtMostOnce == Spec => []EffectsAtMostOnce
<1>1. DInv => EffectsAtMostOnce
  BY DEF DInv, StoreInv
<1> QED
  BY <1>1, DurableInvariant, PTL

\* EnsureWait, ResolveWait, CompleteCall and SetState together keep the status
\* waiting exactly as long as the last row has an undecided wait.
THEOREM DurableWaitingExact == Spec => []WaitingExact
<1>1. DInv => WaitingExact
  BY DEF DInv, StoreInv
<1> QED
  BY <1>1, DurableInvariant, PTL

\* Claim, Close and the two closed checks of Resume: a Guest runs only under the
\* run's lock and never on a closed Runner.
THEOREM DurableGuestAllowed == Spec => []GuestAllowed
<1>1. DInv => GuestAllowed
  BY DEF DInv, Attempt, GuestAllowed
<1> QED
  BY <1>1, DurableInvariant, PTL

\* What Resume reported as the end of a run is, and stays, the status of it.
THEOREM DurableReportHonest == Spec => []ReportHonest
<1>1. DInv => ReportHonest
  BY DEF DInv
<1> QED
  BY <1>1, DurableInvariant, PTL

\* The durable outcome of a dispatched call is the tool's answer, except for an
\* ExternalIO tool whose context ended.
THEOREM DurableOutcomeIsAnswer == Spec => []OutcomeIsAnswer
<1>1. DInv => OutcomeIsAnswer
  BY DEF DInv, StoreInv
<1> QED
  BY <1>1, DurableInvariant, PTL

-----------------------------------------------------------------------------
(* The refinement: every step is a step of the log, or leaves it alone.    *)

\* A run that did not end by its program has no output.
Unended == status \notin {"completed", "failed"} => result = <<>>

\* The steps that write to the store; all others only read it.
LEMMA StoreSteps ==
    ASSUME [Next]_vars
    PROVE  \/ UNCHANGED storeVars
           \/ \E p \in Proc : \/ Create(p) \/ RefuseDefinition(p) \/ Settle(p) \/ BeginNew(p)
                              \/ Complete(p) \/ WaitDeclared(p) \/ WaitExpires(p)
           \/ \E i \in Sequence, d \in Answer : Decide(i, d)
           \/ Cancel
<1> DEFINE Goal == \/ UNCHANGED storeVars
                   \/ \E p \in Proc : \/ Create(p) \/ RefuseDefinition(p) \/ Settle(p) \/ BeginNew(p)
                                      \/ Complete(p) \/ WaitDeclared(p) \/ WaitExpires(p)
                   \/ \E i \in Sequence, d \in Answer : Decide(i, d)
                   \/ Cancel
<1>1. ASSUME NEW p \in Proc, Journal(p) PROVE Goal
  <2>1. ASSUME NEW r \in Request, CallOverBudget(p, r) \/ CallReplayed(p, r) \/ CallLive(p, r)
        PROVE  UNCHANGED storeVars
    BY <2>1 DEF CallOverBudget, CallReplayed, CallLive
  <2>2. ASSUME NEW o \in Answer, HostCall(p, o) PROVE UNCHANGED storeVars
    BY <2>2 DEF HostCall
  <2>3. CASE \/ BeginAgain(p) \/ BeginConflicts(p) \/ HostCallRefused(p) \/ LookupResolves(p)
             \/ WaitFound(p) \/ WaitParks(p)
    BY <2>3 DEF BeginAgain, BeginConflicts, HostCallRefused, LookupResolves, WaitFound, WaitParks
  <2> QED
    BY <1>1, <2>1, <2>2, <2>3 DEF Journal
<1>2. ASSUME NEW p \in Proc, Resume(p) PROVE Goal
  <2>1. CASE \/ Open(p) \/ OpenBlocked(p) \/ ReplayResult(p) \/ Register(p) \/ Recheck(p)
             \/ GuestEnds(p) \/ Reread(p)
    BY <2>1 DEF Open, OpenBlocked, ReplayResult, Register, Recheck, GuestEnds, Reread
  <2> QED
    BY <1>1, <1>2, <2>1 DEF Resume
<1>3. ASSUME NEW p \in Proc, Fault(p) \/ Close(p) PROVE Goal
  BY <1>3 DEF Fault, GuestFails, StoreFails, CtxEnds, Crash, Close
<1>4. CASE UNCHANGED vars
  BY <1>4 DEF vars
<1> QED
  BY <1>1, <1>2, <1>3, <1>4 DEF Next

LEMMA UnendedStep == DInv /\ Unended /\ [Next]_vars => Unended'
<1> SUFFICES ASSUME DInv, Unended, [Next]_vars PROVE Unended'
  OBVIOUS
<1>1. CASE UNCHANGED storeVars
  BY <1>1 DEF storeVars, Unended
<1>2. ASSUME NEW p \in Proc, Create(p) PROVE Unended'
  BY <1>2 DEF Create, Unended
<1>3. CASE Cancel
  BY <1>3 DEF Cancel, Unended
<1>4. ASSUME NEW i \in Sequence, NEW d \in Answer, Decide(i, d) PROVE Unended'
  BY <1>4 DEF Decide, Unended
<1>5. ASSUME NEW p \in Proc, RefuseDefinition(p) PROVE Unended'
  BY <1>5 DEF RefuseDefinition, Unended, Terminal
<1>6. ASSUME NEW p \in Proc, BeginNew(p) \/ Complete(p) \/ WaitDeclared(p) \/ WaitExpires(p)
      PROVE  Unended'
  <2>1. pc[p] \in ActivePC
    BY <1>6 DEF BeginNew, Complete, WaitDeclared, WaitExpires, ActivePC, GuestPC, JournalPC
  <2>2. status \in {"active", "waiting", "cancelled"}
    BY <2>1 DEF DInv, Attempt, Reads
  <2> QED
    BY <1>6, <2>2 DEF BeginNew, Complete, WaitDeclared, WaitExpires, Unended
<1>7. ASSUME NEW p \in Proc, Settle(p) PROVE Unended'
  BY <1>7 DEF Settle, Unended, DInv, Attempt, Ends
<1> QED
  BY <1>1, <1>2, <1>3, <1>4, <1>5, <1>6, <1>7, StoreSteps

LEMMA LogInitial == Init => Log!LogInit
  BY DEF Init, Log!LogInit, Log!Sequence, Sequence

\* Create, Decide and Cancel, which take no lock.
LEMMA ControlLogs ==
    /\ \A p \in Proc : Create(p) => Log!LogNext
    /\ \A i \in Sequence, d \in Answer : Decide(i, d) => Log!LogNext
    /\ Cancel => Log!LogNext
<1>1. \A p \in Proc : Create(p) => Log!LogCreate
  BY DEF Create, Log!LogCreate
<1>2. \A i \in Sequence, d \in Answer : Decide(i, d) => Log!LogResolve(i, d)
  BY DEF Decide, Log!LogResolve
<1>3. Cancel => Log!LogSettle("cancelled")
  BY DEF Cancel, Log!LogSettle, Log!Terminal, Terminal
<1>4. \A d \in Answer : d \in Outcome \ {"budget"}
  BY DurableOutcomes DEF Durable
<1> QED
  BY <1>1, <1>2, <1>3, <1>4 DEF Log!LogNext, Log!LogStep, Log!Sequence, Sequence

\* A Runner with other declarations settles the run, or finds it ended.
LEMMA RefuseLogs ==
    ASSUME DInv, Unended, NEW p \in Proc, RefuseDefinition(p)
    PROVE  Log!LogNext \/ UNCHANGED Log!logVars
<1>1. CASE status \in Terminal
  BY <1>1 DEF RefuseDefinition, Log!logVars
<1>2. CASE status \notin Terminal
  <2>1. status # "absent"
    BY DEF RefuseDefinition, DInv, Attempt, Reads
  <2>2. Log!LogSettle("blocked")
    BY <1>2, <2>1 DEF RefuseDefinition, Log!LogSettle, Log!Terminal, Terminal, Unended
  <2> QED
    BY <2>2 DEF Log!LogNext, Log!LogStep
<1> QED
  BY <1>1, <1>2

\* The intent is that of the call which the program makes after the outcomes in
\* the rows: the Guest has seen all of them.
LEMMA BeginLogs ==
    ASSUME DInv, NEW p \in Proc, BeginNew(p)
    PROVE  Log!LogNext
<1>0. pc[p] \in JournalPC /\ At(p) > Len(calls) /\ status \notin Settled \cup {"waiting"}
  BY DEF BeginNew, JournalPC
<1>1. /\ hist[p] \in Seq(Outcome) /\ Len(hist[p]) \in Nat /\ Len(calls) \in Nat
      /\ Len(calls) = Len(hist[p]) /\ status = "active" /\ request[p] \in Request
      /\ \A i \in 1..Len(calls) : Completed(i) /\ hist[p][i] = calls[i].outcome
      /\ request[p] \in Program(hist[p]) /\ Len(hist[p]) < MaxToolCalls
  BY <1>0, AtLive DEF Settled, Terminal, Stage
<1>2. Log!Outcomes = hist[p]
  BY <1>1 DEF Log!Outcomes
<1>3. Log!AllDone
  BY <1>1 DEF Log!AllDone, Log!Completed, Completed
<1>4. request[p] \in Program(Log!Outcomes)
  BY <1>1, <1>2
<1>5. Log!LogBegin(request[p])
  BY <1>1, <1>3, <1>4 DEF Log!LogBegin, BeginNew, CallRow, Log!CallRow
<1> QED
  BY <1>1, <1>5 DEF Log!LogNext, Log!LogStep

LEMMA CompleteLogs ==
    ASSUME DInv, NEW p \in Proc, Complete(p)
    PROVE  Log!LogNext
<1>0. pc[p] \in JournalPC \ {"begin"} /\ pc[p] \in JournalPC /\ pc[p] = "complete"
  BY DEF Complete, JournalPC
<1>1. /\ At(p) = Len(calls) /\ At(p) \in 1..Len(calls) /\ ~Completed(At(p))
      /\ status \in {"active", "waiting", "cancelled"} /\ Stage(p)
  BY <1>0, AtOpenRow, AtLive
<1>2. Persisted(p) = response[p] /\ response[p] \in Durable /\ waits[At(p)] \in {"none", response[p]}
  BY <1>0, <1>1 DEF Persisted, Completed, Stage
<1>3. calls # <<>>
  BY <1>1
<1>4. calls' = [calls EXCEPT ![Len(calls)] = CallRow(calls[Len(calls)].request, "completed", response[p])]
  BY <1>1, <1>2 DEF Complete
<1>5. Log!LogComplete(response[p])
  BY <1>1, <1>2, <1>3, <1>4 DEF Complete, Log!LogComplete, Log!Completed, Completed, CallRow, Log!CallRow
<1> QED
  BY <1>2, <1>5 DEF Log!LogNext, Log!LogStep, Durable

LEMMA WaitLogs ==
    ASSUME DInv, NEW p \in Proc, WaitDeclared(p) \/ WaitExpires(p)
    PROVE  Log!LogNext \/ UNCHANGED Log!logVars
<1>0. pc[p] \in JournalPC \ {"begin"} /\ pc[p] \in JournalPC
  BY DEF WaitDeclared, WaitExpires, JournalPC
<1>1. /\ At(p) = Len(calls) /\ At(p) \in 1..Len(calls) /\ ~Completed(At(p)) /\ At(p) \in Sequence
      /\ status \in {"active", "waiting", "cancelled"} /\ calls # <<>>
  BY <1>0, AtOpenRow, AtLive
<1>2. CASE WaitDeclared(p)
  <2>1. CASE status \in Settled
    BY <1>2, <2>1 DEF WaitDeclared, Log!logVars
  <2>2. CASE status \notin Settled
    <3>1. calls' = [calls EXCEPT ![Len(calls)] =
                        CallRow(calls[Len(calls)].request, "waiting", calls[Len(calls)].outcome)]
      BY <1>1, <1>2, <2>2 DEF WaitDeclared
    <3>2. Log!LogWait
      BY <1>1, <1>2, <2>2, <3>1 DEF WaitDeclared, Log!LogWait, Log!Completed, Completed, Log!Settled,
         Log!Terminal, Settled, Terminal, CallRow, Log!CallRow
    <3> QED
      BY <3>2 DEF Log!LogNext, Log!LogStep
  <2> QED
    BY <2>1, <2>2
<1>3. CASE WaitExpires(p)
  <2>1. CASE waits[At(p)] # "open"
    BY <1>3, <2>1 DEF WaitExpires, Log!logVars
  <2>2. CASE waits[At(p)] = "open"
    <3>1. Log!LogResolve(At(p), "expired")
      BY <1>3, <2>2 DEF WaitExpires, Log!LogResolve
    <3>2. "expired" \in Outcome \ {"budget"}
      BY DurableOutcomes DEF Durable
    <3> QED
      BY <1>1, <3>1, <3>2 DEF Log!LogNext, Log!LogStep, Log!Sequence, Sequence
  <2> QED
    BY <2>1, <2>2
<1> QED
  BY <1>2, <1>3

\* SetState stores an output only for a program that has seen every row and was
\* refused every call after them.
LEMMA SettleLogs ==
    ASSUME DInv, NEW p \in Proc, Settle(p)
    PROVE  Log!LogNext \/ UNCHANGED Log!logVars
<1>0. /\ pc[p] = "settle" /\ status \in {"active", "waiting", "cancelled"}
      /\ ended[p] \in {"completed", "failed", "blocked"} /\ Attempt(p)
      /\ ended[p] # "blocked" => Consumed(p)
      /\ ended[p] = "completed" => "return" \in Program(hist[p])
      /\ ended[p] = "failed" => "raise" \in Program(hist[p])
  BY DEF Settle, DInv, Attempt, Ends, Reads, ActivePC
<1>1. CASE status \in Terminal
  BY <1>1 DEF Settle, Log!logVars
<1>2. CASE status \notin Terminal /\ ended[p] = "blocked"
  <2>1. Log!LogSettle("blocked")
    BY <1>0, <1>2 DEF Settle, Log!LogSettle, Log!Terminal, Terminal
  <2> QED
    BY <2>1 DEF Log!LogNext, Log!LogStep
<1>3. CASE status \notin Terminal /\ ended[p] # "blocked"
  <2>1. /\ hist[p] \in Seq(Outcome) /\ Len(hist[p]) \in Nat /\ Len(calls) \in Nat /\ MaxToolCalls \in Nat
        /\ Len(calls) <= MaxToolCalls /\ Len(hist[p]) >= Len(calls)
    BY <1>0, <1>3, DurableAssumption DEF DInv, StoreInv, StoreType, ProcType, Consumed
  <2>2. \A i \in 1..Len(calls) : Completed(i) /\ hist[p][i] = calls[i].outcome
    BY <1>0, <1>3, ConsumedRows
  <2>3. ASSUME NEW i \in Len(calls) + 1 .. Len(hist[p])
        PROVE  /\ Len(calls) = MaxToolCalls /\ hist[p][i] = "budget"
               /\ \E r \in Request : r \in Program(SubSeq(hist[p], 1, i - 1))
    <3>1. Seen(p)
      BY <1>0 DEF Attempt
    <3>2. Len(calls) = MaxToolCalls
      <4>1. Len(calls) + 1 \in 1..Len(hist[p])
        BY <2>1
      <4>2. Len(calls) + 1 <= MaxToolCalls => Len(calls) + 1 <= Len(calls)
        BY <3>1, <4>1 DEF Seen
      <4> QED
        BY <2>1, <4>2
    <3>3. i \in 1..Len(hist[p]) /\ ~(i <= MaxToolCalls)
      BY <2>1, <3>2
    <3> QED
      BY <3>1, <3>2, <3>3 DEF Seen
  <2>4. Log!Ending(hist[p])
    BY <2>1, <2>2, <2>3 DEF Log!Ending
  <2>5. Log!AllDone
    BY <2>2 DEF Log!AllDone, Log!Completed, Completed
  <2>6. status' = ended[p] /\ result' = hist[p] /\ calls' = calls /\ waits' = waits
    BY <1>3 DEF Settle
  <2>7. (IF ended[p] = "completed" THEN "return" ELSE "raise") \in Program(result')
    BY <1>0, <1>3, <2>6
  <2>8. Log!Ending(result')
    BY <2>4, <2>6
  <2>9. Log!LogEnd(ended[p], result')
    BY <1>0, <1>3, <2>5, <2>6, <2>7, <2>8 DEF Log!LogEnd, Log!Settled, Log!Terminal, Terminal
  <2> QED
    BY <1>0, <1>3, <2>9 DEF Log!LogNext
<1> QED
  BY <1>1, <1>2, <1>3

LEMMA LogSteps == DInv /\ Unended /\ [Next]_vars => [Log!LogNext]_(Log!logVars)
<1> SUFFICES ASSUME DInv, Unended, [Next]_vars PROVE Log!LogNext \/ UNCHANGED Log!logVars
  OBVIOUS
<1>1. CASE UNCHANGED storeVars
  BY <1>1 DEF storeVars, Log!logVars
<1> QED
  BY <1>1, StoreSteps, ControlLogs, RefuseLogs, BeginLogs, CompleteLogs, WaitLogs, SettleLogs

\* The attempts of any number of processes, with their crashes and failures,
\* and Decide and Cancel racing with them, implement the log of one execution:
\* no row, outcome, decision or output is ever replaced, each intent is the call
\* that the program makes after the outcomes before it, and an output is what
\* the program ended with after all of them.
THEOREM DurableImplementsLog == Spec => ImplementsLog
<1>1. Init => Unended
  BY DEF Init, Unended
<1>2. Spec => []Unended
  BY <1>1, UnendedStep, DurableInvariant, PTL DEF Spec
<1> QED
  BY <1>2, LogInitial, LogSteps, DurableInvariant, PTL DEF Spec, ImplementsLog, Log!LogSpec
===============================================================================
