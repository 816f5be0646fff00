--------------------------- MODULE ExecutorProofs ---------------------------
(* Proofs about Executor, for every set of attempts and every limits. *)
EXTENDS Executor, FiniteSetTheorems, SequenceTheorems, TLAPS

-----------------------------------------------------------------------------
(* Removing an attempt from a queue. *)

\* The shift of removeReadyLocked and removeQueuedLocked removes the target
\* from a queue that holds it at most once, and nothing else.
LEMMA WithoutRemoves ==
    ASSUME NEW s \in Seq(Attempt), NEW a \in Attempt, Distinct(s)
    PROVE  /\ Without(s, a) \in Seq(Attempt)
           /\ Len(Without(s, a)) <= Len(s)
           /\ Distinct(Without(s, a))
           /\ Entries(Without(s, a)) = Entries(s) \ {a}
<1>1. CASE ~ \E i \in DOMAIN s : s[i] = a
  BY <1>1 DEF Without, Distinct, Entries
<1>2. CASE \E i \in DOMAIN s : s[i] = a
  <2> DEFINE k == FirstIndex(s, a)
             t == [j \in 1..(Len(s) - 1) |-> IF j < k THEN s[j] ELSE s[j + 1]]
  <2>1. PICK i \in DOMAIN s : s[i] = a
    BY <1>2
  <2>2. \A j \in 1..(i - 1) : s[j] # a
    BY <2>1 DEF Distinct
  <2>3. k \in DOMAIN s /\ s[k] = a
    BY <2>1, <2>2 DEF FirstIndex
  <2> HIDE DEF k
  <2>4. Without(s, a) = t
    BY <1>2 DEF Without, k
  <2>5. Len(s) \in Nat /\ DOMAIN s = 1..Len(s) /\ k \in 1..Len(s)
    BY <2>3
  <2>6. Len(s) - 1 \in Nat
    BY <2>5
  <2>7. \A j \in 1..(Len(s) - 1) : t[j] \in Attempt
    BY <2>5
  <2>8. t \in [1..(Len(s) - 1) -> Attempt]
    BY <2>7
  <2>9. t \in Seq(Attempt) /\ Len(t) = Len(s) - 1 /\ DOMAIN t = 1..(Len(s) - 1)
    BY <2>6, <2>8, IsASeq, LenProperties
  <2>10. Distinct(t)
    <3> SUFFICES ASSUME NEW m \in DOMAIN t, NEW n \in DOMAIN t, t[m] = t[n]
                 PROVE  m = n
      BY DEF Distinct
    <3> DEFINE at(j) == IF j < k THEN j ELSE j + 1
    <3>1. at(m) \in DOMAIN s /\ at(n) \in DOMAIN s
      BY <2>5, <2>9
    <3>2. t[m] = s[at(m)] /\ t[n] = s[at(n)]
      BY <2>5, <2>9
    <3>3. at(m) = at(n)
      BY <3>1, <3>2 DEF Distinct
    <3> QED
      BY <3>3, <2>5, <2>9
  <2>11. Entries(t) = Entries(s) \ {a}
    <3>1. ASSUME NEW j \in DOMAIN t PROVE t[j] \in Entries(s) \ {a}
      BY <3>1, <2>3, <2>5, <2>9 DEF Entries, Distinct
    <3>2. ASSUME NEW j \in DOMAIN s, s[j] # a PROVE s[j] \in Entries(t)
      <4>1. CASE j < k
        <5>1. j \in DOMAIN t /\ t[j] = s[j]
          BY <4>1, <2>5, <2>9
        <5> QED BY <5>1 DEF Entries
      <4>2. CASE j > k
        <5>1. j - 1 \in DOMAIN t /\ t[j - 1] = s[j]
          BY <4>2, <2>5, <2>9
        <5> QED BY <5>1 DEF Entries
      <4> QED
        BY <4>1, <4>2, <3>2, <2>3, <2>5
    <3> QED
      BY <3>1, <3>2 DEF Entries
  <2> QED
    BY <2>4, <2>5, <2>9, <2>10, <2>11
<1> QED
  BY <1>1, <1>2

\* Admit and reacquire append an attempt that is not yet in the queue.
LEMMA AppendAdds ==
    ASSUME NEW s \in Seq(Attempt), NEW a \in Attempt, Distinct(s), a \notin Entries(s)
    PROVE  /\ Append(s, a) \in Seq(Attempt)
           /\ Len(Append(s, a)) = Len(s) + 1
           /\ Distinct(Append(s, a))
           /\ Entries(Append(s, a)) = Entries(s) \cup {a}
<1> DEFINE t == Append(s, a)
<1>1. t \in Seq(Attempt) /\ Len(t) = Len(s) + 1 /\ Len(s) \in Nat
  OBVIOUS
<1>2. DOMAIN s = 1..Len(s) /\ DOMAIN t = 1..(Len(s) + 1)
  BY <1>1
<1>3. t[Len(s) + 1] = a /\ \A i \in DOMAIN s : t[i] = s[i]
  OBVIOUS
<1> HIDE DEF t
<1>4. Distinct(t)
  BY <1>1, <1>2, <1>3 DEF Distinct, Entries
<1>5. Entries(t) = Entries(s) \cup {a}
  <2>1. ASSUME NEW i \in DOMAIN t PROVE t[i] \in Entries(s) \cup {a}
    BY <1>1, <1>2, <1>3 DEF Entries
  <2>2. ASSUME NEW i \in DOMAIN s PROVE s[i] \in Entries(t)
    BY <1>1, <1>2, <1>3 DEF Entries
  <2>3. a \in Entries(t)
    BY <1>1, <1>2, <1>3 DEF Entries
  <2> QED
    BY <2>1, <2>2, <2>3 DEF Entries
<1> QED
  BY <1>1, <1>4, <1>5 DEF t

\* scheduleLocked pops the head of a queue.
LEMMA TailRemovesHead ==
    ASSUME NEW s \in Seq(Attempt), Distinct(s), s # <<>>
    PROVE  /\ Head(s) \in Attempt /\ Head(s) \in Entries(s)
           /\ Tail(s) \in Seq(Attempt)
           /\ Distinct(Tail(s))
           /\ Entries(Tail(s)) = Entries(s) \ {Head(s)}
<1> DEFINE t == Tail(s)
<1>1. t \in Seq(Attempt) /\ Len(t) = Len(s) - 1 /\ Len(s) \in Nat \ {0}
  OBVIOUS
<1>2. DOMAIN s = 1..Len(s) /\ DOMAIN t = 1..(Len(s) - 1)
  BY <1>1
<1>3. Head(s) = s[1] /\ \A i \in DOMAIN t : t[i] = s[i + 1]
  OBVIOUS
<1> HIDE DEF t
<1>4. Distinct(t)
  <2> SUFFICES ASSUME NEW i \in DOMAIN t, NEW j \in DOMAIN t, t[i] = t[j] PROVE i = j
    BY DEF Distinct
  <2>1. i + 1 \in DOMAIN s /\ j + 1 \in DOMAIN s /\ s[i + 1] = s[j + 1]
    BY <1>1, <1>2, <1>3
  <2>2. i + 1 = j + 1
    BY <2>1 DEF Distinct
  <2> QED
    BY <2>2, <1>1, <1>2
<1>5. Entries(t) = Entries(s) \ {Head(s)}
  <2>1. ASSUME NEW i \in DOMAIN t PROVE t[i] \in Entries(s) \ {Head(s)}
    <3>1. i + 1 \in DOMAIN s /\ 1 \in DOMAIN s /\ i + 1 # 1
      BY <1>1, <1>2
    <3> QED
      BY <3>1, <1>3 DEF Entries, Distinct
  <2>2. ASSUME NEW i \in DOMAIN s, s[i] # Head(s) PROVE s[i] \in Entries(t)
    <3>1. i - 1 \in DOMAIN t /\ (i - 1) + 1 = i
      BY <1>1, <1>2, <1>3, <2>2
    <3> QED
      BY <3>1, <1>3 DEF Entries
  <2> QED
    BY <2>1, <2>2 DEF Entries
<1>6. Head(s) \in Attempt /\ Head(s) \in Entries(s)
  BY <1>1, <1>2, <1>3 DEF Entries
<1> QED
  BY <1>1, <1>4, <1>5, <1>6 DEF t

-----------------------------------------------------------------------------
(* One attempt changes its state, or its goroutine moves. *)

\* The values of attempt.state, each named where the sets of values hide it.
LEMMA StateValues ==
    /\ {"new", "queued", "running", "waitingLive", "ready", "done"}
         = LiveState \cup {"new", "done"}
    /\ {"running", "waitingLive", "ready"} = ResidentState
    /\ \A v \in {"new", "queued", "done"} : v \notin ResidentState
  BY DEF LiveState, ResidentState

\* The set of attempts in a state loses the attempt, or gains it, or neither.
LEMMA StateMoves ==
    ASSUME TypeOK, NEW a \in Attempt, NEW v \in LiveState \cup {"new", "done"},
           state' = [state EXCEPT ![a] = v]
    PROVE  /\ Running'  = IF v = "running" THEN Running \cup {a} ELSE Running \ {a}
           /\ Ready'    = IF v = "ready" THEN Ready \cup {a} ELSE Ready \ {a}
           /\ Queued'   = IF v = "queued" THEN Queued \cup {a} ELSE Queued \ {a}
           /\ Resident' = IF v \in ResidentState THEN Resident \cup {a} ELSE Resident \ {a}
<1>1. state \in [Attempt -> LiveState \cup {"new", "done"}]
  BY DEF TypeOK, TypeAttempts
<1>2. Running' = IF v = "running" THEN Running \cup {a} ELSE Running \ {a}
  BY <1>1 DEF Running
<1>3. Ready' = IF v = "ready" THEN Ready \cup {a} ELSE Ready \ {a}
  BY <1>1 DEF Ready
<1>4. Queued' = IF v = "queued" THEN Queued \cup {a} ELSE Queued \ {a}
  BY <1>1 DEF Queued
<1>5. Resident' = IF v \in ResidentState THEN Resident \cup {a} ELSE Resident \ {a}
  BY <1>1 DEF Resident
<1> QED
  BY <1>2, <1>3, <1>4, <1>5

\* The size of a set of attempts after one attempt enters or leaves it.
LEMMA CountMoves ==
    ASSUME NEW S \in SUBSET Attempt, NEW a \in Attempt
    PROVE  /\ Cardinality(S) \in Nat
           /\ a \notin S => Cardinality(S \cup {a}) = Cardinality(S) + 1
           /\ a \in S => /\ Cardinality(S \ {a}) = Cardinality(S) - 1
                         /\ Cardinality(S) # 0
           /\ a \in S => S \cup {a} = S
           /\ a \notin S => S \ {a} = S
<1>1. IsFiniteSet(S)
  BY AttemptAssumption, FS_Subset
<1>2. Cardinality(S) \in Nat
  BY <1>1, FS_CardinalityType
<1>3. a \notin S => Cardinality(S \cup {a}) = Cardinality(S) + 1
  BY <1>1, FS_AddElement
<1>4. a \in S => Cardinality(S \ {a}) = Cardinality(S) - 1
  BY <1>1, FS_RemoveElement
<1>5. a \in S => Cardinality(S) # 0
  BY <1>1, FS_EmptySet
<1>6. (a \in S => S \cup {a} = S) /\ (a \notin S => S \ {a} = S)
  OBVIOUS
<1> QED
  BY <1>2, <1>3, <1>4, <1>5, <1>6

\* What one attempt's change of state does to the two counts.
LEMMA Tally ==
    ASSUME TypeOK, NEW a \in Attempt, NEW v \in LiveState \cup {"new", "done"},
           state' = [state EXCEPT ![a] = v]
    PROVE  /\ Cardinality(Running) \in Nat /\ Cardinality(Resident) \in Nat
           /\ Cardinality(Running') =
                IF v = "running"
                THEN IF state[a] = "running" THEN Cardinality(Running) ELSE Cardinality(Running) + 1
                ELSE IF state[a] = "running" THEN Cardinality(Running) - 1 ELSE Cardinality(Running)
           /\ Cardinality(Resident') =
                IF v \in ResidentState
                THEN IF state[a] \in ResidentState THEN Cardinality(Resident) ELSE Cardinality(Resident) + 1
                ELSE IF state[a] \in ResidentState THEN Cardinality(Resident) - 1 ELSE Cardinality(Resident)
           /\ state[a] = "running" => Cardinality(Running) # 0
           /\ state[a] \in ResidentState => Cardinality(Resident) # 0
<1>1. Running \in SUBSET Attempt /\ (a \in Running <=> state[a] = "running")
  BY DEF Running
<1>2. Resident \in SUBSET Attempt /\ (a \in Resident <=> state[a] \in ResidentState)
  BY DEF Resident
<1>3. /\ Running'  = IF v = "running" THEN Running \cup {a} ELSE Running \ {a}
      /\ Resident' = IF v \in ResidentState THEN Resident \cup {a} ELSE Resident \ {a}
  BY StateMoves
<1>4. /\ Cardinality(Running) \in Nat
      /\ Cardinality(Running') =
           IF v = "running"
           THEN IF state[a] = "running" THEN Cardinality(Running) ELSE Cardinality(Running) + 1
           ELSE IF state[a] = "running" THEN Cardinality(Running) - 1 ELSE Cardinality(Running)
      /\ state[a] = "running" => Cardinality(Running) # 0
  BY <1>1, <1>3, CountMoves
<1>5. /\ Cardinality(Resident) \in Nat
      /\ Cardinality(Resident') =
           IF v \in ResidentState
           THEN IF state[a] \in ResidentState THEN Cardinality(Resident) ELSE Cardinality(Resident) + 1
           ELSE IF state[a] \in ResidentState THEN Cardinality(Resident) - 1 ELSE Cardinality(Resident)
      /\ state[a] \in ResidentState => Cardinality(Resident) # 0
  BY <1>2, <1>3, CountMoves
<1> QED
  BY <1>4, <1>5

\* What one goroutine's move does to the number of calls in flight.
LEMMA GateMoves ==
    ASSUME TypeOK, NEW a \in Attempt,
           NEW v \in {"none", "guest", "acquire", "call", "relock", "permit"},
           gate' = [gate EXCEPT ![a] = v]
    PROVE  /\ Cardinality(Calling) \in Nat
           /\ Cardinality(Calling') =
                IF v = "call"
                THEN IF gate[a] = "call" THEN Cardinality(Calling) ELSE Cardinality(Calling) + 1
                ELSE IF gate[a] = "call" THEN Cardinality(Calling) - 1 ELSE Cardinality(Calling)
           /\ gate[a] = "call" => Cardinality(Calling) # 0
<1>1. Calling \in SUBSET Attempt /\ (a \in Calling <=> gate[a] = "call")
  BY DEF Calling
<1>2. Calling' = IF v = "call" THEN Calling \cup {a} ELSE Calling \ {a}
  BY DEF Calling, TypeOK, TypeAttempts
<1> QED
  BY <1>1, <1>2, CountMoves

-----------------------------------------------------------------------------
(* The inductive invariant: the counters are exact because the queues hold  *)
(* exactly the attempts whose state says so, and the goroutine that moves   *)
(* an attempt on is where that state says it is.                            *)

IInv == TypeOK /\ GateAgrees /\ QueuesExact /\ CapacityExact

\* What an action may do to the attempts that IInv speaks of is nothing.
Untouched == UNCHANGED <<queue, ready, running, resident, external, state, permit, gate>>

\* A step that keeps the types and touches no queue, counter, state, permit or
\* goroutine keeps the invariant.
LEMMA UntouchedStep ==
    ASSUME IInv, Untouched, TypeOK' PROVE IInv'
<1>1. GateAgrees'
  BY DEF IInv, Untouched, GateAgrees
<1>2. QueuesExact'
  BY DEF IInv, Untouched, QueuesExact, Queued, Ready
<1>3. CapacityExact'
  BY DEF IInv, Untouched, CapacityExact, Running, Resident, Calling
<1> QED
  BY <1>1, <1>2, <1>3 DEF IInv

\* NewExecutor establishes the invariant: nothing is queued, running or calling.
LEMMA InitIInv == Init => IInv
<1> SUFFICES ASSUME Init PROVE IInv
  OBVIOUS
<1>1. TypeOK
  <2>1. TypeFlags
    BY DEF Init, TypeFlags
  <2>2. TypeQueues
    BY LimitsAssumption DEF Init, TypeQueues
  <2>3. TypeAttempts
    BY DEF Init, TypeAttempts
  <2> QED
    BY <2>1, <2>2, <2>3 DEF TypeOK
<1>2. GateAgrees
  BY DEF Init, GateAgrees
<1>3. Running = {} /\ Ready = {} /\ Queued = {} /\ Resident = {}
  BY DEF Init, Running, Ready, Queued, Resident, ResidentState
<1>4. QueuesExact
  BY <1>3 DEF Init, QueuesExact, Distinct, Entries
<1>5. Calling = {}
  BY DEF Init, Calling
<1>6. CapacityExact
  <2>2. Cardinality({}) = 0
    BY FS_EmptySet
  <2>3. running = 0 /\ resident = 0 /\ external = 0
    BY DEF Init
  <2>4. 0 <= MaxRunning /\ 0 <= MaxResident /\ 0 <= MaxInflightTools
    BY LimitsAssumption
  <2> QED
    BY <1>3, <1>5, <2>2, <2>3, <2>4 DEF CapacityExact
<1> QED
  BY <1>1, <1>2, <1>4, <1>6 DEF IInv

-----------------------------------------------------------------------------
(* Each action preserves the invariant.                                     *)

\* Admit's direct start takes a running slot and a residence for a new attempt.
LEMMA AdmitNowStep ==
    ASSUME IInv, NEW a \in Attempt, AdmitNow(a) PROVE IInv'
<1> USE DEF IInv
<1>1. TypeOK'
  <2>1. TypeFlags'
    BY DEF TypeOK, TypeFlags, AdmitNow
  <2>2. TypeQueues'
    BY LimitsAssumption DEF TypeOK, TypeQueues, AdmitNow
  <2>3. TypeAttempts'
    BY AttemptAssumption DEF TypeOK, TypeAttempts, AdmitNow, LiveState, ResidentState
  <2> QED
    BY <2>1, <2>2, <2>3 DEF TypeOK
<1>2. GateAgrees'
  BY DEF TypeOK, TypeAttempts, GateAgrees, AdmitNow, Admissible
<1>3. state[a] = "new" /\ state' = [state EXCEPT ![a] = "running"]
  BY DEF AdmitNow, Admissible
<1>4. QueuesExact'
  <2>1. Queued' = Queued \ {a} /\ Ready' = Ready \ {a}
    BY <1>3, StateMoves, StateValues
  <2>2. a \notin Queued /\ a \notin Ready
    BY <1>3 DEF Queued, Ready
  <2> QED
    BY <2>1, <2>2 DEF QueuesExact, AdmitNow
<1>5. CapacityExact'
  <2>1. /\ Cardinality(Running') = Cardinality(Running) + 1
        /\ Cardinality(Resident') = Cardinality(Resident) + 1
    BY <1>3, Tally, StateValues
  <2>2. Cardinality(Calling') = Cardinality(Calling)
    BY <1>3, GateMoves DEF AdmitNow, GateAgrees
  <2> QED
    BY <2>1, <2>2, LimitsAssumption DEF TypeOK, TypeQueues, CapacityExact, AdmitNow
<1> QED
  BY <1>1, <1>2, <1>4, <1>5

\* Admit's other form appends a new attempt to the queue and moves no counter.
LEMMA AdmitQueuedStep ==
    ASSUME IInv, NEW a \in Attempt, AdmitQueued(a) PROVE IInv'
<1> USE DEF IInv
<1>1. TypeOK'
  <2>1. TypeFlags'
    BY DEF TypeOK, TypeFlags, AdmitQueued
  <2>2. TypeQueues'
    BY LimitsAssumption DEF TypeOK, TypeQueues, AdmitQueued
  <2>3. TypeAttempts'
    BY AttemptAssumption DEF TypeOK, TypeAttempts, AdmitQueued, LiveState, ResidentState
  <2> QED
    BY <2>1, <2>2, <2>3 DEF TypeOK
<1>2. GateAgrees'
  BY DEF TypeOK, TypeAttempts, GateAgrees, AdmitQueued, Admissible
<1>3. state[a] = "new" /\ state' = [state EXCEPT ![a] = "queued"]
  BY DEF AdmitQueued, Admissible
<1>4. QueuesExact'
  <2>1. Queued' = Queued \cup {a} /\ Ready' = Ready \ {a}
    BY <1>3, StateMoves, StateValues
  <2>2. a \notin Entries(queue) /\ a \notin Ready
    BY <1>3 DEF QueuesExact, Queued, Ready
  <2>3. Distinct(queue') /\ Entries(queue') = Entries(queue) \cup {a}
    BY <2>2, AppendAdds DEF QueuesExact, TypeOK, TypeQueues, AdmitQueued
  <2> QED
    BY <2>1, <2>2, <2>3 DEF QueuesExact, AdmitQueued
<1>5. CapacityExact'
  <2>1. /\ Cardinality(Running') = Cardinality(Running)
        /\ Cardinality(Resident') = Cardinality(Resident)
    BY <1>3, Tally, StateValues
  <2> QED
    BY <2>1 DEF CapacityExact, Calling, AdmitQueued
<1> QED
  BY <1>1, <1>2, <1>4, <1>5

\* dropQueuedResultLocked, called by Cancel and abort, moves no counter.
LEMMA DropQueuedStep ==
    ASSUME IInv, NEW a \in Attempt, NEW why \in {"cancelled", "ctxErr"},
           state[a] = "queued", DropQueued(a, why),
           UNCHANGED <<closed, ready, readyBurst, running, resident, external, permit,
                       gate, mutex, passed>>,
           aborting' \in SUBSET Attempt, cancelling' \in SUBSET Run
    PROVE  IInv'
<1> USE DEF IInv
<1>1. /\ queue' \in Seq(Attempt)
      /\ Distinct(queue') /\ Entries(queue') = Entries(queue) \ {a}
  BY WithoutRemoves DEF TypeOK, TypeQueues, QueuesExact, DropQueued
<1>2. TypeOK'
  <2>1. TypeFlags'
    BY DEF TypeOK, TypeFlags, DropQueued, MaybeDrain
  <2>2. TypeQueues'
    BY <1>1 DEF TypeOK, TypeQueues
  <2>3. TypeAttempts'
    BY AttemptAssumption DEF TypeOK, TypeAttempts, DropQueued, LiveState, ResidentState
  <2> QED
    BY <2>1, <2>2, <2>3 DEF TypeOK
<1>3. GateAgrees'
  BY DEF TypeOK, TypeAttempts, GateAgrees, DropQueued
<1>4. state' = [state EXCEPT ![a] = "done"] /\ "done" \in LiveState \cup {"new", "done"}
  BY DEF DropQueued
<1>5. QueuesExact'
  <2>1. Queued' = Queued \ {a} /\ Ready' = Ready \ {a}
    BY <1>4, StateMoves
  <2>2. a \notin Ready
    BY DEF Ready
  <2> QED
    BY <1>1, <2>1, <2>2 DEF QueuesExact
<1>6. CapacityExact'
  <2>1. /\ Cardinality(Running') = Cardinality(Running)
        /\ Cardinality(Resident') = Cardinality(Resident)
    BY <1>4, Tally, StateValues
  <2> QED
    BY <2>1 DEF CapacityExact, Calling
<1> QED
  BY <1>2, <1>3, <1>5, <1>6

\* The part of Cancel before the mutex only ends contexts.
LEMMA CancelCommitStep ==
    ASSUME IInv, NEW r \in Run, CancelCommit(r) PROVE IInv'
<1> USE DEF IInv
<1>1. TypeOK'
  <2>1. TypeFlags'
    BY DEF TypeOK, TypeFlags, CancelCommit, executorVars, Resident
  <2>2. TypeQueues'
    BY LimitsAssumption DEF TypeOK, TypeQueues, CancelCommit, executorVars, Resident
  <2>3. TypeAttempts'
    BY AttemptAssumption DEF TypeOK, TypeAttempts, CancelCommit, executorVars, Resident, LiveState, ResidentState
  <2> QED
    BY <2>1, <2>2, <2>3 DEF TypeOK
<1>2. Untouched
  BY DEF Untouched, CancelCommit, executorVars, Resident
<1> QED
  BY <1>1, <1>2, UntouchedStep

\* The critical section of Cancel drops a queued attempt or ends a context.
LEMMA CancelLockedStep ==
    ASSUME IInv, NEW r \in Run, CancelLocked(r) PROVE IInv'
<1> USE DEF IInv
<1> DEFINE a == attempts[r]
<1>1. a # NoAttempt => a \in Attempt
  BY DEF TypeOK, TypeAttempts
<1>2. cancelling' \in SUBSET Run /\ aborting' \in SUBSET Attempt
  BY DEF TypeOK, TypeAttempts, CancelLocked
<1>3. CASE a # NoAttempt /\ state[a] = "queued" /\ DropQueued(a, "cancelled")
  BY <1>1, <1>2, <1>3, DropQueuedStep DEF CancelLocked
<1>4. CASE /\ UNCHANGED <<queue, state, attempts, outcome, drained>>
           /\ ctxDone' \in SUBSET Attempt
  <2>1. Untouched
    BY <1>4 DEF Untouched, CancelLocked
  <2>2. TypeFlags'
    BY <1>4 DEF TypeOK, TypeFlags, CancelLocked
  <2>3. TypeQueues'
    BY <1>4 DEF TypeOK, TypeQueues, CancelLocked
  <2>4. TypeAttempts'
    BY <1>2, <1>4 DEF TypeOK, TypeAttempts, CancelLocked
  <2> QED
    BY <2>1, <2>2, <2>3, <2>4, UntouchedStep DEF TypeOK
<1> QED
  BY <1>1, <1>3, <1>4 DEF CancelLocked, TypeOK, TypeAttempts

\* The end of a caller's context touches no queue and no counter.
LEMMA SubmitDoneStep ==
    ASSUME IInv, NEW a \in Attempt, SubmitDone(a) PROVE IInv'
<1> USE DEF IInv
<1>1. TypeOK'
  <2>1. TypeFlags'
    BY DEF TypeOK, TypeFlags, SubmitDone, executorVars
  <2>2. TypeQueues'
    BY LimitsAssumption DEF TypeOK, TypeQueues, SubmitDone, executorVars
  <2>3. TypeAttempts'
    BY AttemptAssumption DEF TypeOK, TypeAttempts, SubmitDone, executorVars, LiveState, ResidentState
  <2> QED
    BY <2>1, <2>2, <2>3 DEF TypeOK
<1>2. Untouched
  BY DEF Untouched, SubmitDone, executorVars
<1> QED
  BY <1>1, <1>2, UntouchedStep

\* abort drops the attempt if it still is queued, and only then.
LEMMA AbortStep ==
    ASSUME IInv, NEW a \in Attempt, Abort(a) PROVE IInv'
<1> USE DEF IInv
<1>1. cancelling' \in SUBSET Run /\ aborting' \in SUBSET Attempt
  BY DEF TypeOK, TypeAttempts, Abort
<1>2. CASE state[a] = "queued"
  BY <1>1, <1>2, DropQueuedStep DEF Abort
<1>3. CASE state[a] # "queued"
  <2>1. Untouched
    BY <1>3 DEF Untouched, Abort
  <2>2. TypeFlags'
    BY <1>3 DEF TypeOK, TypeFlags, Abort
  <2>3. TypeQueues'
    BY <1>3 DEF TypeOK, TypeQueues, Abort
  <2>4. TypeAttempts'
    BY <1>1, <1>3 DEF TypeOK, TypeAttempts, Abort
  <2> QED
    BY <2>1, <2>2, <2>3, <2>4, UntouchedStep DEF TypeOK
<1> QED
  BY <1>2, <1>3

\* Close sets closed, and drains if nothing is live.
LEMMA CloseStep ==
    ASSUME IInv, Close PROVE IInv'
<1> USE DEF IInv
<1>1. TypeOK'
  <2>1. TypeFlags'
    BY DEF TypeOK, TypeFlags, Close, attemptVars, MaybeDrain
  <2>2. TypeQueues'
    BY LimitsAssumption DEF TypeOK, TypeQueues, Close, attemptVars
  <2>3. TypeAttempts'
    BY AttemptAssumption DEF TypeOK, TypeAttempts, Close, attemptVars, LiveState, ResidentState
  <2> QED
    BY <2>1, <2>2, <2>3 DEF TypeOK
<1>2. Untouched
  BY DEF Untouched, Close, attemptVars
<1> QED
  BY <1>1, <1>2, UntouchedStep

\* finish releases the slot and the residence of an attempt that had them.
LEMMA FinishStep ==
    ASSUME IInv, NEW a \in Attempt, Finish(a) PROVE IInv'
<1> USE DEF IInv
<1>0. /\ ready' \in Seq(Attempt)
      /\ Distinct(ready') /\ Entries(ready') = Entries(ready) \ {a}
  BY WithoutRemoves DEF TypeOK, TypeQueues, QueuesExact, Finish, Finished
<1>a. state' = [state EXCEPT ![a] = "done"] /\ "done" \in LiveState \cup {"new", "done"}
  BY DEF Finish, Finished
<1>b. /\ Cardinality(Running') =
           IF state[a] = "running" THEN Cardinality(Running) - 1 ELSE Cardinality(Running)
      /\ Cardinality(Resident') = Cardinality(Resident) - 1
      /\ Cardinality(Running) \in Nat /\ Cardinality(Resident) \in Nat
      /\ state[a] = "running" => Cardinality(Running) # 0
      /\ Cardinality(Resident) # 0
  BY <1>a, Tally, StateValues DEF Finish, Finished
<1>c. running' \in Nat /\ resident' \in Nat
  BY <1>b DEF CapacityExact, Finish, Finished
<1>1. TypeOK'
  <2>1. TypeFlags'
    BY DEF TypeOK, TypeFlags, Finish, Finished
  <2>2. TypeQueues'
    BY <1>0, <1>c DEF TypeOK, TypeQueues, Finish, Finished
  <2>3. TypeAttempts'
    BY AttemptAssumption DEF TypeOK, TypeAttempts, Finish, Finished, LiveState, ResidentState
  <2> QED
    BY <2>1, <2>2, <2>3 DEF TypeOK
<1>2. GateAgrees'
  BY DEF TypeOK, TypeAttempts, GateAgrees, Finish, Finished
<1>3. QueuesExact'
  <2>1. Queued' = Queued \ {a} /\ Ready' = Ready \ {a}
    BY <1>a, StateMoves
  <2>2. a \notin Queued /\ a \notin Ready
    BY DEF Queued, Ready, Finish, Finished, GateAgrees, ResidentState
  <2> QED
    BY <1>0, <2>1, <2>2 DEF QueuesExact, Finish, Finished
<1>4. CapacityExact'
  <2>1. Cardinality(Calling') = Cardinality(Calling)
    BY GateMoves DEF Finish, Finished
  <2> QED
    BY <1>b, <2>1, LimitsAssumption DEF CapacityExact, Finish, Finished
<1> QED
  BY <1>1, <1>2, <1>3, <1>4

\* yield gives the slot up and keeps the residence.
LEMMA YieldStep ==
    ASSUME IInv, NEW a \in Attempt, Yield(a) PROVE IInv'
<1> USE DEF IInv
<1>a. /\ state[a] = "running" /\ state' = [state EXCEPT ![a] = "waitingLive"]
      /\ "waitingLive" \in LiveState \cup {"new", "done"}
  BY StateValues DEF Yield
<1>b. /\ Cardinality(Running') = Cardinality(Running) - 1
      /\ Cardinality(Resident') = Cardinality(Resident)
      /\ Cardinality(Running) \in Nat \ {0} /\ Cardinality(Resident) \in Nat
  BY <1>a, Tally, StateValues
<1>c. running' \in Nat
  BY <1>b DEF CapacityExact, Yield
<1>1. TypeOK'
  <2>1. TypeFlags'
    BY DEF TypeOK, TypeFlags, Yield
  <2>2. TypeQueues'
    BY <1>c DEF TypeOK, TypeQueues, Yield
  <2>3. TypeAttempts'
    BY AttemptAssumption DEF TypeOK, TypeAttempts, Yield, LiveState, ResidentState
  <2> QED
    BY <2>1, <2>2, <2>3 DEF TypeOK
<1>2. GateAgrees'
  BY DEF TypeOK, TypeAttempts, GateAgrees, Yield
<1>3. QueuesExact'
  <2>1. Queued' = Queued \ {a} /\ Ready' = Ready \ {a}
    BY <1>a, StateMoves
  <2>2. a \notin Queued /\ a \notin Ready
    BY <1>a DEF Queued, Ready
  <2> QED
    BY <2>1, <2>2 DEF QueuesExact, Yield
<1>4. CapacityExact'
  <2>1. Cardinality(Calling') = Cardinality(Calling)
    BY GateMoves DEF Yield
  <2> QED
    BY <1>b, <2>1, LimitsAssumption DEF CapacityExact, Yield
<1> QED
  BY <1>1, <1>2, <1>3, <1>4

\* An inflight token is taken by the goroutine that becomes one more caller.
LEMMA AcquireExternalStep ==
    ASSUME IInv, NEW a \in Attempt, AcquireExternal(a) PROVE IInv'
<1> USE DEF IInv
<1>a. Cardinality(Calling') = Cardinality(Calling) + 1 /\ Cardinality(Calling) \in Nat
  BY GateMoves DEF AcquireExternal
<1>1. TypeOK'
  <2>1. TypeFlags'
    BY DEF TypeOK, TypeFlags, AcquireExternal
  <2>2. TypeQueues'
    BY DEF TypeOK, TypeQueues, AcquireExternal
  <2>3. TypeAttempts'
    BY DEF TypeOK, TypeAttempts, AcquireExternal
  <2> QED
    BY <2>1, <2>2, <2>3 DEF TypeOK
<1>2. GateAgrees'
  BY DEF TypeOK, TypeAttempts, GateAgrees, QueuesExact, Ready, AcquireExternal
<1>3. QueuesExact'
  BY DEF QueuesExact, Queued, Ready, AcquireExternal
<1>4. CapacityExact'
  <2>1. Running' = Running /\ Resident' = Resident
    BY DEF Running, Resident, AcquireExternal
  <2> QED
    BY <1>a, <2>1, LimitsAssumption DEF CapacityExact, AcquireExternal
<1> QED
  BY <1>1, <1>2, <1>3, <1>4

\* A failed yield leaves the attempt resident without a slot.
LEMMA YieldFailsStep ==
    ASSUME IInv, NEW a \in Attempt, YieldFails(a) PROVE IInv'
<1> USE DEF IInv
<1>a. Cardinality(Calling') = Cardinality(Calling) /\ Cardinality(Calling) \in Nat
  BY GateMoves DEF YieldFails
<1>1. TypeOK'
  <2>1. TypeFlags'
    BY DEF TypeOK, TypeFlags, YieldFails, executorVars
  <2>2. TypeQueues'
    BY DEF TypeOK, TypeQueues, YieldFails, executorVars
  <2>3. TypeAttempts'
    BY DEF TypeOK, TypeAttempts, YieldFails, executorVars
  <2> QED
    BY <2>1, <2>2, <2>3 DEF TypeOK
<1>2. GateAgrees'
  BY DEF TypeOK, TypeAttempts, GateAgrees, QueuesExact, Ready, YieldFails, executorVars
<1>3. QueuesExact'
  BY DEF QueuesExact, Queued, Ready, YieldFails, executorVars
<1>4. CapacityExact'
  <2>1. Running' = Running /\ Resident' = Resident
    BY DEF Running, Resident, YieldFails, executorVars
  <2> QED
    BY <1>a, <2>1, LimitsAssumption DEF CapacityExact, YieldFails, executorVars
<1> QED
  BY <1>1, <1>2, <1>3, <1>4

\* reacquire gives back the token its goroutine held.
LEMMA CallReturnsStep ==
    ASSUME IInv, NEW a \in Attempt, CallReturns(a) PROVE IInv'
<1> USE DEF IInv
<1>a. Cardinality(Calling') = Cardinality(Calling) - 1 /\ Cardinality(Calling) # 0 /\ Cardinality(Calling) \in Nat
  BY GateMoves DEF CallReturns
<1>c. external' \in Nat
  BY <1>a DEF CapacityExact, CallReturns
<1>1. TypeOK'
  <2>1. TypeFlags'
    BY DEF TypeOK, TypeFlags, CallReturns
  <2>2. TypeQueues'
    BY <1>c DEF TypeOK, TypeQueues, CallReturns
  <2>3. TypeAttempts'
    BY DEF TypeOK, TypeAttempts, CallReturns
  <2> QED
    BY <2>1, <2>2, <2>3 DEF TypeOK
<1>2. GateAgrees'
  BY DEF TypeOK, TypeAttempts, GateAgrees, QueuesExact, Ready, CallReturns
<1>3. QueuesExact'
  BY DEF QueuesExact, Queued, Ready, CallReturns
<1>4. CapacityExact'
  <2>1. Running' = Running /\ Resident' = Resident
    BY DEF Running, Resident, CallReturns
  <2> QED
    BY <1>a, <2>1, LimitsAssumption DEF CapacityExact, CallReturns
<1> QED
  BY <1>1, <1>2, <1>3, <1>4

\* A done context fails reacquire before it takes a slot.
LEMMA ReacquireFailsStep ==
    ASSUME IInv, NEW a \in Attempt, ReacquireFails(a) PROVE IInv'
<1> USE DEF IInv
<1>a. Cardinality(Calling') = Cardinality(Calling) /\ Cardinality(Calling) \in Nat
  BY GateMoves DEF ReacquireFails
<1>1. TypeOK'
  <2>1. TypeFlags'
    BY DEF TypeOK, TypeFlags, ReacquireFails, executorVars
  <2>2. TypeQueues'
    BY DEF TypeOK, TypeQueues, ReacquireFails, executorVars
  <2>3. TypeAttempts'
    BY DEF TypeOK, TypeAttempts, ReacquireFails, executorVars
  <2> QED
    BY <2>1, <2>2, <2>3 DEF TypeOK
<1>2. GateAgrees'
  BY DEF TypeOK, TypeAttempts, GateAgrees, QueuesExact, Ready, ReacquireFails, executorVars
<1>3. QueuesExact'
  BY DEF QueuesExact, Queued, Ready, ReacquireFails, executorVars
<1>4. CapacityExact'
  <2>1. Running' = Running /\ Resident' = Resident
    BY DEF Running, Resident, ReacquireFails, executorVars
  <2> QED
    BY <1>a, <2>1, LimitsAssumption DEF CapacityExact, ReacquireFails, executorVars
<1> QED
  BY <1>1, <1>2, <1>3, <1>4

\* A goroutine whose permit was closed holds the slot already.
LEMMA PermitGrantedStep ==
    ASSUME IInv, NEW a \in Attempt, PermitGranted(a) PROVE IInv'
<1> USE DEF IInv
<1>a. Cardinality(Calling') = Cardinality(Calling) /\ Cardinality(Calling) \in Nat
  BY GateMoves DEF PermitGranted, Resumes
<1>1. TypeOK'
  <2>1. TypeFlags'
    BY DEF TypeOK, TypeFlags, PermitGranted, Resumes
  <2>2. TypeQueues'
    BY DEF TypeOK, TypeQueues, PermitGranted, Resumes
  <2>3. TypeAttempts'
    BY DEF TypeOK, TypeAttempts, PermitGranted, Resumes
  <2> QED
    BY <2>1, <2>2, <2>3 DEF TypeOK
<1>2. GateAgrees'
  BY DEF TypeOK, TypeAttempts, GateAgrees, QueuesExact, Ready, PermitGranted, Resumes
<1>3. QueuesExact'
  BY DEF QueuesExact, Queued, Ready, PermitGranted, Resumes
<1>4. CapacityExact'
  <2>1. Running' = Running /\ Resident' = Resident
    BY DEF Running, Resident, PermitGranted, Resumes
  <2> QED
    BY <1>a, <2>1, LimitsAssumption DEF CapacityExact, PermitGranted, Resumes
<1> QED
  BY <1>1, <1>2, <1>3, <1>4

\* reacquire takes a free slot for an attempt that is resident already.
LEMMA ReacquireRunsStep ==
    ASSUME IInv, NEW a \in Attempt, ReacquireRuns(a) PROVE IInv'
<1> USE DEF IInv
<1>1. TypeOK'
  <2>1. TypeFlags'
    BY DEF TypeOK, TypeFlags, ReacquireRuns
  <2>2. TypeQueues'
    BY DEF TypeOK, TypeQueues, ReacquireRuns, Overtakes
  <2>3. TypeAttempts'
    BY DEF TypeOK, TypeAttempts, ReacquireRuns, LiveState, ResidentState
  <2> QED
    BY <2>1, <2>2, <2>3 DEF TypeOK
<1>2. GateAgrees'
  BY DEF TypeOK, TypeAttempts, GateAgrees, ReacquireRuns
<1>a. /\ state[a] = "waitingLive" /\ state' = [state EXCEPT ![a] = "running"]
      /\ "running" \in LiveState \cup {"new", "done"}
  BY StateValues DEF ReacquireRuns, GateAgrees
<1>3. QueuesExact'
  <2>1. Queued' = Queued \ {a} /\ Ready' = Ready \ {a}
    BY <1>a, StateMoves
  <2>2. a \notin Queued /\ a \notin Ready
    BY <1>a DEF Queued, Ready
  <2> QED
    BY <2>1, <2>2 DEF QueuesExact, ReacquireRuns
<1>4. CapacityExact'
  <2>1. /\ Cardinality(Running') = Cardinality(Running) + 1
        /\ Cardinality(Resident') = Cardinality(Resident)
    BY <1>a, Tally, StateValues
  <2>2. Cardinality(Calling') = Cardinality(Calling)
    BY GateMoves DEF ReacquireRuns
  <2> QED
    BY <2>1, <2>2, LimitsAssumption DEF TypeOK, TypeQueues, CapacityExact, ReacquireRuns
<1> QED
  BY <1>1, <1>2, <1>3, <1>4

\* reacquire without a free slot enters the ready queue once, with a permit.
LEMMA ReacquireWaitsStep ==
    ASSUME IInv, NEW a \in Attempt, ReacquireWaits(a) PROVE IInv'
<1> USE DEF IInv
<1>a. /\ state[a] = "waitingLive" /\ state' = [state EXCEPT ![a] = "ready"]
      /\ "ready" \in LiveState \cup {"new", "done"}
  BY StateValues DEF ReacquireWaits, ReacquireQueues, GateAgrees
<1>b. a \notin Queued /\ a \notin Ready
  BY <1>a DEF Queued, Ready
<1>c. /\ ready' \in Seq(Attempt)
      /\ Distinct(ready') /\ Entries(ready') = Entries(ready) \cup {a}
  BY <1>b, AppendAdds DEF QueuesExact, TypeOK, TypeQueues, ReacquireWaits, ReacquireQueues
<1>1. TypeOK'
  <2>1. TypeFlags'
    BY DEF TypeOK, TypeFlags, ReacquireWaits, ReacquireQueues
  <2>2. TypeQueues'
    BY <1>c DEF TypeOK, TypeQueues, ReacquireWaits, ReacquireQueues
  <2>3. TypeAttempts'
    BY DEF TypeOK, TypeAttempts, ReacquireWaits, ReacquireQueues, LiveState, ResidentState
  <2> QED
    BY <2>1, <2>2, <2>3 DEF TypeOK
<1>2. GateAgrees'
  BY DEF TypeOK, TypeAttempts, GateAgrees, ReacquireWaits, ReacquireQueues
<1>3. QueuesExact'
  <2>1. Queued' = Queued \ {a} /\ Ready' = Ready \cup {a}
    BY <1>a, StateMoves
  <2> QED
    BY <1>b, <1>c, <2>1 DEF QueuesExact, ReacquireWaits, ReacquireQueues
<1>4. CapacityExact'
  <2>1. /\ Cardinality(Running') = Cardinality(Running)
        /\ Cardinality(Resident') = Cardinality(Resident)
    BY <1>a, Tally, StateValues
  <2>2. Cardinality(Calling') = Cardinality(Calling)
    BY GateMoves DEF ReacquireWaits, ReacquireQueues
  <2> QED
    BY <2>1, <2>2, LimitsAssumption DEF TypeOK, TypeQueues, CapacityExact, ReacquireWaits, ReacquireQueues
<1> QED
  BY <1>1, <1>2, <1>3, <1>4

\* A context that ends during the wait takes the attempt out of the ready
\* queue, unless the permit was granted first: then it keeps its slot.
LEMMA PermitAbandonedStep ==
    ASSUME IInv, NEW a \in Attempt, PermitAbandoned(a) PROVE IInv'
<1> USE DEF IInv
<1>a. Cardinality(Calling') = Cardinality(Calling)
  BY GateMoves DEF PermitAbandoned, Resumes
<1>1. CASE state[a] = "ready"
  <2>a. /\ state' = [state EXCEPT ![a] = "waitingLive"]
        /\ "waitingLive" \in LiveState \cup {"new", "done"}
    BY <1>1, StateValues DEF PermitAbandoned, Resumes
  <2>b. /\ ready' \in Seq(Attempt)
        /\ Distinct(ready') /\ Entries(ready') = Entries(ready) \ {a}
    BY <1>1, WithoutRemoves DEF TypeOK, TypeQueues, QueuesExact, PermitAbandoned, Resumes
  <2>1. TypeOK'
    <3>1. TypeFlags'
      BY DEF TypeOK, TypeFlags, PermitAbandoned, Resumes
    <3>2. TypeQueues'
      BY <2>b DEF TypeOK, TypeQueues, PermitAbandoned, Resumes
    <3>3. TypeAttempts'
      BY <1>1 DEF TypeOK, TypeAttempts, PermitAbandoned, Resumes, LiveState, ResidentState
    <3> QED
      BY <3>1, <3>2, <3>3 DEF TypeOK
  <2>2. GateAgrees'
    BY <1>1 DEF TypeOK, TypeAttempts, GateAgrees, PermitAbandoned, Resumes
  <2>3. QueuesExact'
    <3>1. Queued' = Queued \ {a} /\ Ready' = Ready \ {a}
      BY <2>a, StateMoves
    <3>2. a \notin Queued
      BY <1>1 DEF Queued
    <3>3. permit' = permit \ {a} /\ queue' = queue
      BY <1>1 DEF PermitAbandoned, Resumes
    <3> QED
      BY <2>b, <3>1, <3>2, <3>3 DEF QueuesExact
  <2>4. CapacityExact'
    <3>1. /\ Cardinality(Running') = Cardinality(Running)
          /\ Cardinality(Resident') = Cardinality(Resident)
      BY <1>1, <2>a, Tally, StateValues
    <3> QED
      BY <1>a, <3>1 DEF CapacityExact, PermitAbandoned, Resumes
  <2> QED
    BY <2>1, <2>2, <2>3, <2>4
<1>2. CASE state[a] # "ready"
  <2>a. UNCHANGED <<ready, state, permit>>
    BY <1>2 DEF PermitAbandoned, Resumes
  <2>1. TypeOK'
    <3>1. TypeFlags'
      BY DEF TypeOK, TypeFlags, PermitAbandoned, Resumes
    <3>2. TypeQueues'
      BY <2>a DEF TypeOK, TypeQueues, PermitAbandoned, Resumes
    <3>3. TypeAttempts'
      BY <2>a DEF TypeOK, TypeAttempts, PermitAbandoned, Resumes
    <3> QED
      BY <3>1, <3>2, <3>3 DEF TypeOK
  <2>2. GateAgrees'
    BY <1>2, <2>a DEF TypeOK, TypeAttempts, GateAgrees, PermitAbandoned, Resumes
  <2>3. QueuesExact'
    BY <2>a DEF QueuesExact, Queued, Ready, PermitAbandoned, Resumes
  <2>4. CapacityExact'
    <3>1. Running' = Running /\ Resident' = Resident
      BY <2>a DEF Running, Resident
    <3> QED
      BY <1>a, <3>1 DEF CapacityExact, PermitAbandoned, Resumes
  <2> QED
    BY <2>1, <2>2, <2>3, <2>4
<1> QED
  BY <1>1, <1>2

\* scheduleLocked hands the slot to the head of the ready queue.
LEMMA ScheduleReadyStep ==
    ASSUME IInv, ScheduleReady PROVE IInv'
<1> USE DEF IInv
<1> DEFINE a == Head(ready)
<1>a. /\ a \in Attempt /\ a \in Entries(ready)
      /\ ready' \in Seq(Attempt) /\ Distinct(ready')
      /\ Entries(ready') = Entries(ready) \ {a}
  BY TailRemovesHead DEF TypeOK, TypeQueues, QueuesExact, ScheduleReady, PickReady
<1>b. /\ state[a] = "ready" /\ state' = [state EXCEPT ![a] = "running"]
      /\ permit' = permit \ {a}
      /\ "running" \in LiveState \cup {"new", "done"}
  BY <1>a, StateValues DEF QueuesExact, Ready, ScheduleReady
<1> HIDE DEF a
<1>1. TypeOK'
  <2>1. TypeFlags'
    BY DEF TypeOK, TypeFlags, ScheduleReady
  <2>2. TypeQueues'
    BY <1>a, LimitsAssumption DEF TypeOK, TypeQueues, ScheduleReady, Overtakes
  <2>3. TypeAttempts'
    BY <1>a, <1>b DEF TypeOK, TypeAttempts, ScheduleReady
  <2> QED
    BY <2>1, <2>2, <2>3 DEF TypeOK
<1>2. GateAgrees'
  BY <1>a, <1>b DEF TypeOK, TypeAttempts, GateAgrees, ScheduleReady
<1>3. QueuesExact'
  <2>1. Queued' = Queued \ {a} /\ Ready' = Ready \ {a}
    BY <1>a, <1>b, StateMoves
  <2>2. a \notin Queued
    BY <1>b DEF Queued
  <2> QED
    BY <1>a, <1>b, <2>1, <2>2 DEF QueuesExact, ScheduleReady
<1>4. CapacityExact'
  <2>1. /\ Cardinality(Running') = Cardinality(Running) + 1
        /\ Cardinality(Resident') = Cardinality(Resident)
    BY <1>a, <1>b, Tally, StateValues
  <2>2. Calling' = Calling
    BY DEF Calling, ScheduleReady
  <2> QED
    BY <2>1, <2>2, LimitsAssumption DEF TypeOK, TypeQueues, CapacityExact, ScheduleReady
<1> QED
  BY <1>1, <1>2, <1>3, <1>4

\* scheduleLocked starts the head of the queue.
LEMMA ScheduleQueuedStep ==
    ASSUME IInv, ScheduleQueued PROVE IInv'
<1> USE DEF IInv
<1> DEFINE a == Head(queue)
<1>a. /\ a \in Attempt /\ a \in Entries(queue)
      /\ queue' \in Seq(Attempt) /\ Distinct(queue')
      /\ Entries(queue') = Entries(queue) \ {a}
  BY TailRemovesHead DEF TypeOK, TypeQueues, QueuesExact, ScheduleQueued, CanAdmit
<1>b. /\ state[a] = "queued" /\ state' = [state EXCEPT ![a] = "running"]
      /\ gate' = [gate EXCEPT ![a] = "guest"]
      /\ "running" \in LiveState \cup {"new", "done"}
  BY <1>a, StateValues DEF QueuesExact, Queued, ScheduleQueued
<1> HIDE DEF a
<1>1. TypeOK'
  <2>1. TypeFlags'
    BY DEF TypeOK, TypeFlags, ScheduleQueued
  <2>2. TypeQueues'
    BY <1>a, LimitsAssumption DEF TypeOK, TypeQueues, ScheduleQueued
  <2>3. TypeAttempts'
    BY <1>a, <1>b DEF TypeOK, TypeAttempts, ScheduleQueued
  <2> QED
    BY <2>1, <2>2, <2>3 DEF TypeOK
<1>2. GateAgrees'
  BY <1>a, <1>b DEF TypeOK, TypeAttempts, GateAgrees
<1>3. QueuesExact'
  <2>1. Queued' = Queued \ {a} /\ Ready' = Ready \ {a}
    BY <1>a, <1>b, StateMoves
  <2>2. a \notin Ready
    BY <1>b DEF Ready
  <2> QED
    BY <1>a, <2>1, <2>2 DEF QueuesExact, ScheduleQueued
<1>4. CapacityExact'
  <2>1. /\ Cardinality(Running') = Cardinality(Running) + 1
        /\ Cardinality(Resident') = Cardinality(Resident) + 1
    BY <1>a, <1>b, Tally, StateValues
  <2>2. Cardinality(Calling') = Cardinality(Calling)
    BY <1>a, <1>b, GateMoves DEF GateAgrees
  <2> QED
    BY <2>1, <2>2, LimitsAssumption, SMTT(60)
       DEF TypeOK, TypeQueues, CapacityExact, ScheduleQueued, CanAdmit
<1> QED
  BY <1>1, <1>2, <1>3, <1>4

\* scheduleLocked drops a queued attempt whose context is done.
LEMMA ScheduleDropsStep ==
    ASSUME IInv, ScheduleDrops PROVE IInv'
<1> USE DEF IInv
<1> DEFINE a == Head(queue)
<1>a. /\ a \in Attempt /\ a \in Entries(queue)
      /\ queue' \in Seq(Attempt) /\ Distinct(queue')
      /\ Entries(queue') = Entries(queue) \ {a}
  BY TailRemovesHead DEF TypeOK, TypeQueues, QueuesExact, ScheduleDrops, CanAdmit
<1>b. /\ state[a] = "queued" /\ state' = [state EXCEPT ![a] = "done"]
      /\ "done" \in LiveState \cup {"new", "done"}
  BY <1>a DEF QueuesExact, Queued, ScheduleDrops
<1>c. /\ attempts' = [attempts EXCEPT ![RunOf[a]] = NoAttempt]
      /\ outcome' = [outcome EXCEPT ![a] = "ctxErr"]
      /\ UNCHANGED <<permit, gate, ctxDone, aborting, cancelling, mutex>>
  BY DEF ScheduleDrops
<1> HIDE DEF a
<1>1. TypeOK'
  <2>1. TypeFlags'
    BY DEF TypeOK, TypeFlags, ScheduleDrops
  <2>2. TypeQueues'
    BY <1>a, LimitsAssumption DEF TypeOK, TypeQueues, ScheduleDrops
  <2>3. TypeAttempts'
    BY <1>a, <1>b, <1>c, AttemptAssumption DEF TypeOK, TypeAttempts
  <2> QED
    BY <2>1, <2>2, <2>3 DEF TypeOK
<1>2. GateAgrees'
  BY <1>a, <1>b DEF TypeOK, TypeAttempts, GateAgrees, ScheduleDrops
<1>3. QueuesExact'
  <2>1. Queued' = Queued \ {a} /\ Ready' = Ready \ {a}
    BY <1>a, <1>b, StateMoves
  <2>2. a \notin Ready
    BY <1>b DEF Ready
  <2> QED
    BY <1>a, <2>1, <2>2 DEF QueuesExact, ScheduleDrops
<1>4. CapacityExact'
  <2>1. /\ Cardinality(Running') = Cardinality(Running)
        /\ Cardinality(Resident') = Cardinality(Resident)
    BY <1>a, <1>b, Tally, StateValues
  <2> QED
    BY <2>1 DEF CapacityExact, Calling, ScheduleDrops
<1> QED
  BY <1>1, <1>2, <1>3, <1>4

\* The end of scheduleLocked releases the mutex and may drain.
LEMMA ScheduleEndsStep ==
    ASSUME IInv, ScheduleEnds PROVE IInv'
<1> USE DEF IInv
<1>1. TypeOK'
  <2>1. TypeFlags'
    BY DEF TypeOK, TypeFlags, ScheduleEnds, MaybeDrain
  <2>2. TypeQueues'
    BY DEF TypeOK, TypeQueues, ScheduleEnds
  <2>3. TypeAttempts'
    BY DEF TypeOK, TypeAttempts, ScheduleEnds, attemptVars
  <2> QED
    BY <2>1, <2>2, <2>3 DEF TypeOK
<1>2. Untouched
  BY DEF Untouched, ScheduleEnds, attemptVars
<1> QED
  BY <1>1, <1>2, UntouchedStep

\* Stuttering changes nothing that IInv speaks of.
LEMMA StutterStep ==
    ASSUME IInv, UNCHANGED vars PROVE IInv'
<1> USE DEF IInv, vars, executorVars, attemptVars
<1>1. TypeFlags'
  BY DEF TypeOK, TypeFlags
<1>2. TypeQueues'
  BY DEF TypeOK, TypeQueues
<1>3. TypeAttempts'
  BY DEF TypeOK, TypeAttempts
<1>4. Untouched
  BY DEF Untouched
<1> QED
  BY <1>1, <1>2, <1>3, <1>4, UntouchedStep DEF TypeOK

\* Every step of the executor preserves the inductive invariant.
LEMMA NextIInv == IInv /\ [Next]_vars => IInv'
<1> SUFFICES ASSUME IInv, [Next]_vars PROVE IInv'
  OBVIOUS
<1>1. ASSUME NEW a \in Attempt, GateStep(a) PROVE IInv'
  BY <1>1, AcquireExternalStep, YieldFailsStep, CallReturnsStep, ReacquireFailsStep,
     ReacquireRunsStep, ReacquireWaitsStep, PermitGrantedStep, PermitAbandonedStep
     DEF GateStep
<1>2. CASE Schedule
  BY <1>2, ScheduleReadyStep, ScheduleQueuedStep, ScheduleDropsStep, ScheduleEndsStep
     DEF Schedule
<1> QED
  BY <1>1, <1>2, AdmitNowStep, AdmitQueuedStep, CancelCommitStep, CancelLockedStep,
     SubmitDoneStep, AbortStep, CloseStep, FinishStep, YieldStep, StutterStep
     DEF Next

\* The inductive invariant holds in every reachable state.
THEOREM InductiveInvariant == Spec => []IInv
<1>1. Init => IInv
  BY InitIInv
<1>2. IInv /\ [Next]_vars => IInv'
  BY NextIInv
<1> QED
  BY <1>1, <1>2, PTL DEF Spec

\* Every variable has its type, for any attempts and any limits.
THEOREM ExecutorTypeCorrect == Spec => []TypeOK
<1>1. IInv => TypeOK
  BY DEF IInv
<1> QED
  BY <1>1, InductiveInvariant, PTL

\* The admission limits MaxRunning, MaxResident and MaxInflightTools hold, and
\* the counters that enforce them are exact.
THEOREM ExecutorCapacity == Spec => []CapacityExact
<1>1. IInv => CapacityExact
  BY DEF IInv
<1> QED
  BY <1>1, InductiveInvariant, PTL

\* The queues hold exactly the attempts that wait in them.
THEOREM ExecutorQueues == Spec => []QueuesExact
<1>1. IInv => QueuesExact
  BY DEF IInv
<1> QED
  BY <1>1, InductiveInvariant, PTL

-----------------------------------------------------------------------------
(* What the invariant gives: capacity is never left idle, and so a direct   *)
(* start overtakes nobody.                                                  *)

\* An empty queue stays empty when an attempt is removed from it.
LEMMA WithoutEmpty == \A a : Without(<<>>, a) = <<>>
  BY DEF Without

\* Every critical section leaves no free slot that someone waits for: the ones
\* that free capacity keep the mutex until scheduleLocked has nothing to do.
LEMMA ConservingStep ==
    ASSUME IInv, WorkConserving, [Next]_vars PROVE WorkConserving'
<1> USE DEF WorkConserving, CanAdmit, Unlocked
<1>0. /\ running \in Nat /\ resident \in Nat
      /\ MaxRunning \in Nat /\ MaxResident \in Nat
      /\ NoAttempt \notin Attempt
  BY LimitsAssumption, AttemptAssumption DEF IInv, TypeOK, TypeQueues
<1>1. ASSUME NEW a \in Attempt, AdmitNow(a) PROVE WorkConserving'
  BY <1>0, <1>1 DEF AdmitNow, Admissible
<1>2. ASSUME NEW a \in Attempt, AdmitQueued(a) PROVE WorkConserving'
  BY <1>0, <1>2 DEF AdmitQueued, Admissible
<1>3. ASSUME NEW r \in Run, CancelCommit(r) PROVE WorkConserving'
  BY <1>3 DEF CancelCommit, executorVars
<1>4. ASSUME NEW r \in Run, CancelLocked(r) PROVE WorkConserving'
  BY <1>4, WithoutEmpty DEF CancelLocked, DropQueued
<1>5. ASSUME NEW a \in Attempt, SubmitDone(a) PROVE WorkConserving'
  BY <1>5 DEF SubmitDone, executorVars
<1>6. ASSUME NEW a \in Attempt, Abort(a) PROVE WorkConserving'
  BY <1>6, WithoutEmpty DEF Abort, DropQueued
<1>7. CASE Close
  BY <1>7 DEF Close
<1>8. ASSUME NEW a \in Attempt, Finish(a) \/ Yield(a) PROVE WorkConserving'
  BY <1>0, <1>8 DEF Finish, Finished, Yield
<1>9. ASSUME NEW a \in Attempt, GateStep(a) PROVE WorkConserving'
  <2>1. CASE AcquireExternal(a) \/ YieldFails(a) \/ CallReturns(a)
             \/ ReacquireFails(a) \/ PermitGranted(a)
    BY <2>1 DEF AcquireExternal, YieldFails, CallReturns, ReacquireFails,
                PermitGranted, Resumes, executorVars
  <2>2. CASE ReacquireRuns(a) \/ ReacquireWaits(a)
    BY <1>0, <2>2 DEF ReacquireRuns, ReacquireWaits, ReacquireQueues
  <2>3. CASE PermitAbandoned(a)
    BY <2>3, WithoutEmpty DEF PermitAbandoned, Resumes
  <2> QED
    BY <1>9, <2>1, <2>2, <2>3 DEF GateStep
<1>10. CASE ScheduleReady \/ ScheduleQueued \/ ScheduleDrops
  BY <1>10 DEF ScheduleReady, ScheduleQueued, ScheduleDrops
<1>11. CASE ScheduleEnds
  BY <1>11 DEF ScheduleEnds, PickReady
<1>12. CASE UNCHANGED vars
  BY <1>12 DEF vars, executorVars
<1> QED
  BY <1>1, <1>2, <1>3, <1>4, <1>5, <1>6, <1>7, <1>8, <1>9, <1>10, <1>11, <1>12
     DEF Next, Schedule

\* With the mutex free, no free running slot has a taker.
THEOREM ExecutorWorkConserving == Spec => []WorkConserving
<1>1. Init => WorkConserving
  BY DEF Init, WorkConserving, CanAdmit
<1>2. IInv /\ WorkConserving /\ [Next]_vars => WorkConserving'
  BY ConservingStep
<1> QED
  BY <1>1, <1>2, InductiveInvariant, PTL DEF Spec

\* Admit starts an attempt directly only when both queues are empty.
THEOREM ExecutorDirectStart == Spec => DirectStartOvertakesNobody
<1> DEFINE A == \A a \in Attempt : state[a] = "new" /\ state'[a] = "running"
                                     => queue = <<>> /\ ready = <<>>
<1>1. ASSUME IInv, WorkConserving, [Next]_vars PROVE A
  <2> SUFFICES ASSUME NEW b \in Attempt, state[b] = "new", state'[b] = "running"
               PROVE  queue = <<>> /\ ready = <<>>
    OBVIOUS
  <2> USE <1>1 DEF IInv
  <2>0. state \in [Attempt -> LiveState \cup {"new", "done"}]
    BY DEF TypeOK, TypeAttempts
  <2>1. ASSUME NEW a \in Attempt, AdmitNow(a) PROVE queue = <<>> /\ ready = <<>>
    BY <2>1 DEF AdmitNow, Admissible, WorkConserving, CanAdmit
  <2>2. ASSUME NEW a \in Attempt,
               AdmitQueued(a) \/ SubmitDone(a) \/ Abort(a) \/ Finish(a) \/ Yield(a)
        PROVE  FALSE
    BY <2>0, <2>2 DEF AdmitQueued, SubmitDone, Abort, DropQueued, Finish, Finished, Yield
  <2>3. ASSUME NEW a \in Attempt, GateStep(a) PROVE FALSE
    BY <2>0, <2>3 DEF GateStep, AcquireExternal, YieldFails, CallReturns, ReacquireFails,
       ReacquireRuns, ReacquireWaits, ReacquireQueues, PermitGranted, PermitAbandoned, Resumes, GateAgrees
  <2>4. ASSUME NEW r \in Run, CancelCommit(r) \/ CancelLocked(r) PROVE FALSE
    BY <2>0, <2>4 DEF CancelCommit, CancelLocked, DropQueued
  <2>5. CASE ScheduleReady
    <3>1. Head(ready) \in Entries(ready)
      BY <2>5, TailRemovesHead DEF ScheduleReady, PickReady, QueuesExact, TypeOK, TypeQueues
    <3> QED
      BY <2>0, <2>5, <3>1 DEF ScheduleReady, QueuesExact, Ready
  <2>6. CASE ScheduleQueued
    <3>1. Head(queue) \in Entries(queue)
      BY <2>6, TailRemovesHead DEF ScheduleQueued, CanAdmit, QueuesExact, TypeOK, TypeQueues
    <3> QED
      BY <2>0, <2>6, <3>1 DEF ScheduleQueued, QueuesExact, Queued
  <2>7. CASE ScheduleDrops
    BY <2>0, <2>7 DEF ScheduleDrops
  <2>8. CASE ScheduleEnds \/ Close \/ UNCHANGED vars
    BY <2>8 DEF ScheduleEnds, Close, vars, attemptVars
  <2> QED
    BY <2>1, <2>2, <2>3, <2>4, <2>5, <2>6, <2>7, <2>8 DEF Next, Schedule
<1>2. IInv /\ WorkConserving /\ [Next]_vars => [A]_vars
  BY <1>1
<1> HIDE DEF A
<1>3. Spec => [][A]_vars
  BY <1>2, InductiveInvariant, ExecutorWorkConserving, PTL DEF Spec
<1> QED
  BY <1>3 DEF DirectStartOvertakesNobody, A

\* Continuations overtake the head of the queue at most maxReadyBurst times in
\* a row: each time, scheduleLocked counts it in readyBurst, and the direct
\* path of reacquire never overtakes because no slot is left idle.
THEOREM ExecutorBoundedOvertaking == Spec => []BoundedOvertaking
<1> DEFINE J == passed <= readyBurst
<1>1. Init => J
  BY DEF Init
<1>2. IInv /\ WorkConserving /\ J /\ [Next]_vars => J'
  <2> SUFFICES ASSUME IInv, WorkConserving, J, [Next]_vars PROVE J'
    OBVIOUS
  <2>0. passed \in Nat /\ readyBurst \in Nat /\ MaxReadyBurst \in Nat
    BY LimitsAssumption DEF IInv, TypeOK, TypeQueues
  <2>1. CASE \E a \in Attempt : AdmitNow(a)
    BY <2>1 DEF AdmitNow
  <2>2. CASE \E a \in Attempt : ReacquireRuns(a)
    BY <2>2 DEF ReacquireRuns, Overtakes, WorkConserving
  <2>3. CASE ScheduleReady
    BY <2>0, <2>3 DEF ScheduleReady, Overtakes, PickReady
  <2>4. CASE ScheduleQueued
    BY <2>4 DEF ScheduleQueued
  <2>5. CASE UNCHANGED <<readyBurst, passed>>
    BY <2>5
  <2> QED
    BY <2>1, <2>2, <2>3, <2>4, <2>5
       DEF Next, Schedule, GateStep, AdmitQueued, SubmitDone, Abort, Finish, Finished, Yield,
           AcquireExternal, YieldFails, CallReturns, ReacquireFails, ReacquireWaits, ReacquireQueues,
           PermitGranted, PermitAbandoned, Resumes, CancelCommit, CancelLocked, Close,
           ScheduleDrops, ScheduleEnds, executorVars, attemptVars, vars
<1>3. IInv /\ J => BoundedOvertaking
  BY LimitsAssumption DEF IInv, TypeOK, TypeQueues, BoundedOvertaking
<1> HIDE DEF J
<1> QED
  BY <1>1, <1>2, <1>3, InductiveInvariant, ExecutorWorkConserving, PTL DEF Spec

-----------------------------------------------------------------------------
(* What the invariant gives about the end of attempts: who is registered,   *)
(* who holds the mutex, when the executor drains, and what is published.    *)

\* The attempts map names exactly the live attempts, each under its own run.
Registered ==
    /\ \A a \in Attempt : state[a] \in LiveState <=> attempts[RunOf[a]] = a
    /\ \A r \in Run : attempts[r] # NoAttempt => RunOf[attempts[r]] = r

\* Inside scheduleLocked is a goroutine that finished, or one that gave its
\* slot up and is not yet past the critical section of yield.
HolderKnown ==
    ~Unlocked => \/ state[mutex] = "done"
                 \/ state[mutex] = "waitingLive" /\ gate[mutex] = "acquire"

\* The drain channel is closed only after Close and with no attempt left; when
\* both hold and it is open, a finished attempt's goroutine is on its way to it.
Draining ==
    /\ drained => closed /\ \A r \in Run : attempts[r] = NoAttempt
    /\ closed /\ (\A r \in Run : attempts[r] = NoAttempt) => drained \/ ~Unlocked

\* A result is published exactly when the attempt is done.
Published == \A a \in Attempt : state[a] = "done" <=> outcome[a] # "none"

\* The strengthening that ExecutingHoldsSlot, DrainExact and ResultsAreFinal need.
EndInv == Registered /\ HolderKnown /\ Draining /\ Published /\ ExecutingHoldsSlot

\* An attempt that scheduleLocked pops is the one its queue's name promises.
LEMMA HeadsKnown ==
    ASSUME IInv
    PROVE  /\ ready # <<>> => Head(ready) \in Attempt /\ state[Head(ready)] = "ready"
           /\ queue # <<>> => Head(queue) \in Attempt /\ state[Head(queue)] = "queued"
<1> USE DEF IInv
<1>1. ready # <<>> => Head(ready) \in Attempt /\ Head(ready) \in Entries(ready)
  BY TailRemovesHead DEF QueuesExact, TypeOK, TypeQueues
<1>2. queue # <<>> => Head(queue) \in Attempt /\ Head(queue) \in Entries(queue)
  BY TailRemovesHead DEF QueuesExact, TypeOK, TypeQueues
<1> QED
  BY <1>1, <1>2 DEF QueuesExact, Ready, Queued

\* Admit registers a new attempt: the run was free, the executor open.
Enters(a, v) ==
    /\ state[a] = "new" /\ v \in {"queued", "running"}
    /\ state' = [state EXCEPT ![a] = v]
    /\ attempts[RunOf[a]] = NoAttempt
    /\ attempts' = [attempts EXCEPT ![RunOf[a]] = a]
    /\ Unlocked /\ ~closed
    /\ UNCHANGED <<closed, drained, outcome, mutex>>

\* An attempt ends with its first result and is unregistered, under the mutex
\* of Cancel or abort (which drain at once), of finish, or of scheduleLocked.
Leaves(a, why) ==
    /\ state[a] \in LiveState
    /\ state' = [state EXCEPT ![a] = "done"]
    /\ attempts' = [attempts EXCEPT ![RunOf[a]] = NoAttempt]
    /\ outcome' = [outcome EXCEPT ![a] = why] /\ why \in {"result", "cancelled", "ctxErr"}
    /\ UNCHANGED closed
    /\ \/ Unlocked /\ UNCHANGED <<mutex, gate>> /\ MaybeDrain(closed, attempts')
       \/ mutex' = a /\ UNCHANGED drained
       \/ ~Unlocked /\ a # mutex /\ UNCHANGED <<mutex, gate, drained>>

\* A live attempt stays live, whatever else the step does to it.
Moves(a, v) ==
    /\ state[a] \in ResidentState \cup {"queued"} /\ v \in ResidentState
    /\ state' = [state EXCEPT ![a] = v]
    /\ UNCHANGED <<closed, drained, attempts, outcome>>
    /\ \/ mutex' = a /\ v = "waitingLive" /\ gate' = [gate EXCEPT ![a] = "acquire"]
       \/ UNCHANGED mutex /\ a # mutex
          /\ \E g \in {"none", "guest", "acquire", "call", "relock", "permit"} :
                gate' = [gate EXCEPT ![a] = g]

\* No attempt's state changes; at most Close or the end of scheduleLocked drains.
Stays ==
    /\ UNCHANGED <<state, attempts, outcome>>
    /\ \/ UNCHANGED <<closed, drained, mutex>>
          /\ \/ UNCHANGED gate
             \/ \E b \in Attempt,
                   g \in {"none", "guest", "acquire", "call", "relock", "permit"} :
                     b # mutex /\ gate' = [gate EXCEPT ![b] = g]
       \/ closed' = TRUE /\ MaybeDrain(TRUE, attempts) /\ UNCHANGED <<mutex, gate>>
       \/ ~Unlocked /\ mutex' = NoAttempt /\ UNCHANGED <<closed, gate>>
          /\ IF state[mutex] = "done" THEN MaybeDrain(closed, attempts) ELSE UNCHANGED drained

\* As far as the end of attempts goes, every step is one of these four.
LEMMA StepKinds ==
    ASSUME IInv, EndInv, [Next]_vars
    PROVE  \/ \E a \in Attempt, v \in {"queued", "running"} : Enters(a, v)
           \/ \E a \in Attempt, why \in {"result", "cancelled", "ctxErr"} : Leaves(a, why)
           \/ \E a \in Attempt, v \in ResidentState : Moves(a, v)
           \/ Stays
<1> DEFINE Goal == \/ \E a \in Attempt, v \in {"queued", "running"} : Enters(a, v)
                   \/ \E a \in Attempt, why \in {"result", "cancelled", "ctxErr"} : Leaves(a, why)
                   \/ \E a \in Attempt, v \in ResidentState : Moves(a, v)
                   \/ Stays
<1> USE DEF IInv, EndInv
<1>0. /\ state \in [Attempt -> LiveState \cup {"new", "done"}]
      /\ gate \in [Attempt -> {"none", "guest", "acquire", "call", "relock", "permit"}]
      /\ mutex \in Attempt \cup {NoAttempt} /\ NoAttempt \notin Attempt
      /\ "queued" \in LiveState /\ ResidentState \subseteq LiveState
      /\ "running" \in ResidentState /\ "ready" \in ResidentState /\ "waitingLive" \in ResidentState
  BY AttemptAssumption DEF TypeOK, TypeAttempts, LiveState, ResidentState
<1>1. ASSUME NEW a \in Attempt, AdmitNow(a) PROVE Goal
  <2>1. Enters(a, "running")
    BY <1>1 DEF AdmitNow, Admissible, Enters
  <2> QED BY <2>1
<1>2. ASSUME NEW a \in Attempt, AdmitQueued(a) PROVE Goal
  <2>1. Enters(a, "queued")
    BY <1>2 DEF AdmitQueued, Admissible, Enters
  <2> QED BY <2>1
<1>3. ASSUME NEW r \in Run, CancelCommit(r) PROVE Goal
  BY <1>3 DEF CancelCommit, executorVars, Stays
<1>4. ASSUME NEW r \in Run, CancelLocked(r) PROVE Goal
  <2>1. CASE attempts[r] # NoAttempt /\ state[attempts[r]] = "queued"
             /\ DropQueued(attempts[r], "cancelled")
    <3>1. attempts[r] \in Attempt
      BY <2>1 DEF TypeOK, TypeAttempts
    <3>2. Leaves(attempts[r], "cancelled")
      BY <1>0, <1>4, <2>1 DEF CancelLocked, DropQueued, Leaves
    <3> QED BY <3>1, <3>2
  <2>2. CASE UNCHANGED <<queue, state, attempts, outcome, drained>>
    BY <1>4, <2>2 DEF CancelLocked, Stays
  <2> QED
    BY <1>4, <2>1, <2>2 DEF CancelLocked
<1>5. ASSUME NEW a \in Attempt, SubmitDone(a) PROVE Goal
  BY <1>5 DEF SubmitDone, executorVars, Stays
<1>6. ASSUME NEW a \in Attempt, Abort(a) PROVE Goal
  <2>1. CASE state[a] = "queued"
    <3>1. Leaves(a, "ctxErr")
      BY <1>0, <1>6, <2>1 DEF Abort, DropQueued, Leaves
    <3> QED BY <3>1
  <2>2. CASE state[a] # "queued"
    BY <1>6, <2>2 DEF Abort, Stays
  <2> QED
    BY <2>1, <2>2
<1>7. CASE Close
  BY <1>7 DEF Close, attemptVars, Stays
<1>8. ASSUME NEW a \in Attempt, Finish(a) PROVE Goal
  <2>1. Leaves(a, "result")
    BY <1>0, <1>8 DEF Finish, Finished, Leaves
  <2> QED BY <2>1
<1>9. ASSUME NEW a \in Attempt, Yield(a) PROVE Goal
  <2>1. Moves(a, "waitingLive")
    BY <1>0, <1>9 DEF Yield, Moves
  <2> QED BY <1>0, <2>1
<1>10. ASSUME NEW a \in Attempt, GateStep(a) PROVE Goal
  <2>1. CASE AcquireExternal(a)
    BY <1>0, <2>1 DEF AcquireExternal, Stays
  <2>2. CASE YieldFails(a)
    BY <1>0, <2>2 DEF YieldFails, executorVars, Stays
  <2>3. CASE CallReturns(a)
    <3>1. a # mutex
      BY <1>0, <2>3 DEF CallReturns, HolderKnown, Unlocked, GateAgrees
    <3> QED
      BY <3>1, <2>3 DEF CallReturns, Stays
  <2>4. CASE ReacquireFails(a)
    BY <1>0, <2>4 DEF ReacquireFails, executorVars, Stays, Unlocked
  <2>5. CASE ReacquireRuns(a)
    <3>1. Moves(a, "running")
      BY <1>0, <2>5 DEF ReacquireRuns, Moves, Unlocked, GateAgrees
    <3> QED BY <1>0, <3>1
  <2>6. CASE ReacquireWaits(a)
    <3>1. Moves(a, "ready")
      BY <1>0, <2>6 DEF ReacquireWaits, ReacquireQueues, Moves, Unlocked, GateAgrees
    <3> QED BY <1>0, <3>1
  <2>7. CASE PermitGranted(a)
    <3>1. a # mutex
      BY <1>0, <2>7 DEF PermitGranted, Resumes, HolderKnown, Unlocked, GateAgrees
    <3> QED
      BY <3>1, <2>7 DEF PermitGranted, Resumes, Stays
  <2>8. CASE PermitAbandoned(a)
    <3>1. CASE state[a] = "ready"
      <4>1. Moves(a, "waitingLive")
        BY <1>0, <2>8, <3>1 DEF PermitAbandoned, Resumes, Moves, Unlocked
      <4> QED BY <1>0, <4>1
    <3>2. CASE state[a] # "ready"
      BY <1>0, <2>8, <3>2 DEF PermitAbandoned, Resumes, Stays, Unlocked
    <3> QED BY <3>1, <3>2
  <2> QED
    BY <1>10, <2>1, <2>2, <2>3, <2>4, <2>5, <2>6, <2>7, <2>8 DEF GateStep
<1>11. CASE ScheduleReady
  <2>1. Head(ready) \in Attempt /\ state[Head(ready)] = "ready"
    BY <1>11, HeadsKnown DEF ScheduleReady, PickReady
  <2>2. gate' = [gate EXCEPT ![Head(ready)] = gate[Head(ready)]]
    BY <1>0, <1>11, <2>1 DEF ScheduleReady
  <2>3. Head(ready) # mutex
    BY <2>1, <1>11 DEF ScheduleReady, HolderKnown
  <2>4. gate[Head(ready)] \in {"none", "guest", "acquire", "call", "relock", "permit"}
    BY <1>0, <2>1
  <2>5. Moves(Head(ready), "running")
    BY <1>0, <1>11, <2>1, <2>2, <2>3, <2>4 DEF ScheduleReady, Moves
  <2> QED BY <1>0, <2>1, <2>5
<1>12. CASE ScheduleQueued
  <2>1. Head(queue) \in Attempt /\ state[Head(queue)] = "queued"
    BY <1>12, HeadsKnown DEF ScheduleQueued, CanAdmit
  <2>2. Head(queue) # mutex
    BY <2>1, <1>12 DEF ScheduleQueued, HolderKnown
  <2>3. Moves(Head(queue), "running")
    BY <1>0, <1>12, <2>1, <2>2 DEF ScheduleQueued, Moves
  <2> QED BY <1>0, <2>1, <2>3
<1>13. CASE ScheduleDrops
  <2>1. Head(queue) \in Attempt /\ state[Head(queue)] = "queued"
    BY <1>13, HeadsKnown DEF ScheduleDrops, CanAdmit
  <2>2. Head(queue) # mutex
    BY <2>1, <1>13 DEF ScheduleDrops, HolderKnown
  <2>3. Leaves(Head(queue), "ctxErr")
    BY <1>0, <1>13, <2>1, <2>2 DEF ScheduleDrops, Leaves
  <2> QED BY <2>1, <2>3
<1>14. CASE ScheduleEnds
  BY <1>14 DEF ScheduleEnds, attemptVars, Stays
<1>15. CASE UNCHANGED vars
  BY <1>15 DEF vars, executorVars, attemptVars, Stays
<1> QED
  BY <1>1, <1>2, <1>3, <1>4, <1>5, <1>6, <1>7, <1>8, <1>9, <1>10, <1>11, <1>12, <1>13,
     <1>14, <1>15 DEF Next, Schedule

\* Only live attempts are registered, whatever enters and leaves.
LEMMA RegisteredStep ==
    ASSUME IInv, EndInv, [Next]_vars PROVE Registered'
<1> USE DEF Registered
<1>0. /\ Registered /\ state \in [Attempt -> LiveState \cup {"new", "done"}]
      /\ attempts \in [Run -> Attempt \cup {NoAttempt}] /\ RunOf \in [Attempt -> Run]
      /\ NoAttempt \notin Attempt
      /\ "new" \notin LiveState /\ "done" \notin LiveState
      /\ {"queued", "running"} \subseteq LiveState /\ ResidentState \subseteq LiveState
      /\ ResidentState \cup {"queued"} = LiveState
  BY AttemptAssumption DEF IInv, EndInv, TypeOK, TypeAttempts, LiveState, ResidentState
<1>1. ASSUME NEW a \in Attempt, NEW v \in {"queued", "running"}, Enters(a, v)
      PROVE  Registered'
  BY <1>0, <1>1 DEF Enters
<1>2. ASSUME NEW a \in Attempt, NEW why, Leaves(a, why) PROVE Registered'
  BY <1>0, <1>2 DEF Leaves
<1>3. ASSUME NEW a \in Attempt, NEW v \in ResidentState, Moves(a, v) PROVE Registered'
  BY <1>0, <1>3 DEF Moves
<1>4. CASE Stays
  BY <1>0, <1>4 DEF Stays
<1> QED
  BY <1>1, <1>2, <1>3, <1>4, StepKinds

\* While scheduleLocked runs, the goroutine that runs it does nothing else.
LEMMA HolderStep ==
    ASSUME IInv, EndInv, [Next]_vars PROVE HolderKnown'
<1> USE DEF HolderKnown, Unlocked
<1>0. /\ HolderKnown /\ state \in [Attempt -> LiveState \cup {"new", "done"}]
      /\ gate \in [Attempt -> {"none", "guest", "acquire", "call", "relock", "permit"}]
      /\ mutex \in Attempt \cup {NoAttempt}
      /\ "done" \notin LiveState
  BY DEF IInv, EndInv, TypeOK, TypeAttempts, LiveState, ResidentState
<1>1. ASSUME NEW a \in Attempt, NEW v \in {"queued", "running"}, Enters(a, v)
      PROVE  HolderKnown'
  BY <1>0, <1>1 DEF Enters
<1>2. ASSUME NEW a \in Attempt, NEW why, Leaves(a, why) PROVE HolderKnown'
  BY <1>0, <1>2 DEF Leaves
<1>3. ASSUME NEW a \in Attempt, NEW v \in ResidentState, Moves(a, v) PROVE HolderKnown'
  BY <1>0, <1>3 DEF Moves
<1>4. CASE Stays
  BY <1>0, <1>4 DEF Stays
<1> QED
  BY <1>1, <1>2, <1>3, <1>4, StepKinds

\* The drain follows the last attempt, on every path that ends one.
LEMMA DrainingStep ==
    ASSUME IInv, EndInv, [Next]_vars PROVE Draining'
<1> USE DEF Draining, Unlocked
<1> DEFINE None == \A r \in Run : attempts[r] = NoAttempt
<1>0. /\ Draining /\ Registered /\ HolderKnown
      /\ state \in [Attempt -> LiveState \cup {"new", "done"}]
      /\ closed \in BOOLEAN /\ drained \in BOOLEAN
      /\ attempts \in [Run -> Attempt \cup {NoAttempt}] /\ RunOf \in [Attempt -> Run]
      /\ mutex \in Attempt \cup {NoAttempt} /\ NoAttempt \notin Attempt
      /\ ResidentState \cup {"queued"} = LiveState /\ "waitingLive" \in LiveState
  BY AttemptAssumption DEF IInv, EndInv, TypeOK, TypeAttempts, TypeFlags, LiveState, ResidentState
<1>1. ASSUME NEW a \in Attempt, NEW v \in {"queued", "running"}, Enters(a, v)
      PROVE  Draining'
  BY <1>0, <1>1 DEF Enters
<1>2. ASSUME NEW a \in Attempt, NEW why, Leaves(a, why) PROVE Draining'
  <2>1. attempts[RunOf[a]] = a /\ ~None
    BY <1>0, <1>2 DEF Leaves, Registered
  <2> QED
    BY <1>0, <1>2, <2>1 DEF Leaves, MaybeDrain
<1>3. ASSUME NEW a \in Attempt, NEW v \in ResidentState, Moves(a, v) PROVE Draining'
  <2>1. attempts[RunOf[a]] = a /\ ~None /\ attempts' = attempts
    BY <1>0, <1>3 DEF Moves, Registered
  <2> QED
    BY <1>0, <1>3, <2>1 DEF Moves
<1>4. CASE Stays
  <2>1. CASE UNCHANGED <<closed, drained, mutex>>
    BY <1>0, <1>4, <2>1 DEF Stays
  <2>2. CASE closed' = TRUE /\ MaybeDrain(TRUE, attempts)
    BY <1>0, <1>4, <2>2 DEF Stays, MaybeDrain
  <2>3. CASE /\ ~Unlocked /\ mutex' = NoAttempt /\ UNCHANGED closed
             /\ IF state[mutex] = "done" THEN MaybeDrain(closed, attempts) ELSE UNCHANGED drained
    <3>1. CASE state[mutex] = "done"
      BY <1>0, <1>4, <2>3, <3>1 DEF Stays, MaybeDrain
    <3>2. CASE state[mutex] # "done"
      <4>1. attempts[RunOf[mutex]] = mutex /\ ~None
        BY <1>0, <2>3, <3>2 DEF HolderKnown, Registered
      <4> QED
        BY <1>0, <1>4, <2>3, <3>2, <4>1 DEF Stays
    <3> QED
      BY <3>1, <3>2
  <2> QED
    BY <1>4, <2>1, <2>2, <2>3 DEF Stays
<1> QED
  BY <1>1, <1>2, <1>3, <1>4, StepKinds

\* A step publishes a result for an attempt that had none, and ends it.
LEMMA PublishedStep ==
    ASSUME IInv, EndInv, [Next]_vars
    PROVE  /\ Published'
           /\ \A b \in Attempt : outcome[b] # "none" => outcome'[b] = outcome[b]
<1> USE DEF Published
<1>0. /\ Published /\ state \in [Attempt -> LiveState \cup {"new", "done"}]
      /\ outcome \in [Attempt -> {"none", "result", "cancelled", "ctxErr"}]
      /\ "done" \notin LiveState /\ ResidentState \cup {"queued"} = LiveState
  BY DEF IInv, EndInv, TypeOK, TypeAttempts, LiveState, ResidentState
<1> DEFINE Goal == /\ Published'
                   /\ \A b \in Attempt : outcome[b] # "none" => outcome'[b] = outcome[b]
<1>1. ASSUME NEW a \in Attempt, NEW v \in {"queued", "running"}, Enters(a, v) PROVE Goal
  BY <1>0, <1>1 DEF Enters
<1>2. ASSUME NEW a \in Attempt, NEW why, Leaves(a, why) PROVE Goal
  BY <1>0, <1>2 DEF Leaves
<1>3. ASSUME NEW a \in Attempt, NEW v \in ResidentState, Moves(a, v) PROVE Goal
  BY <1>0, <1>3 DEF Moves
<1>4. CASE Stays
  BY <1>0, <1>4 DEF Stays
<1> QED
  BY <1>1, <1>2, <1>3, <1>4, StepKinds


\* A Guest without a slot is one whose context is done: contexts stay done, and
\* only yield takes the slot from a Guest that runs.
LEMMA HoldsSlotStep ==
    ASSUME IInv, ExecutingHoldsSlot, [Next]_vars PROVE ExecutingHoldsSlot'
<1> USE DEF ExecutingHoldsSlot
<1>0. /\ state \in [Attempt -> LiveState \cup {"new", "done"}]
      /\ gate \in [Attempt -> {"none", "guest", "acquire", "call", "relock", "permit"}]
      /\ GateAgrees /\ QueuesExact
  BY DEF IInv, TypeOK, TypeAttempts
<1>1. ASSUME NEW a \in Attempt, AdmitNow(a) \/ AdmitQueued(a) PROVE ExecutingHoldsSlot'
  BY <1>0, <1>1 DEF AdmitNow, AdmitQueued, Admissible
<1>2. ASSUME NEW r \in Run, CancelCommit(r) PROVE ExecutingHoldsSlot'
  BY <1>2 DEF CancelCommit
<1>3. ASSUME NEW r \in Run, CancelLocked(r) PROVE ExecutingHoldsSlot'
  BY <1>0, <1>3 DEF CancelLocked, DropQueued, GateAgrees
<1>4. ASSUME NEW a \in Attempt, SubmitDone(a) PROVE ExecutingHoldsSlot'
  BY <1>4 DEF SubmitDone
<1>5. ASSUME NEW a \in Attempt, Abort(a) PROVE ExecutingHoldsSlot'
  BY <1>0, <1>5 DEF Abort, DropQueued, GateAgrees
<1>6. ASSUME NEW a \in Attempt, Finish(a) \/ Yield(a) PROVE ExecutingHoldsSlot'
  BY <1>0, <1>6 DEF Finish, Finished, Yield
<1>7. ASSUME NEW a \in Attempt, GateStep(a) PROVE ExecutingHoldsSlot'
  <2>1. CASE AcquireExternal(a) \/ CallReturns(a)
    BY <1>0, <2>1 DEF AcquireExternal, CallReturns
  <2>2. CASE YieldFails(a) \/ ReacquireFails(a)
    BY <1>0, <2>2 DEF YieldFails, ReacquireFails, GateAgrees
  <2>3. CASE ReacquireRuns(a) \/ ReacquireWaits(a)
    BY <1>0, <2>3 DEF ReacquireRuns, ReacquireWaits, ReacquireQueues
  <2>4. CASE PermitGranted(a)
    <3>1. state[a] = "running"
      BY <1>0, <2>4 DEF PermitGranted, Resumes, GateAgrees, QueuesExact, Ready
    <3> QED
      BY <1>0, <2>4, <3>1 DEF PermitGranted, Resumes
  <2>5. CASE PermitAbandoned(a)
    BY <1>0, <2>5 DEF PermitAbandoned, Resumes, GateAgrees
  <2> QED
    BY <1>7, <2>1, <2>2, <2>3, <2>4, <2>5 DEF GateStep
<1>8. CASE ScheduleReady
  <2>1. Head(ready) \in Attempt /\ state[Head(ready)] = "ready"
    BY <1>8, HeadsKnown DEF ScheduleReady, PickReady
  <2> QED
    BY <1>0, <1>8, <2>1 DEF ScheduleReady, GateAgrees
<1>9. CASE ScheduleQueued \/ ScheduleDrops
  <2>1. Head(queue) \in Attempt /\ state[Head(queue)] = "queued"
    BY <1>9, HeadsKnown DEF ScheduleQueued, ScheduleDrops, CanAdmit
  <2> QED
    BY <1>0, <1>9, <2>1 DEF ScheduleQueued, ScheduleDrops, GateAgrees
<1>10. CASE ScheduleEnds \/ Close \/ UNCHANGED vars
  BY <1>10 DEF ScheduleEnds, Close, vars, attemptVars
<1> QED
  BY <1>1, <1>2, <1>3, <1>4, <1>5, <1>6, <1>7, <1>8, <1>9, <1>10 DEF Next, Schedule

\* The strengthening holds in every reachable state.
THEOREM EndInvariant == Spec => []EndInv
<1>1. Init => EndInv
  <2> SUFFICES ASSUME Init PROVE EndInv
    OBVIOUS
  <2>1. Registered
    BY AttemptAssumption DEF Init, Registered, LiveState, ResidentState
  <2>2. HolderKnown /\ Draining /\ Published /\ ExecutingHoldsSlot
    BY DEF Init, HolderKnown, Unlocked, Draining, Published, ExecutingHoldsSlot
  <2> QED
    BY <2>1, <2>2 DEF EndInv
<1>2. IInv /\ EndInv /\ [Next]_vars => EndInv'
  BY RegisteredStep, HolderStep, DrainingStep, PublishedStep, HoldsSlotStep DEF EndInv
<1> QED
  BY <1>1, <1>2, InductiveInvariant, PTL DEF Spec

\* A Guest executes Python outside a running slot only once its context is done.
THEOREM ExecutorHoldsSlot == Spec => []ExecutingHoldsSlot
<1>1. EndInv => ExecutingHoldsSlot
  BY DEF EndInv
<1> QED
  BY <1>1, EndInvariant, PTL

\* With the mutex free, the drain channel is closed exactly when Close was
\* called and no attempt is live.
THEOREM ExecutorDrainExact == Spec => []DrainExact
<1>1. IInv /\ EndInv => DrainExact
  <2> SUFFICES ASSUME IInv, EndInv PROVE DrainExact
    OBVIOUS
  <2>1. Live = {a \in Attempt : state[a] \in LiveState}
    BY DEF Live, Resident, Queued, LiveState
  <2>2. attempts \in [Run -> Attempt \cup {NoAttempt}] /\ RunOf \in [Attempt -> Run]
        /\ NoAttempt \notin Attempt
    BY AttemptAssumption DEF IInv, TypeOK, TypeAttempts
  <2>3. Live = {} <=> \A r \in Run : attempts[r] = NoAttempt
    BY <2>1, <2>2 DEF EndInv, Registered
  <2> QED
    BY <2>3 DEF EndInv, Draining, DrainExact
<1> QED
  BY <1>1, InductiveInvariant, EndInvariant, PTL

\* A published result never changes, whoever races to end the attempt.
THEOREM ExecutorResultsAreFinal == Spec => ResultsAreFinal
<1> DEFINE A == \A a \in Attempt : outcome[a] # "none" => outcome'[a] = outcome[a]
<1>1. IInv /\ EndInv /\ [Next]_vars => [A]_vars
  BY PublishedStep
<1> HIDE DEF A
<1>2. Spec => [][A]_vars
  BY <1>1, InductiveInvariant, EndInvariant, PTL DEF Spec
<1> QED
  BY <1>2 DEF ResultsAreFinal, A
===============================================================================
