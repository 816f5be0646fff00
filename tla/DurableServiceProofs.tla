------------------------- MODULE DurableServiceProofs -------------------------
(***************************************************************************)
(* Proofs about DurableService, for any clients, runs, requests, limits and *)
(* timeouts: what clients are told stands, and a server that closed without *)
(* an error is quiet.                                                       *)
(***************************************************************************)
EXTENDS DurableService, TLAPS

(* The inductive invariant.                                                 *)

Statuses == Terminal \cup {"absent", "active", "waiting", "blocked"}
Kinds == {"create", "get", "attempt", "cancel", "resolve"}

\* The rows, the attempts and the requests have their types, and a request in
\* progress is about a run.
ServiceType ==
    /\ status \in [Run -> Statuses]
    /\ attempt \in [Run -> {"none", "queued", "start", "guest", "stopping"}]
    /\ told \in [Run -> SUBSET Terminal]
    /\ pc \in [Client -> {"idle", "result", "cancelled"} \cup Kinds]
    /\ run \in [Client -> Run \cup {NoRun}]
    /\ published \in [Client -> Terminal \cup {"none", "error", "parked", "blocked"}]
    /\ \A c \in Client : pc[c] # "idle" => run[c] \in Run

\* A Guest executes for a run that was open when it started; only a
\* cancellation settles the run under it.
GuestsRunOpen ==
    \A r \in Run : attempt[r] \in {"guest", "stopping"} => status[r] \in {"active", "waiting", "cancelled"}

\* A result that a handler is about to pass on is what the row says, and so is
\* the cancellation that handleCancel has committed; nobody else has a result.
PendingTrue ==
    \A c \in Client :
        /\ pc[c] = "result" /\ published[c] \in Terminal => status[run[c]] = published[c]
        /\ pc[c] = "cancelled" => status[run[c]] = "cancelled"
        /\ pc[c] # "result" => published[c] = "none"

\* Once main has closed the server the executor admits nothing.
ClosedStays == phase = "closed" => executorClosed

SInv == /\ ServiceType /\ GuestsRunOpen /\ PendingTrue /\ ClosedStays
        /\ AnswersStand /\ CloseMeansQuiet

-----------------------------------------------------------------------------
(* The parts that several actions share.                                    *)

\* Executor.finish publishes the result s to the handler that waits for r's
\* attempt and errors to those of dropped ones; it admits nothing new.
LEMMA FinishDoes ==
    ASSUME ServiceType, NEW r \in Run, NEW s \in Terminal \cup {"error", "parked", "blocked"},
           Finish(r, s)
    PROVE  /\ attempt' \in [Run -> {"none", "queued", "start", "guest", "stopping"}]
           /\ attempt'[r] = "none"
           /\ \A q \in Run : attempt'[q] \in {"none", "start", attempt[q]}
           /\ published' \in [Client -> Terminal \cup {"none", "error", "parked", "blocked"}]
           /\ \A c \in Client : \/ published'[c] = published[c]
                                \/ pc[c] = "result" /\ published'[c] = "error"
                                \/ pc[c] = "result" /\ run[c] = r /\ published'[c] = s
           /\ UNCHANGED <<pc, run, executorClosed>>
  BY DEF Finish, ServiceType, Waits

\* A handler that answers leaves every other handler as it was.
LEMMA RespondDoes ==
    ASSUME ServiceType, NEW c \in Client, Respond(c)
    PROVE  /\ pc' \in [Client -> {"idle", "result", "cancelled"} \cup Kinds]
           /\ run' \in [Client -> Run \cup {NoRun}]
           /\ published' \in [Client -> Terminal \cup {"none", "error", "parked", "blocked"}]
           /\ pc'[c] = "idle" /\ published'[c] = "none"
           /\ \A d \in Client \ {c} : /\ pc'[d] = pc[d] /\ run'[d] = run[d]
                                      /\ published'[d] = published[d]
  BY DEF Respond, ServiceType

\* A step of a request that changes no row, no attempt and no answer.
LEMMA OnlyRequests ==
    ASSUME SInv, UNCHANGED <<status, attempt, executorClosed, phase, closeErr, told>>,
           pc' \in [Client -> {"idle", "result", "cancelled"} \cup Kinds],
           run' \in [Client -> Run \cup {NoRun}],
           published' \in [Client -> Terminal \cup {"none", "error", "parked", "blocked"}],
           \A c \in Client : \/ pc'[c] = "idle" /\ published'[c] = "none"
                             \/ pc'[c] \in Kinds /\ run'[c] \in Run /\ published'[c] = "none"
                             \/ /\ pc'[c] = pc[c] /\ run'[c] = run[c]
                                /\ published'[c] = published[c]
    PROVE  SInv'
<1> USE DEF SInv
<1>1. ServiceType'
  BY DEF ServiceType, Kinds
<1>2. PendingTrue'
  BY DEF PendingTrue, Kinds
<1> QED
  BY <1>1, <1>2 DEF GuestsRunOpen, ClosedStays, AnswersStand, CloseMeansQuiet, Live

\* A row's change in which a terminal status stays and no open run under a Guest
\* gets a status that only a Guest may give; the attempts at most stop.
LEMMA RowChanges ==
    ASSUME SInv, NEW c \in Client,
           status' \in [Run -> Statuses],
           \A r \in Run : status[r] \in Terminal => status'[r] = status[r],
           \A r \in Run : status'[r] \in {status[r], "active", "cancelled"},
           attempt' \in [Run -> {"none", "queued", "start", "guest", "stopping"}],
           \A r \in Run : attempt'[r] = attempt[r]
                          \/ (attempt[r] = "guest" /\ attempt'[r] = "stopping"),
           pc' \in [Client -> {"idle", "result", "cancelled"} \cup Kinds],
           run' \in [Client -> Run \cup {NoRun}],
           published' \in [Client -> Terminal \cup {"none", "error", "parked", "blocked"}],
           \A d \in Client \ {c} : /\ pc'[d] = pc[d] /\ run'[d] = run[d]
                                   /\ published'[d] = published[d],
           published'[c] = "none",
           \/ pc'[c] = "idle"
           \/ pc'[c] = "cancelled" /\ run'[c] \in Run /\ status'[run'[c]] = "cancelled",
           UNCHANGED <<executorClosed, phase, closeErr, told>>
    PROVE  SInv'
<1> USE DEF SInv
<1>1. ServiceType'
  BY DEF ServiceType
<1>2. PendingTrue'
  <2> SUFFICES ASSUME NEW d \in Client
               PROVE  /\ (pc[d] = "result" /\ published[d] \in Terminal => status[run[d]] = published[d])'
                      /\ (pc[d] = "cancelled" => status[run[d]] = "cancelled")'
                      /\ (pc[d] # "result" => published[d] = "none")'
    BY DEF PendingTrue
  <2>1. CASE d = c
    BY <2>1
  <2>2. CASE d # c
    BY <2>2 DEF PendingTrue, ServiceType, Terminal
  <2> QED
    BY <2>1, <2>2
<1>3. GuestsRunOpen'
  BY DEF GuestsRunOpen
<1>4. AnswersStand'
  <2> SUFFICES ASSUME NEW r \in Run PROVE told'[r] \subseteq {status'[r]}
    BY DEF AnswersStand
  <2>1. told[r] \subseteq {status[r]} \cap Terminal
    BY DEF AnswersStand, ServiceType
  <2> QED
    BY <2>1
<1>5. CloseMeansQuiet'
  BY DEF CloseMeansQuiet, Live
<1> QED
  BY <1>1, <1>2, <1>3, <1>4, <1>5 DEF ClosedStays

\* A Guest ends, or Resume returns before there is one: the result s that it
\* publishes, where it is terminal, is what the row says from now on.
LEMMA AttemptEnds ==
    ASSUME SInv, NEW r \in Run, NEW s \in Terminal \cup {"error", "parked", "blocked"},
           attempt[r] \in {"start", "guest", "stopping"}, Finish(r, s),
           NEW v \in Statuses, status' = [status EXCEPT ![r] = v],
           status[r] \in Terminal => v = status[r],
           s \in Terminal => v = s,
           UNCHANGED <<mainVars, told>>
    PROVE  SInv'
<1> USE DEF SInv
<1>1. /\ attempt' \in [Run -> {"none", "queued", "start", "guest", "stopping"}]
      /\ attempt'[r] = "none"
      /\ \A q \in Run : attempt'[q] \in {"none", "start", attempt[q]}
      /\ published' \in [Client -> Terminal \cup {"none", "error", "parked", "blocked"}]
      /\ \A c \in Client : \/ published'[c] = published[c]
                           \/ pc[c] = "result" /\ published'[c] = "error"
                           \/ pc[c] = "result" /\ run[c] = r /\ published'[c] = s
      /\ UNCHANGED <<pc, run, executorClosed>>
  BY FinishDoes
<1>2. UNCHANGED <<phase, closeErr, told>>
  BY DEF mainVars
<1>3. ServiceType'
  BY <1>1, <1>2 DEF ServiceType
<1>4. \A q \in Run : status[q] \in Terminal => status'[q] = status[q]
  BY DEF ServiceType
<1>5. GuestsRunOpen'
  BY <1>1 DEF GuestsRunOpen, ServiceType
<1>6. PendingTrue'
  <2> SUFFICES ASSUME NEW c \in Client
               PROVE  /\ (pc[c] = "result" /\ published[c] \in Terminal => status[run[c]] = published[c])'
                      /\ (pc[c] = "cancelled" => status[run[c]] = "cancelled")'
                      /\ (pc[c] # "result" => published[c] = "none")'
    BY DEF PendingTrue
  <2>1. "error" \notin Terminal /\ "cancelled" \in Terminal
    BY DEF Terminal
  <2>2. pc[c] # "idle" => run[c] \in Run
    BY DEF ServiceType
  <2>3. (pc[c] = "cancelled" => status[run[c]] = "cancelled")'
    BY <1>1, <1>4, <2>1, <2>2 DEF PendingTrue
  <2>4. CASE published'[c] = published[c] \/ (pc[c] = "result" /\ published'[c] = "error")
    BY <1>1, <1>4, <2>1, <2>2, <2>3, <2>4 DEF PendingTrue
  <2>5. CASE pc[c] = "result" /\ run[c] = r /\ published'[c] = s
    BY <1>1, <2>3, <2>5 DEF ServiceType
  <2> QED
    BY <1>1, <2>4, <2>5
<1>7. AnswersStand'
  <2> SUFFICES ASSUME NEW q \in Run PROVE told'[q] \subseteq {status'[q]}
    BY DEF AnswersStand
  <2>1. told[q] \subseteq {status[q]} \cap Terminal
    BY DEF AnswersStand, ServiceType
  <2> QED
    BY <1>2, <1>4, <2>1
<1>8. CloseMeansQuiet'
  BY <1>2 DEF CloseMeansQuiet, Live
<1>9. ClosedStays'
  BY <1>1, <1>2 DEF ClosedStays
<1> QED
  BY <1>3, <1>5, <1>6, <1>7, <1>8, <1>9

\* A queued attempt is dropped: by abort, or by Cancel with its own result.
LEMMA QueuedDropped ==
    ASSUME SInv, NEW r \in Run, NEW s \in {"error", "cancelled"}, attempt[r] = "queued",
           attempt' = [attempt EXCEPT ![r] = "none"], Publish(r, s),
           s = "cancelled" => status[r] = "cancelled"
    PROVE  /\ attempt' \in [Run -> {"none", "queued", "start", "guest", "stopping"}]
           /\ \A q \in Run : attempt'[q] \in {"none", attempt[q]}
           /\ published' \in [Client -> Terminal \cup {"none", "error", "parked", "blocked"}]
           /\ \A c \in Client : pc[c] = "result" /\ published'[c] \in Terminal
                                  => status[run[c]] = published'[c]
           /\ \A c \in Client : pc[c] # "result" => published'[c] = "none"
<1> USE DEF SInv
<1>1. attempt' \in [Run -> {"none", "queued", "start", "guest", "stopping"}]
      /\ \A q \in Run : attempt'[q] \in {"none", attempt[q]}
  BY DEF ServiceType
<1>2. published' = [c \in Client |-> IF Waits(c, r) THEN s ELSE published[c]]
  BY DEF Publish
<1>3. published' \in [Client -> Terminal \cup {"none", "error", "parked", "blocked"}]
  BY <1>2 DEF ServiceType, Terminal
<1>4. ASSUME NEW c \in Client, pc[c] = "result", published'[c] \in Terminal
      PROVE  status[run[c]] = published'[c]
  <2>1. CASE Waits(c, r)
    BY <1>2, <1>4, <2>1 DEF Waits, Terminal
  <2>2. CASE ~Waits(c, r)
    BY <1>2, <1>4, <2>2 DEF PendingTrue
  <2> QED
    BY <2>1, <2>2
<1>5. ASSUME NEW c \in Client, pc[c] # "result" PROVE published'[c] = "none"
  BY <1>2, <1>5 DEF Waits, PendingTrue
<1> QED
  BY <1>1, <1>3, <1>4, <1>5

-----------------------------------------------------------------------------
(* Each action preserves the invariant.                                     *)

\* The process starts with no attempt, no request and no answer given.
LEMMA InitSInv == Init => SInv
<1> SUFFICES ASSUME Init PROVE SInv
  OBVIOUS
<1>1. ServiceType
  BY DEF Init, ServiceType, Statuses
<1> QED
  BY <1>1 DEF Init, SInv, GuestsRunOpen, PendingTrue, ClosedStays, AnswersStand, CloseMeansQuiet

\* ServeHTTP, the refusals, a 408, and contexts that end are about requests only.
LEMMA RequestSteps ==
    ASSUME SInv, NEW c \in Client,
           \/ \E q \in Asked : q[1] = c /\ Arrive(c, q[2], q[3])
           \/ Refuse(c) \/ TimeOut(c) \/ CtxEnds(c)
    PROVE  SInv'
<1> USE DEF SInv
<1>0. ServiceType
  OBVIOUS
<1>1. ASSUME NEW q \in Asked, Arrive(c, q[2], q[3]) PROVE SInv'
  <2>1. q[2] \in Kinds /\ q[3] \in Run
    BY ServiceAssumption DEF Kinds
  <2> QED
    <3>1. /\ UNCHANGED <<status, attempt, executorClosed, phase, closeErr, told, published>>
          /\ pc' = [pc EXCEPT ![c] = q[2]] /\ run' = [run EXCEPT ![c] = q[3]]
          /\ pc[c] = "idle"
      BY <1>1 DEF Arrive, executorVars, mainVars, InFlight
    <3>2. /\ pc' \in [Client -> {"idle", "result", "cancelled"} \cup Kinds]
          /\ run' \in [Client -> Run \cup {NoRun}]
          /\ published' \in [Client -> Terminal \cup {"none", "error", "parked", "blocked"}]
          /\ pc'[c] \in Kinds /\ run'[c] \in Run /\ published'[c] = "none"
          /\ \A d \in Client \ {c} : pc'[d] = pc[d] /\ run'[d] = run[d]
      BY <2>1, <3>1 DEF ServiceType, PendingTrue
    <3> QED
      BY <3>1, <3>2, OnlyRequests
<1>2. CASE Refuse(c) \/ TimeOut(c)
  <2>1. Respond(c) /\ UNCHANGED <<status, attempt, executorClosed, phase, closeErr, told>>
    BY <1>2 DEF Refuse, TimeOut, executorVars, mainVars
  <2> QED
    BY <2>1, <1>0, RespondDoes, OnlyRequests
<1>3. CASE CtxEnds(c)
  BY <1>3, OnlyRequests DEF CtxEnds, executorVars, mainVars, ServiceType
<1> QED
  BY <1>1, <1>2, <1>3

\* handleCreate and handleResolve open a row, and change no settled one.
LEMMA RowSteps ==
    ASSUME SInv, NEW c \in Client, Create(c) \/ Resolve(c) PROVE SInv'
<1> USE DEF SInv
<1>0. ServiceType /\ run[c] \in Run
  BY DEF ServiceType, Create, Resolve
<1>1. UNCHANGED <<attempt, executorClosed, phase, closeErr, told>> /\ Respond(c)
  BY DEF Create, Resolve, executorVars, mainVars
<1>2. /\ status' \in [Run -> Statuses]
      /\ \A r \in Run : status[r] \in Terminal => status'[r] = status[r]
      /\ \A r \in Run : status'[r] \in {status[r], "active", "cancelled"}
  BY <1>0 DEF Create, Resolve, ServiceType, Statuses, Terminal
<1>3. /\ attempt' \in [Run -> {"none", "queued", "start", "guest", "stopping"}]
      /\ \A r \in Run : attempt'[r] = attempt[r]
  BY <1>1 DEF ServiceType
<1> QED
  BY <1>0, <1>1, <1>2, <1>3, RespondDoes, RowChanges

\* handleGet tells what the row says, Attempt.Result what was published of it.
LEMMA TellSteps ==
    ASSUME SInv, NEW c \in Client, Get(c) \/ Answer(c) PROVE SInv'
<1> USE DEF SInv
<1>0. ServiceType /\ run[c] \in Run
  BY DEF ServiceType, Get, Answer
<1>1. UNCHANGED <<status, attempt, executorClosed, phase, closeErr>> /\ Respond(c)
  BY DEF Get, Answer, executorVars, mainVars
<1>2. /\ told' \in [Run -> SUBSET Terminal]
      /\ \A r \in Run : told'[r] \subseteq {status[r]}
  <2>1. CASE told' = told
    BY <2>1 DEF ServiceType, AnswersStand
  <2>2. ASSUME NEW s, Tell(run[c], s), s \in Terminal => s = status[run[c]]
        PROVE  /\ told' \in [Run -> SUBSET Terminal]
               /\ \A r \in Run : told'[r] \subseteq {status[r]}
    BY <1>0, <2>2 DEF Tell, ServiceType, AnswersStand
  <2>3. CASE Get(c)
    BY <2>1, <2>2, <2>3 DEF Get
  <2>4. CASE Answer(c)
    BY <2>2, <2>4 DEF Answer, PendingTrue
  <2> QED
    BY <2>3, <2>4
<1>3. /\ pc' \in [Client -> {"idle", "result", "cancelled"} \cup Kinds]
      /\ run' \in [Client -> Run \cup {NoRun}]
      /\ published' \in [Client -> Terminal \cup {"none", "error", "parked", "blocked"}]
      /\ pc'[c] = "idle" /\ published'[c] = "none"
      /\ \A d \in Client \ {c} : /\ pc'[d] = pc[d] /\ run'[d] = run[d]
                                 /\ published'[d] = published[d]
  BY <1>0, <1>1, RespondDoes
<1>4. ServiceType'
  BY <1>1, <1>2, <1>3 DEF ServiceType
<1>5. PendingTrue'
  BY <1>1, <1>3 DEF PendingTrue
<1> QED
  BY <1>1, <1>2, <1>4, <1>5 DEF GuestsRunOpen, ClosedStays, AnswersStand, CloseMeansQuiet, Live

\* Admit starts or queues an attempt while the executor is open.
LEMMA AdmitStep ==
    ASSUME SInv, NEW c \in Client, NEW t \in TimeoutMS, Admit(c, t) PROVE SInv'
<1> USE DEF SInv
<1>0. run[c] \in Run
  BY DEF ServiceType, Admit
<1>1. /\ ~executorClosed
      /\ UNCHANGED <<run, published, executorClosed, status, phase, closeErr, told>>
      /\ pc' = [pc EXCEPT ![c] = "result"] /\ pc[c] = "attempt"
      /\ \E v \in {"start", "queued"} : attempt' = [attempt EXCEPT ![run[c]] = v]
  BY DEF Admit, Admissible, mainVars
<1>2. ServiceType'
  BY <1>0, <1>1 DEF ServiceType
<1>3. GuestsRunOpen'
  BY <1>0, <1>1 DEF GuestsRunOpen, ServiceType
<1>4. published[c] \notin Terminal
  BY <1>1 DEF PendingTrue, Terminal
<1>5. PendingTrue'
  BY <1>0, <1>1, <1>4 DEF PendingTrue, ServiceType
<1> QED
  BY <1>1, <1>2, <1>3, <1>5 DEF ClosedStays, AnswersStand, CloseMeansQuiet

\* abort of a queued attempt.
LEMMA AbortStep ==
    ASSUME SInv, NEW r \in Run, Abort(r) PROVE SInv'
<1> USE DEF SInv
<1>1. /\ attempt' \in [Run -> {"none", "queued", "start", "guest", "stopping"}]
      /\ \A q \in Run : attempt'[q] \in {"none", attempt[q]}
      /\ published' \in [Client -> Terminal \cup {"none", "error", "parked", "blocked"}]
      /\ \A c \in Client : pc[c] = "result" /\ published'[c] \in Terminal
                             => status[run[c]] = published'[c]
      /\ \A c \in Client : pc[c] # "result" => published'[c] = "none"
  BY QueuedDropped DEF Abort
<1>2. UNCHANGED <<executorClosed, pc, run, status, phase, closeErr, told>>
  BY DEF Abort, mainVars
<1>3. ServiceType'
  BY <1>1, <1>2 DEF ServiceType
<1>4. PendingTrue'
  BY <1>1, <1>2 DEF PendingTrue
<1>5. GuestsRunOpen'
  BY <1>1, <1>2 DEF GuestsRunOpen
<1> QED
  BY <1>1, <1>2, <1>3, <1>4, <1>5 DEF ClosedStays, AnswersStand, CloseMeansQuiet, Live

\* Runner.Resume up to the Guest answers a settled run from its row, and blocks
\* an open one whose definition does not match.
LEMMA StartStep ==
    ASSUME SInv, NEW r \in Run, Start(r) PROVE SInv'
<1> USE DEF SInv
<1>0. attempt[r] = "start" /\ UNCHANGED <<mainVars, told>>
  BY DEF Start
<1>1. /\ status[r] \in Statuses
      /\ status = [status EXCEPT ![r] = status[r]]
  BY DEF ServiceType
<1>2. CASE /\ status[r] \in Terminal \cup {"blocked"} /\ Finish(r, status[r])
           /\ UNCHANGED status
  <2>1. status' = [status EXCEPT ![r] = status[r]]
    BY <1>1, <1>2
  <2> QED
    BY <1>0, <1>1, <1>2, <2>1, AttemptEnds
<1>3. CASE Finish(r, "error") /\ UNCHANGED status
  <2>1. "error" \notin Terminal /\ status' = [status EXCEPT ![r] = status[r]]
    BY <1>1, <1>3 DEF Terminal
  <2> QED
    BY <1>0, <1>1, <1>3, <2>1, AttemptEnds
<1>5. CASE /\ Finish(r, "blocked")
           /\ status' = [status EXCEPT ![r] = IF @ \in Terminal THEN @ ELSE "blocked"]
  <2>1. "blocked" \notin Terminal /\ "blocked" \in Statuses
    BY DEF Terminal, Statuses
  <2>2. CASE status[r] \in Terminal
    <3>1. status' = [status EXCEPT ![r] = status[r]]
      BY <1>5, <2>2
    <3> QED
      BY <1>0, <1>1, <1>5, <2>1, <3>1, AttemptEnds
  <2>3. CASE status[r] \notin Terminal
    <3>1. status' = [status EXCEPT ![r] = "blocked"]
      BY <1>5, <2>3
    <3> QED
      BY <1>0, <1>5, <2>1, <2>3, <3>1, AttemptEnds
  <2> QED
    BY <2>2, <2>3
<1>4. CASE /\ status[r] \in {"active", "waiting"}
           /\ attempt' = [attempt EXCEPT ![r] = "guest"]
           /\ UNCHANGED <<status, owner, queue, executorClosed, clientVars>>
  <2>1. UNCHANGED <<executorClosed, pc, run, published, status, phase, closeErr, told>>
    BY <1>0, <1>4 DEF clientVars, mainVars
  <2>2. ServiceType'
    BY <1>4, <2>1 DEF ServiceType
  <2>3. GuestsRunOpen'
    BY <1>4, <2>1 DEF GuestsRunOpen, ServiceType
  <2>4. CloseMeansQuiet'
    BY <1>0, <2>1 DEF CloseMeansQuiet, Live
  <2> QED
    BY <2>1, <2>2, <2>3, <2>4 DEF PendingTrue, ClosedStays, AnswersStand
<1> QED
  BY <1>2, <1>3, <1>4, <1>5 DEF Start

\* Runner.Resume after the Guest persists and reports, or reports a
\* cancellation that was committed meanwhile.
LEMMA GuestEndsStep ==
    ASSUME SInv, NEW r \in Run, GuestEnds(r) PROVE SInv'
<1> USE DEF SInv
<1>0. /\ attempt[r] \in {"guest", "stopping"} /\ UNCHANGED <<mainVars, told>>
      /\ status[r] \in {"active", "waiting", "cancelled"}
  BY DEF GuestEnds, GuestsRunOpen
<1>1. status \in [Run -> Statuses] /\ status[r] \in Statuses
      /\ status = [status EXCEPT ![r] = status[r]]
  BY DEF ServiceType
<1>2. CASE status[r] = "cancelled"
  <2>1. Finish(r, "cancelled") /\ status' = [status EXCEPT ![r] = "cancelled"]
    BY <1>1, <1>2 DEF GuestEnds
  <2> QED
    BY <1>0, <1>1, <1>2, <2>1, AttemptEnds DEF Terminal, Statuses
<1>3. CASE status[r] # "cancelled"
  <2>0. status[r] \notin Terminal
    BY <1>0, <1>3 DEF Terminal
  <2>1. ASSUME NEW s \in {"completed", "failed", "blocked"},
               status' = [status EXCEPT ![r] = s], Finish(r, s)
        PROVE  SInv'
    BY <1>0, <2>0, <2>1, AttemptEnds DEF Terminal, Statuses
  <2>2. CASE status' = [status EXCEPT ![r] = "waiting"] /\ Finish(r, "parked")
    <3>1. "parked" \notin Terminal /\ "waiting" \in Statuses
      BY DEF Terminal, Statuses
    <3> QED
      BY <1>0, <2>0, <2>2, <3>1, AttemptEnds
  <2>3. ASSUME NEW s \in {"parked", "error"}, Finish(r, s), UNCHANGED status
        PROVE  SInv'
    <3>1. status' = [status EXCEPT ![r] = status[r]] /\ s \notin Terminal
      BY <1>1, <2>3 DEF Terminal
    <3> QED
      BY <1>0, <1>1, <2>3, <3>1, AttemptEnds
  <2> QED
    BY <1>3, <2>1, <2>2, <2>3 DEF GuestEnds
<1> QED
  BY <1>2, <1>3

\* The first half of handleCancel commits the cancellation of an open run.
LEMMA CancelCommitsStep ==
    ASSUME SInv, NEW c \in Client, CancelCommits(c) PROVE SInv'
<1> USE DEF SInv
<1>0. run[c] \in Run /\ pc[c] = "cancel"
  BY DEF ServiceType, CancelCommits
<1>1. /\ status' = [status EXCEPT ![run[c]] = "cancelled"]
      /\ status[run[c]] \notin {"absent", "completed", "failed"}
      /\ pc' = [pc EXCEPT ![c] = "cancelled"]
      /\ UNCHANGED <<run, published, executorClosed, phase, closeErr, told>>
  BY DEF CancelCommits, Goto, mainVars
<1>2. /\ attempt' \in [Run -> {"none", "queued", "start", "guest", "stopping"}]
      /\ \A r \in Run : attempt'[r] = attempt[r]
                        \/ (attempt[r] = "guest" /\ attempt'[r] = "stopping")
  BY <1>0 DEF CancelCommits, Stop, ServiceType
<1>3. /\ status' \in [Run -> Statuses]
      /\ \A r \in Run : status[r] \in Terminal => status'[r] = status[r]
      /\ \A r \in Run : status'[r] \in {status[r], "active", "cancelled"}
      /\ status'[run[c]] = "cancelled"
  BY <1>0, <1>1 DEF ServiceType, Statuses, Terminal
<1>4. /\ pc' \in [Client -> {"idle", "result", "cancelled"} \cup Kinds]
      /\ \A d \in Client \ {c} : pc'[d] = pc[d]
      /\ pc'[c] = "cancelled" /\ published[c] = "none"
  BY <1>0, <1>1 DEF ServiceType, PendingTrue
<1>5. run \in [Client -> Run \cup {NoRun}]
      /\ published \in [Client -> Terminal \cup {"none", "error", "parked", "blocked"}]
  BY DEF ServiceType
<1> QED
  BY <1>0, <1>1, <1>2, <1>3, <1>4, <1>5, RowChanges

\* The second half drops a queued attempt, or stops a Guest, and answers.
LEMMA CancelFindsStep ==
    ASSUME SInv, NEW c \in Client, CancelFinds(c) PROVE SInv'
<1> USE DEF SInv
<1>0. run[c] \in Run /\ pc[c] = "cancelled" /\ status[run[c]] = "cancelled"
  BY DEF ServiceType, CancelFinds, PendingTrue
<1>1. /\ Tell(run[c], "cancelled")
      /\ pc' = [pc EXCEPT ![c] = "idle"] /\ run' = [run EXCEPT ![c] = NoRun]
      /\ UNCHANGED <<executorClosed, status, phase, closeErr>>
  BY DEF CancelFinds, mainVars
<1>2. /\ attempt' \in [Run -> {"none", "queued", "start", "guest", "stopping"}]
      /\ \A q \in Run : attempt'[q] \in {"none", attempt[q]}
                        \/ (attempt[q] = "guest" /\ attempt'[q] = "stopping")
      /\ published' \in [Client -> Terminal \cup {"none", "error", "parked", "blocked"}]
      /\ \A d \in Client : pc[d] = "result" /\ published'[d] \in Terminal
                             => status[run[d]] = published'[d]
      /\ \A d \in Client : pc[d] # "result" => published'[d] = "none"
  <2>1. CASE attempt[run[c]] = "queued"
    BY <1>0, <2>1, QueuedDropped DEF CancelFinds
  <2>2. CASE attempt[run[c]] # "queued"
    <3>1. attempt' = Stop(run[c]) /\ UNCHANGED published
      BY <2>2 DEF CancelFinds
    <3> QED
      BY <1>0, <3>1 DEF Stop, ServiceType, PendingTrue
  <2> QED
    BY <2>1, <2>2
<1>3. /\ told' \in [Run -> SUBSET Terminal]
      /\ \A r \in Run : told'[r] \subseteq {status[r]}
  BY <1>0, <1>1 DEF Tell, ServiceType, AnswersStand
<1>4. /\ pc' \in [Client -> {"idle", "result", "cancelled"} \cup Kinds]
      /\ run' \in [Client -> Run \cup {NoRun}] /\ pc'[c] = "idle"
      /\ \A d \in Client \ {c} : pc'[d] = pc[d] /\ run'[d] = run[d]
  BY <1>1 DEF ServiceType
<1>5. ServiceType'
  BY <1>1, <1>2, <1>3, <1>4 DEF ServiceType
<1>6. PendingTrue'
  BY <1>0, <1>1, <1>2, <1>4 DEF PendingTrue
<1>7. GuestsRunOpen'
  BY <1>1, <1>2 DEF GuestsRunOpen
<1>8. AnswersStand'
  BY <1>1, <1>3 DEF AnswersStand
<1> QED
  BY <1>1, <1>2, <1>5, <1>6, <1>7, <1>8 DEF ClosedStays, CloseMeansQuiet, Live

\* main's shutdown: the executor is closed first, and Close returns nil only
\* when nothing is live.
LEMMA MainSteps ==
    ASSUME SInv, Signal \/ Shutdown \/ CloseExecutor \/ Drained PROVE SInv'
<1> USE DEF SInv
<1>1. UNCHANGED <<status, attempt, pc, run, published, told>>
  BY DEF Signal, Shutdown, CloseExecutor, Drained, Handled, executorVars, clientVars
<1>2. ServiceType' /\ GuestsRunOpen' /\ PendingTrue' /\ AnswersStand'
  BY <1>1 DEF ServiceType, GuestsRunOpen, PendingTrue, AnswersStand
<1>3. ClosedStays'
  BY DEF Signal, Shutdown, CloseExecutor, Drained, Handled, executorVars, mainVars, ClosedStays
<1>4. CloseMeansQuiet'
  BY <1>1 DEF Signal, Shutdown, CloseExecutor, Drained, mainVars, CloseMeansQuiet, Live
<1> QED
  BY <1>2, <1>3, <1>4

\* The death of the process leaves the rows and what clients were told.
LEMMA RestartStep ==
    ASSUME SInv, Restart PROVE SInv'
<1> USE DEF SInv
<1>1. ServiceType'
  BY DEF Restart, ServiceType
<1> QED
  BY <1>1 DEF Restart, GuestsRunOpen, PendingTrue, ClosedStays, AnswersStand, CloseMeansQuiet

\* Every step of the service preserves the invariant.
LEMMA NextSInv == SInv /\ [Next]_vars => SInv'
<1> SUFFICES ASSUME SInv, [Next]_vars PROVE SInv'
  OBVIOUS
<1>1. ASSUME NEW c \in Client, Handler(c) PROVE SInv'
  BY <1>1, RequestSteps, RowSteps, TellSteps, AdmitStep, CancelCommitsStep, CancelFindsStep
     DEF Handler
<1>2. CASE UNCHANGED vars
  BY <1>2 DEF SInv, ServiceType, GuestsRunOpen, PendingTrue, ClosedStays, AnswersStand,
     CloseMeansQuiet, Live, vars, executorVars, clientVars, mainVars
<1> QED
  BY <1>1, <1>2, RequestSteps, AbortStep, StartStep, GuestEndsStep, MainSteps, RestartStep
     DEF Next

\* The invariant holds in every reachable state, across restarts too.
THEOREM ServiceInvariant == Spec => []SInv
<1>1. Init => SInv
  BY InitSInv
<1>2. SInv /\ [Next]_vars => SInv'
  BY NextSInv
<1> QED
  BY <1>1, <1>2, PTL DEF Spec

\* What a client was told of a run's end is what the row says, for ever.
THEOREM ServiceAnswersStand == Spec => []AnswersStand
<1>1. SInv => AnswersStand
  BY DEF SInv
<1> QED
  BY <1>1, ServiceInvariant, PTL

\* A server that closed without an error has no attempt left.
THEOREM ServiceCloseMeansQuiet == Spec => []CloseMeansQuiet
<1>1. SInv => CloseMeansQuiet
  BY DEF SInv
<1> QED
  BY <1>1, ServiceInvariant, PTL
===============================================================================
