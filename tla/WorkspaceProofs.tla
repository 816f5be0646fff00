--------------------------- MODULE WorkspaceProofs ---------------------------
(* Proofs about WorkspaceService, for every set of requests and workspaces. *)
EXTENDS WorkspaceService, FiniteSetTheorems, TLAPS

-----------------------------------------------------------------------------
(* The inductive invariant: TypeOK, SlotsExact, GuestHasTree and OneHand with *)
(* what each handler knows at each of its steps.                              *)

\* Where a request works on the workspace it names.
RefPC == {"acquire", "remove", "find", "inspect", "take", "before", "begin",
          "after", "refused"} \cup HoldPC
\* Where Close can be.
ClosePC == {"close", "closing", "release", "unown", "remove", "manager", "done"}

\* What a request is and has at each of its steps.
HandlerState ==
    \A q \in Request :
        /\ pc[q] \in RefPC => ref[q] \in Ref
        /\ pc[q] \in {"admit", "guest"} /\ kind[q] = "run" => ref[q] \in Ref
        /\ pc[q] \in {"create", "acquire", "publish"} => kind[q] = "create"
        /\ pc[q] \in {"before", "begin", "after", "refused"} => kind[q] = "run"
        /\ pc[q] \in {"close", "closing", "manager"} => kind[q] = "close"
        /\ kind[q] = "close" => pc[q] \in ClosePC
        /\ kind[q] # "close" \/ pc[q] \in {"close", "manager", "done"} => todo[q] = {}

\* An entry outlives its lease and is owned until Release has ended; a closed
\* manager has removed every tree.
LeaseHistory ==
    \A r \in Ref :
        /\ lease[r] # "none" => entry[r] # "none"
        /\ Hands(r) # {} => lease[r] # "none"
        /\ r \in owned => lease[r] = "held" \/ \E q \in Request : pc[q] = "unown" /\ ref[q] = r
        /\ mclosed => entry[r] # "present"

\* A new workspace is known to its creator only; whoever removes one has given
\* it up before.
NewAlone ==
    \A q \in Request :
        /\ pc[q] \in {"acquire", "remove"} => entry[ref[q]] # "none"
        /\ pc[q] = "acquire" => lease[ref[q]] = "none"
        /\ pc[q] = "remove" => ref[q] \notin owned
        /\ pc[q] = "unown" => lease[ref[q]] = "released"
        /\ \A p \in Request :
              pc[q] = "acquire" /\ pc[p] \in {"acquire", "remove"} /\ ref[p] = ref[q] => p = q

\* q is the Close that took the leases, and has not returned.
Closer(q) == kind[q] = "close" /\ pc[q] \notin {"close", "done"}

\* Somebody still has to deal with the tree of r, or said that it stays.
Attended(r) ==
    \/ r \in leases \/ r \in refused \/ closeErr
    \/ Hands(r) # {}
    \/ \E q \in Request : pc[q] \in {"acquire", "remove"} /\ ref[q] = r
    \/ \E q \in Request : Closer(q)

\* No tree is lost: a closed server has Close still at work, a closed manager or
\* an error to show.
Accounted ==
    /\ \A r \in Ref : entry[r] = "present" => Attended(r)
    /\ closed => closeErr \/ mclosed \/ \E q \in Request : Closer(q)

WInv == /\ TypeOK /\ SlotsExact /\ HandlerState
        /\ GuestHasTree /\ OneHand /\ LeaseHistory /\ NewAlone
        /\ Accounted

\* A request arrives or goes on.
Moves(q) == Step(q) \/ \E k \in Kind, r \in Ref \cup {NoRef} : Arrive(q, k, r)

-----------------------------------------------------------------------------
(* Slots. *)

\* The requests between admit and the deferred release.
InSlot == {q \in Request : pc[q] \in SlotPC}

\* What one request's move does to the number of requests in a slot.
LEMMA SlotMoves ==
    ASSUME TypeOK, NEW q \in Request, NEW s \in PC, pc' = [pc EXCEPT ![q] = s]
    PROVE  /\ Cardinality(InSlot) \in Nat
           /\ Cardinality(InSlot') =
                IF s \in SlotPC
                THEN IF pc[q] \in SlotPC THEN Cardinality(InSlot) ELSE Cardinality(InSlot) + 1
                ELSE IF pc[q] \in SlotPC THEN Cardinality(InSlot) - 1 ELSE Cardinality(InSlot)
           /\ pc[q] \in SlotPC => Cardinality(InSlot) # 0
<1>1. InSlot' = IF s \in SlotPC THEN InSlot \cup {q} ELSE InSlot \ {q}
  BY DEF InSlot, TypeOK
<1>2. q \in InSlot <=> pc[q] \in SlotPC
  BY DEF InSlot
<1>3. IsFiniteSet(InSlot)
  BY ServiceAssumption, FS_Subset DEF InSlot
<1>4. Cardinality(InSlot) \in Nat
  BY <1>3, FS_CardinalityType
<1>5. Cardinality(InSlot \cup {q}) =
        IF q \in InSlot THEN Cardinality(InSlot) ELSE Cardinality(InSlot) + 1
  BY <1>3, FS_AddElement
<1>6. Cardinality(InSlot \ {q}) =
        IF q \in InSlot THEN Cardinality(InSlot) - 1 ELSE Cardinality(InSlot)
  BY <1>3, FS_RemoveElement
<1>7. q \in InSlot => Cardinality(InSlot) # 0
  BY <1>3, FS_EmptySet
<1> QED
  BY <1>1, <1>2, <1>4, <1>5, <1>6, <1>7

-----------------------------------------------------------------------------
(* One lemma per part: no handler's step breaks it. *)


\* Every return of a run's handler passes the deferred release of its slot.
LEMMA SlotsStep ==
    ASSUME TypeOK, SlotsExact, HandlerState,
           NEW q \in Request, Moves(q)
    PROVE  (TypeOK /\ SlotsExact)'
<1>0. slots = Cardinality(InSlot)
  BY DEF SlotsExact, InSlot
<1>a. ASSUME NEW s \in PC, pc' = [pc EXCEPT ![q] = s],
             slots' = IF s \in SlotPC
                      THEN IF pc[q] \in SlotPC THEN slots ELSE slots + 1
                      ELSE IF pc[q] \in SlotPC THEN slots - 1 ELSE slots,
             s \in SlotPC /\ pc[q] \notin SlotPC => slots < MaxActive
      PROVE  slots' \in 0..MaxActive /\ SlotsExact' /\ pc' \in [Request -> PC]
  <2>1. slots \in 0..MaxActive /\ MaxActive \in Nat /\ pc \in [Request -> PC]
    BY ServiceAssumption DEF TypeOK
  <2>2. /\ Cardinality(InSlot') = slots'
        /\ pc[q] \in SlotPC => slots # 0
    BY <1>0, <1>a, SlotMoves
  <2>3. SlotsExact'
    BY <2>2 DEF SlotsExact, InSlot
  <2>4. slots' \in 0..MaxActive
    BY <1>a, <2>1, <2>2
  <2> QED
    BY <1>a, <2>1, <2>3, <2>4
<1> USE DEF TypeOK, HandlerState, RefPC
<1>1. ASSUME NEW k \in Kind, NEW r \in Ref \cup {NoRef}, Arrive(q, k, r)
      PROVE  (TypeOK /\ SlotsExact)'
  <2>1. First[k] \in PC /\ First[k] \notin SlotPC /\ pc[q] \notin SlotPC
    BY <1>1 DEF Arrive, First, Kind, PC, SlotPC, HoldPC
  <2>2. slots' \in 0..MaxActive /\ SlotsExact' /\ pc' \in [Request -> PC]
    BY <1>1, <1>a, <2>1 DEF Arrive, serverVars
  <2> QED
    BY <1>1, <2>2 DEF Arrive, serverVars, managerVars, leaseVars
<1>2. CASE Create(q)
  <2>1. slots' \in 0..MaxActive /\ SlotsExact' /\ pc' \in [Request -> PC]
    BY <1>2, <1>a DEF Create, Respond, PC, SlotPC, HoldPC, serverVars, managerVars,
          leaseVars
  <2> QED
    BY <1>2, <2>1 DEF Create, Respond, Kind, Answer, serverVars, managerVars,
          leaseVars, HoldPC
<1>3. CASE Acquire(q)
  <2>1. slots' \in 0..MaxActive /\ SlotsExact' /\ pc' \in [Request -> PC]
    BY <1>3, <1>a DEF Acquire, Goto, PC, SlotPC, HoldPC, serverVars, managerVars,
          leaseVars
  <2> QED
    BY <1>3, <2>1 DEF Acquire, Goto, Kind, Answer, serverVars, managerVars, leaseVars,
          HoldPC
<1>4. CASE Publish(q)
  <2>1. slots' \in 0..MaxActive /\ SlotsExact' /\ pc' \in [Request -> PC]
    BY <1>4, <1>a DEF Publish, Goto, Respond, PC, SlotPC, HoldPC, serverVars,
          managerVars, leaseVars
  <2> QED
    BY <1>4, <2>1 DEF Publish, Goto, Respond, Kind, Answer, serverVars, managerVars,
          leaseVars, HoldPC
<1>5. CASE Find(q)
  <2>1. slots' \in 0..MaxActive /\ SlotsExact' /\ pc' \in [Request -> PC]
    BY <1>5, <1>a DEF Find, Goto, Respond, PC, SlotPC, HoldPC, serverVars,
          managerVars, leaseVars
  <2> QED
    BY <1>5, <2>1 DEF Find, Goto, Respond, Kind, Answer, serverVars, managerVars,
          leaseVars, HoldPC
<1>6. CASE Admit(q)
  <2>1. slots' \in 0..MaxActive /\ SlotsExact' /\ pc' \in [Request -> PC]
    BY <1>6, <1>a DEF Admit, Goto, Respond, PC, SlotPC, HoldPC, serverVars,
          managerVars, leaseVars
  <2> QED
    BY <1>6, <2>1 DEF Admit, Goto, Respond, Kind, Answer, serverVars, managerVars,
          leaseVars, HoldPC
<1>7. CASE Before(q)
  <2>1. slots' \in 0..MaxActive /\ SlotsExact' /\ pc' \in [Request -> PC]
    BY <1>7, <1>a DEF Before, Usable, Goto, Respond, RespondFromSlot, FreeSlot, PC,
          SlotPC, HoldPC, serverVars, managerVars, leaseVars
  <2> QED
    BY <1>7, <2>1 DEF Before, Usable, Goto, Respond, RespondFromSlot, FreeSlot, Kind,
          Answer, serverVars, managerVars, leaseVars, HoldPC
<1>8. CASE Begin(q)
  <2>1. slots' \in 0..MaxActive /\ SlotsExact' /\ pc' \in [Request -> PC]
    BY <1>8, <1>a DEF Begin, Usable, Goto, PC, SlotPC, HoldPC, serverVars,
          managerVars, leaseVars
  <2> QED
    BY <1>8, <2>1 DEF Begin, Usable, Goto, Kind, Answer, serverVars, managerVars,
          leaseVars, HoldPC
<1>9. CASE GuestEnds(q)
  <2>1. slots' \in 0..MaxActive /\ SlotsExact' /\ pc' \in [Request -> PC]
    BY <1>9, <1>a DEF GuestEnds, Goto, Respond, RespondFromSlot, FreeSlot, PC, SlotPC,
          HoldPC, serverVars, managerVars, leaseVars
  <2> QED
    BY <1>9, <2>1 DEF GuestEnds, Goto, Respond, RespondFromSlot, FreeSlot, Kind,
          Answer, serverVars, managerVars, leaseVars, HoldPC
<1>10. CASE After(q)
  <2>1. slots' \in 0..MaxActive /\ SlotsExact' /\ pc' \in [Request -> PC]
    BY <1>10, <1>a DEF After, Usable, Respond, RespondFromSlot, FreeSlot, PC, SlotPC,
          HoldPC, serverVars, managerVars, leaseVars
  <2> QED
    BY <1>10, <2>1 DEF After, Usable, Respond, RespondFromSlot, FreeSlot, Kind,
          Answer, serverVars, managerVars, leaseVars, HoldPC
<1>11. CASE Inspect(q)
  <2>1. slots' \in 0..MaxActive /\ SlotsExact' /\ pc' \in [Request -> PC]
    BY <1>11, <1>a DEF Inspect, Usable, Respond, PC, SlotPC, HoldPC, serverVars,
          managerVars, leaseVars
  <2> QED
    BY <1>11, <2>1 DEF Inspect, Usable, Respond, Kind, Answer, serverVars,
          managerVars, leaseVars, HoldPC
<1>12. CASE Take(q)
  <2>1. slots' \in 0..MaxActive /\ SlotsExact' /\ pc' \in [Request -> PC]
    BY <1>12, <1>a DEF Take, Goto, Respond, PC, SlotPC, HoldPC, serverVars,
          managerVars, leaseVars
  <2> QED
    BY <1>12, <2>1 DEF Take, Goto, Respond, Kind, Answer, serverVars, managerVars,
          leaseVars, HoldPC
<1>13. CASE Release(q)
  <2>1. slots' \in 0..MaxActive /\ SlotsExact' /\ pc' \in [Request -> PC]
    BY <1>13, <1>a DEF Release, Usable, ReleaseFailed, Goto, PC, SlotPC, HoldPC,
          serverVars, managerVars, leaseVars
  <2>2. closeErr' \in BOOLEAN
    BY <1>13, Zenon DEF Release, ReleaseFailed
  <2> QED
    BY <1>13, <2>1, <2>2 DEF Release, Usable, ReleaseFailed, Goto, Kind, Answer,
          serverVars, managerVars, leaseVars, HoldPC
<1>14. CASE Unown(q)
  <2>1. slots' \in 0..MaxActive /\ SlotsExact' /\ pc' \in [Request -> PC]
    BY <1>14, <1>a DEF Unown, ReleaseFailed, Goto, PC, SlotPC, HoldPC, serverVars,
          managerVars, leaseVars
  <2>2. closeErr' \in BOOLEAN
    BY <1>14, Zenon DEF Unown, ReleaseFailed
  <2> QED
    BY <1>14, <2>1, <2>2 DEF Unown, ReleaseFailed, Goto, Kind, Answer, serverVars,
          managerVars, leaseVars, HoldPC
<1>15. CASE Remove(q)
  <2>1. slots' \in 0..MaxActive /\ SlotsExact' /\ pc' \in [Request -> PC]
    BY <1>15, <1>a DEF Remove, Removed, Goto, Respond, PC, SlotPC, HoldPC, serverVars,
          managerVars, leaseVars
  <2>2. closeErr' \in BOOLEAN
    BY <1>15, Zenon DEF Remove, Removed
  <2> QED
    BY <1>15, <2>1, <2>2 DEF Remove, Removed, Goto, Respond, Kind, Answer, serverVars,
          managerVars, leaseVars, HoldPC
<1>16. CASE PutBack(q)
  <2>1. slots' \in 0..MaxActive /\ SlotsExact' /\ pc' \in [Request -> PC]
    BY <1>16, <1>a DEF PutBack, Respond, PC, SlotPC, HoldPC, serverVars, managerVars,
          leaseVars
  <2> QED
    BY <1>16, <2>1 DEF PutBack, Respond, Kind, Answer, serverVars, managerVars,
          leaseVars, HoldPC
<1>17. CASE Close(q)
  <2>1. slots' \in 0..MaxActive /\ SlotsExact' /\ pc' \in [Request -> PC]
    BY <1>17, <1>a DEF Close, Respond, PC, SlotPC, HoldPC, serverVars, managerVars,
          leaseVars
  <2> QED
    BY <1>17, <2>1 DEF Close, Respond, Kind, Answer, serverVars, managerVars,
          leaseVars, HoldPC
<1>18. CASE CloseNext(q)
  <2>1. slots' \in 0..MaxActive /\ SlotsExact' /\ pc' \in [Request -> PC]
    BY <1>18, <1>a DEF CloseNext, Goto, PC, SlotPC, HoldPC, serverVars, managerVars,
          leaseVars
  <2> QED
    BY <1>18, <2>1 DEF CloseNext, Goto, Kind, Answer, serverVars, managerVars,
          leaseVars, HoldPC
<1>19. CASE CloseManager(q)
  <2>1. slots' \in 0..MaxActive /\ SlotsExact' /\ pc' \in [Request -> PC]
    BY <1>19, <1>a DEF CloseManager, Respond, PC, SlotPC, HoldPC, serverVars,
          managerVars, leaseVars
  <2> QED
    BY <1>19, <2>1 DEF CloseManager, Respond, Kind, Answer, serverVars, managerVars,
          leaseVars, HoldPC
<1> QED
  BY <1>1, <1>2, <1>3, <1>4, <1>5, <1>6, <1>7, <1>8, <1>9, <1>10, <1>11, <1>12, <1>13,
        <1>14, <1>15, <1>16, <1>17, <1>18, <1>19 DEF Moves, Step


\* A request goes through its handler with the workspace and the kind it started
\* with; only Close has leases left to do.
LEMMA HandlerStep ==
    ASSUME TypeOK, HandlerState,
           NEW q \in Request, Moves(q)
    PROVE  HandlerState'
<1> USE DEF TypeOK, HandlerState, RefPC, ClosePC, HoldPC, SlotPC, PC, Kind
<1>1. ASSUME NEW k \in Kind, NEW r \in Ref \cup {NoRef}, Arrive(q, k, r)
      PROVE  HandlerState'
  <2>1. First[k] \in {"create", "find", "admit", "take", "close"}
    BY DEF First, Kind
  <2> QED BY <1>1, <2>1 DEF Arrive, First, Kind, serverVars, managerVars, leaseVars
<1>2. CASE Create(q)
  BY <1>2 DEF Create, Respond, serverVars, managerVars, leaseVars
<1>3. CASE Acquire(q)
  BY <1>3 DEF Acquire, Goto, serverVars, managerVars, leaseVars
<1>4. CASE Publish(q)
  BY <1>4 DEF Publish, Goto, Respond, serverVars, managerVars, leaseVars
<1>5. CASE Find(q)
  BY <1>5 DEF Find, Goto, Respond, serverVars, managerVars, leaseVars
<1>6. CASE Admit(q)
  BY <1>6 DEF Admit, Goto, Respond, serverVars, managerVars, leaseVars
<1>7. CASE Before(q)
  BY <1>7 DEF Before, Usable, Goto, Respond, RespondFromSlot, FreeSlot, serverVars,
        managerVars, leaseVars
<1>8. CASE Begin(q)
  BY <1>8 DEF Begin, Usable, Goto, serverVars, managerVars, leaseVars
<1>9. CASE GuestEnds(q)
  BY <1>9 DEF GuestEnds, Goto, Respond, RespondFromSlot, FreeSlot, serverVars,
        managerVars, leaseVars
<1>10. CASE After(q)
  BY <1>10 DEF After, Usable, Respond, RespondFromSlot, FreeSlot, serverVars,
        managerVars, leaseVars
<1>11. CASE Inspect(q)
  BY <1>11 DEF Inspect, Usable, Respond, serverVars, managerVars, leaseVars
<1>12. CASE Take(q)
  BY <1>12 DEF Take, Goto, Respond, serverVars, managerVars, leaseVars
<1>13. CASE Release(q)
  BY <1>13 DEF Release, Usable, ReleaseFailed, Goto, serverVars, managerVars,
        leaseVars
<1>14. CASE Unown(q)
  BY <1>14 DEF Unown, ReleaseFailed, Goto, serverVars, managerVars, leaseVars
<1>15. CASE Remove(q)
  BY <1>15 DEF Remove, Removed, Goto, Respond, serverVars, managerVars, leaseVars
<1>16. CASE PutBack(q)
  BY <1>16 DEF PutBack, Respond, serverVars, managerVars, leaseVars
<1>17. CASE Close(q)
  BY <1>17 DEF Close, Respond, serverVars, managerVars, leaseVars
<1>18. CASE CloseNext(q)
  BY <1>18 DEF CloseNext, Goto, serverVars, managerVars, leaseVars
<1>19. CASE CloseManager(q)
  BY <1>19 DEF CloseManager, Respond, serverVars, managerVars, leaseVars
<1> QED
  BY <1>1, <1>2, <1>3, <1>4, <1>5, <1>6, <1>7, <1>8, <1>9, <1>10, <1>11, <1>12, <1>13,
        <1>14, <1>15, <1>16, <1>17, <1>18, <1>19 DEF Moves, Step

\* A Guest's tree stays: BeginRun and Release exclude each other under the
\* lease's mutex, and Destroy finds an owned entry busy.
LEMMA GuestStep ==
    ASSUME TypeOK, HandlerState, GuestHasTree, LeaseHistory, NewAlone,
           NEW q \in Request, Moves(q)
    PROVE  GuestHasTree'
<1> USE DEF TypeOK, HandlerState, RefPC, ClosePC, HoldPC, GuestHasTree, Mounted,
      LeaseHistory, NewAlone
<1>1. ASSUME NEW k \in Kind, NEW r \in Ref \cup {NoRef}, Arrive(q, k, r)
      PROVE  GuestHasTree'
  <2>1. First[k] \in {"create", "find", "admit", "take", "close"}
    BY DEF First, Kind
  <2> QED BY <1>1, <2>1 DEF Arrive, First, Kind, serverVars, managerVars, leaseVars
<1>2. CASE Create(q)
  BY <1>2 DEF Create, Respond, serverVars, managerVars, leaseVars
<1>3. CASE Acquire(q)
  BY <1>3 DEF Acquire, Goto, serverVars, managerVars, leaseVars
<1>4. CASE Begin(q)
  BY <1>4 DEF Begin, Usable, Goto, serverVars, managerVars, leaseVars
<1>5. CASE GuestEnds(q)
  BY <1>5 DEF GuestEnds, Goto, Respond, RespondFromSlot, FreeSlot, serverVars,
        managerVars, leaseVars
<1>6. CASE Release(q)
  BY <1>6 DEF Release, Usable, ReleaseFailed, Goto, serverVars, managerVars, leaseVars
<1>7. CASE Unown(q)
  BY <1>7 DEF Unown, ReleaseFailed, Goto, serverVars, managerVars, leaseVars
<1>8. CASE Remove(q)
  BY <1>8 DEF Remove, Removed, Goto, Respond, serverVars, managerVars, leaseVars
<1>9. CASE CloseManager(q)
  BY <1>9 DEF CloseManager, Respond, serverVars, managerVars, leaseVars
<1>10. CASE Find(q) \/ Admit(q) \/ Before(q) \/ After(q) \/ Inspect(q) \/ Publish(q)
      \/ Take(q) \/ PutBack(q) \/ Close(q) \/ CloseNext(q)
  BY <1>10 DEF Find, Goto, Respond, Admit, Before, Usable, RespondFromSlot, FreeSlot,
        After, Inspect, Publish, Take, PutBack, Close, CloseNext, serverVars,
        managerVars, leaseVars
<1> QED
  BY <1>1, <1>2, <1>3, <1>4, <1>5, <1>6, <1>7, <1>8, <1>9, <1>10 DEF Moves, Step

\* A lease passes from the map into one hand and back, never into a second one.
LEMMA HandStep ==
    ASSUME TypeOK, HandlerState, OneHand, LeaseHistory, NewAlone,
           NEW q \in Request, Moves(q)
    PROVE  OneHand'
<1> USE DEF TypeOK, HandlerState, RefPC, ClosePC, HoldPC, OneHand, Hands,
      LeaseHistory, NewAlone
<1>1. ASSUME NEW k \in Kind, NEW r \in Ref \cup {NoRef}, Arrive(q, k, r)
      PROVE  OneHand'
  <2>1. First[k] \in {"create", "find", "admit", "take", "close"}
    BY DEF First, Kind
  <2> QED BY <1>1, <2>1 DEF Arrive, First, Kind, serverVars, managerVars, leaseVars
<1>2. CASE Acquire(q)
  BY <1>2 DEF Acquire, Goto, serverVars, managerVars, leaseVars
<1>3. CASE Publish(q)
  BY <1>3 DEF Publish, Goto, Respond, serverVars, managerVars, leaseVars
<1>4. CASE Take(q)
  BY <1>4 DEF Take, Goto, Respond, serverVars, managerVars, leaseVars
<1>5. CASE Release(q)
  BY <1>5 DEF Release, Usable, ReleaseFailed, Goto, serverVars, managerVars, leaseVars
<1>6. CASE Unown(q)
  BY <1>6 DEF Unown, ReleaseFailed, Goto, serverVars, managerVars, leaseVars
<1>7. CASE PutBack(q)
  BY <1>7 DEF PutBack, Respond, serverVars, managerVars, leaseVars
<1>8. CASE Close(q)
  BY <1>8 DEF Close, Respond, serverVars, managerVars, leaseVars
<1>9. CASE CloseNext(q)
  BY <1>9 DEF CloseNext, Goto, serverVars, managerVars, leaseVars
<1>10. CASE Find(q) \/ Admit(q) \/ Before(q) \/ After(q) \/ Inspect(q) \/ Create(q) \/
      Begin(q) \/ GuestEnds(q) \/ Remove(q) \/ CloseManager(q)
  BY <1>10 DEF Find, Goto, Respond, Admit, Before, Usable, RespondFromSlot, FreeSlot,
        After, Inspect, Create, Begin, GuestEnds, Remove, Removed, CloseManager,
        serverVars, managerVars, leaseVars
<1> QED
  BY <1>1, <1>2, <1>3, <1>4, <1>5, <1>6, <1>7, <1>8, <1>9, <1>10 DEF Moves, Step

\* An entry outlives its lease, and is owned until Release has ended.
LEMMA LeaseStep ==
    ASSUME TypeOK, HandlerState, OneHand, GuestHasTree, LeaseHistory, NewAlone,
           NEW q \in Request, Moves(q)
    PROVE  LeaseHistory'
<1> USE DEF TypeOK, HandlerState, RefPC, ClosePC, HoldPC, OneHand, Hands,
      LeaseHistory, NewAlone, GuestHasTree
<1>1. ASSUME NEW k \in Kind, NEW r \in Ref \cup {NoRef}, Arrive(q, k, r)
      PROVE  LeaseHistory'
  <2>1. First[k] \in {"create", "find", "admit", "take", "close"}
    BY DEF First, Kind
  <2> QED BY <1>1, <2>1 DEF Arrive, First, Kind, serverVars, managerVars, leaseVars
<1>2. CASE Create(q)
  BY <1>2 DEF Create, Respond, serverVars, managerVars, leaseVars
<1>3. CASE Acquire(q)
  BY <1>3 DEF Acquire, Goto, serverVars, managerVars, leaseVars
<1>4. CASE Publish(q)
  BY <1>4 DEF Publish, Goto, Respond, serverVars, managerVars, leaseVars
<1>5. CASE Take(q)
  BY <1>5 DEF Take, Goto, Respond, serverVars, managerVars, leaseVars
<1>6. CASE Release(q)
  BY <1>6 DEF Release, Usable, ReleaseFailed, Goto, serverVars, managerVars, leaseVars
<1>7. CASE Unown(q)
  BY <1>7 DEF Unown, ReleaseFailed, Goto, serverVars, managerVars, leaseVars
<1>8. CASE Remove(q)
  BY <1>8 DEF Remove, Removed, Goto, Respond, serverVars, managerVars, leaseVars
<1>9. CASE PutBack(q)
  BY <1>9 DEF PutBack, Respond, serverVars, managerVars, leaseVars
<1>10. CASE CloseNext(q)
  BY <1>10 DEF CloseNext, Goto, serverVars, managerVars, leaseVars
<1>11. CASE CloseManager(q)
  BY <1>11 DEF CloseManager, Respond, serverVars, managerVars, leaseVars
<1>12. CASE Find(q) \/ Admit(q) \/ Before(q) \/ After(q) \/ Inspect(q) \/ Begin(q) \/
      GuestEnds(q) \/ Close(q)
  BY <1>12 DEF Find, Goto, Respond, Admit, Before, Usable, RespondFromSlot, FreeSlot,
        After, Inspect, Begin, GuestEnds, Close, serverVars, managerVars, leaseVars
<1> QED
  BY <1>1, <1>2, <1>3, <1>4, <1>5, <1>6, <1>7, <1>8, <1>9, <1>10, <1>11, <1>12 DEF
        Moves, Step

\* A new workspace is its creator's alone, and whoever removes one has given
\* it up.
LEMMA NewStep ==
    ASSUME TypeOK, HandlerState, OneHand, GuestHasTree, LeaseHistory, NewAlone,
           NEW q \in Request, Moves(q)
    PROVE  NewAlone'
<1> USE DEF TypeOK, HandlerState, RefPC, ClosePC, HoldPC, OneHand, Hands,
      LeaseHistory, NewAlone, GuestHasTree
<1>1. ASSUME NEW k \in Kind, NEW r \in Ref \cup {NoRef}, Arrive(q, k, r)
      PROVE  NewAlone'
  <2>1. First[k] \in {"create", "find", "admit", "take", "close"}
    BY DEF First, Kind
  <2> QED BY <1>1, <2>1 DEF Arrive, First, Kind, serverVars, managerVars, leaseVars
<1>2. CASE Create(q)
  BY <1>2 DEF Create, Respond, serverVars, managerVars, leaseVars
<1>3. CASE Acquire(q)
  BY <1>3 DEF Acquire, Goto, serverVars, managerVars, leaseVars
<1>4. CASE Publish(q)
  BY <1>4 DEF Publish, Goto, Respond, serverVars, managerVars, leaseVars
<1>5. CASE Take(q)
  BY <1>5 DEF Take, Goto, Respond, serverVars, managerVars, leaseVars
<1>6. CASE Release(q)
  BY <1>6 DEF Release, Usable, ReleaseFailed, Goto, serverVars, managerVars, leaseVars
<1>7. CASE Unown(q)
  BY <1>7 DEF Unown, ReleaseFailed, Goto, serverVars, managerVars, leaseVars
<1>8. CASE Remove(q)
  BY <1>8 DEF Remove, Removed, Goto, Respond, serverVars, managerVars, leaseVars
<1>9. CASE PutBack(q)
  BY <1>9 DEF PutBack, Respond, serverVars, managerVars, leaseVars
<1>10. CASE CloseNext(q)
  BY <1>10 DEF CloseNext, Goto, serverVars, managerVars, leaseVars
<1>11. CASE CloseManager(q)
  BY <1>11 DEF CloseManager, Respond, serverVars, managerVars, leaseVars
<1>12. CASE Find(q) \/ Admit(q) \/ Before(q) \/ After(q) \/ Inspect(q) \/ Begin(q) \/
      GuestEnds(q) \/ Close(q)
  BY <1>12 DEF Find, Goto, Respond, Admit, Before, Usable, RespondFromSlot, FreeSlot,
        After, Inspect, Begin, GuestEnds, Close, serverVars, managerVars, leaseVars
<1> QED
  BY <1>1, <1>2, <1>3, <1>4, <1>5, <1>6, <1>7, <1>8, <1>9, <1>10, <1>11, <1>12 DEF
        Moves, Step

\* Whoever lets go of a tree removes it, puts it back or reports it; the tree
\* that a closed server's handler drops is left to Close.
LEMMA AccountedStep ==
    ASSUME TypeOK, HandlerState, LeaseHistory, NewAlone, Accounted,
           NEW q \in Request, Moves(q)
    PROVE  Accounted'
<1> USE DEF TypeOK, HandlerState, RefPC, ClosePC, HoldPC, Hands, LeaseHistory,
      NewAlone, Accounted, Attended, Closer
<1>1. ASSUME NEW k \in Kind, NEW r \in Ref \cup {NoRef}, Arrive(q, k, r)
      PROVE  Accounted'
  <2>1. First[k] \in {"create", "find", "admit", "take", "close"}
    BY DEF First, Kind
  <2> QED BY <1>1, <2>1 DEF Arrive, First, Kind, serverVars, managerVars, leaseVars
<1>2. CASE Create(q)
  BY <1>2 DEF Create, Respond, serverVars, managerVars, leaseVars
<1>3. CASE Acquire(q)
  BY <1>3 DEF Acquire, Goto, serverVars, managerVars, leaseVars
<1>4. CASE Publish(q)
  BY <1>4 DEF Publish, Goto, Respond, serverVars, managerVars, leaseVars
<1>5. CASE Take(q)
  BY <1>5 DEF Take, Goto, Respond, serverVars, managerVars, leaseVars
<1>6. CASE Release(q)
  BY <1>6 DEF Release, Usable, ReleaseFailed, Goto, serverVars, managerVars, leaseVars
<1>7. CASE Unown(q)
  BY <1>7 DEF Unown, ReleaseFailed, Goto, serverVars, managerVars, leaseVars
<1>8. CASE Remove(q)
  BY <1>8 DEF Remove, Removed, Goto, Respond, serverVars, managerVars, leaseVars
<1>9. CASE PutBack(q)
  BY <1>9 DEF PutBack, Respond, serverVars, managerVars, leaseVars
<1>10. CASE Close(q)
  BY <1>10 DEF Close, Respond, serverVars, managerVars, leaseVars
<1>11. CASE CloseNext(q)
  BY <1>11 DEF CloseNext, Goto, serverVars, managerVars, leaseVars
<1>12. CASE CloseManager(q)
  BY <1>12 DEF CloseManager, Respond, serverVars, managerVars, leaseVars
<1>13. CASE Find(q) \/ Admit(q) \/ Before(q) \/ After(q) \/ Inspect(q) \/ Begin(q) \/
      GuestEnds(q)
  BY <1>13 DEF Find, Goto, Respond, Admit, Before, Usable, RespondFromSlot, FreeSlot,
        After, Inspect, Begin, GuestEnds, serverVars, managerVars, leaseVars
<1> QED
  BY <1>1, <1>2, <1>3, <1>4, <1>5, <1>6, <1>7, <1>8, <1>9, <1>10, <1>11, <1>12, <1>13
        DEF Moves, Step

-----------------------------------------------------------------------------
(* Theorems. *)

\* Initially there are no workspaces and no request has arrived.
LEMMA WInit == Init => WInv
<1> SUFFICES ASSUME Init PROVE WInv
  OBVIOUS
<1> USE DEF Init
<1>1. InSlot = {}
  BY DEF InSlot, SlotPC
<1>2. SlotsExact
  BY <1>1, FS_EmptySet DEF SlotsExact, InSlot
<1>3. TypeOK
  <2>1. slots \in 0..MaxActive
    BY ServiceAssumption
  <2>2. /\ mu \in {"free", "stuck"} /\ closed \in BOOLEAN /\ mclosed \in BOOLEAN
        /\ closeErr \in BOOLEAN
    BY Zenon
  <2> QED
    BY <2>1, <2>2 DEF TypeOK, PC, Kind, Answer
<1>4. HandlerState
  BY DEF HandlerState, RefPC, HoldPC
<1>5. GuestHasTree /\ OneHand /\ LeaseHistory
  BY DEF GuestHasTree, Mounted, OneHand, LeaseHistory, Hands, HoldPC
<1>6. NewAlone /\ Accounted
  BY DEF NewAlone, Accounted
<1> QED
  BY <1>2, <1>3, <1>4, <1>5, <1>6 DEF WInv

\* Every step of every handler preserves the invariant.
LEMMA WStep == WInv /\ [Next]_vars => WInv'
<1> SUFFICES ASSUME WInv, [Next]_vars PROVE WInv'
  OBVIOUS
<1>1. ASSUME NEW q \in Request, Moves(q) PROVE WInv'
  <2> USE <1>1 DEF WInv
  <2>1. (TypeOK /\ SlotsExact)'
    BY SlotsStep
  <2>2. HandlerState'
    BY HandlerStep
  <2>3. GuestHasTree'
    BY GuestStep
  <2>4. OneHand'
    BY HandStep
  <2>5. LeaseHistory'
    BY LeaseStep
  <2>6. NewAlone'
    BY NewStep
  <2>7. Accounted'
    BY AccountedStep
  <2> QED
    BY <2>1, <2>2, <2>3, <2>4, <2>5, <2>6, <2>7
<1>2. CASE UNCHANGED vars
  <2> USE <1>2 DEF vars, serverVars, managerVars, leaseVars, requestVars, WInv
  <2>1. (TypeOK /\ SlotsExact /\ HandlerState)'
    BY DEF TypeOK, SlotsExact, HandlerState
  <2>2. (GuestHasTree /\ OneHand)'
    BY DEF GuestHasTree, Mounted, OneHand, Hands
  <2>3. (LeaseHistory /\ NewAlone)'
    BY DEF LeaseHistory, NewAlone, Hands
  <2>4. Accounted'
    BY DEF Accounted, Attended, Closer, Hands
  <2> QED
    BY <2>1, <2>2, <2>3, <2>4
<1> QED
  BY <1>1, <1>2 DEF Next, Moves

\* The invariant of the service, its manager and its leases.
THEOREM WorkspaceInvariant == Spec => []WInv
  BY WInit, WStep, PTL DEF Spec

\* Every variable keeps its type; in particular server.slots never holds more
\* than its capacity and no deferred release finds it empty.
THEOREM WorkspaceTypeCorrect == Spec => []TypeOK
<1>1. WInv => TypeOK
  BY DEF WInv
<1> QED
  BY <1>1, WorkspaceInvariant, PTL

\* server.slots holds one token for each request that is in a slot.
THEOREM WorkspaceSlots == Spec => []SlotsExact
<1>1. WInv => SlotsExact
  BY DEF WInv
<1> QED
  BY <1>1, WorkspaceInvariant, PTL

\* A Guest has its tree, to itself, as long as it runs.
THEOREM WorkspaceGuestHasTree == Spec => []GuestHasTree
<1>1. WInv => GuestHasTree
  BY DEF WInv
<1> QED
  BY <1>1, WorkspaceInvariant, PTL

\* A lease is in the map or in one request's hands, never in two.
THEOREM WorkspaceOneHand == Spec => []OneHand
<1>1. WInv => OneHand
  BY DEF WInv
<1> QED
  BY <1>1, WorkspaceInvariant, PTL

\* When no request is in progress, a tree that no request can reach was refused
\* by the system or reported by Close.
THEOREM WorkspaceNothingLeaks == Spec => []NothingLeaks
<1>1. WInv => NothingLeaks
  <2> SUFFICES ASSUME WInv, \A q \in Request : pc[q] \in {"idle", "done"},
                      NEW r \in Ref, entry[r] = "present"
               PROVE  r \in leases \/ r \in refused \/ closeErr
    BY DEF NothingLeaks
  <2>1. \A q \in Request : ~Closer(q)
    BY DEF WInv, HandlerState, ClosePC, Closer
  <2>2. \A q \in Request : r \notin todo[q]
    BY DEF WInv, HandlerState, ClosePC
  <2>3. Hands(r) = {}
    BY <2>2 DEF Hands, HoldPC
  <2> QED
    BY <2>1, <2>3 DEF WInv, Accounted, Attended
<1> QED
  BY <1>1, WorkspaceInvariant, PTL
=============================================================================
