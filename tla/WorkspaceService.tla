--------------------------- MODULE WorkspaceService ---------------------------
(***************************************************************************)
(* The workspace HTTP service (service/server.go) over the workspace       *)
(* manager and its leases (runtime/workspace/workspace.go).                *)
(*                                                                         *)
(* handleCreate creates a workspace, acquires its lease and puts it into   *)
(* server.leases; runs and inspections look it up there; handleDestroy and *)
(* Close take it out, release it and destroy the workspace.  Three kinds   *)
(* of mutex are involved (the server's, the manager's and each lease's)    *)
(* and no handler holds one across a call that takes another, so a handler *)
(* is a sequence of critical sections: one step each.                      *)
(*                                                                         *)
(* Every process is one request, Close included.  A lease is never used    *)
(* after its release: released stays true.  The manager's and the leases'  *)
(* mutexes are free between steps; the server's may be left locked by a    *)
(* handler that panics, so it is the variable mu.                          *)
(***************************************************************************)
EXTENDS Naturals, FiniteSets

CONSTANTS
    Request,     \* HTTP requests and calls of Close
    Ref,         \* workspace references, each allocated at most once
    NoRef,
    MaxActive    \* maxActive: the capacity of server.slots

ASSUME ServiceAssumption ==
    /\ IsFiniteSet(Request)
    /\ NoRef \notin Ref
    /\ MaxActive \in Nat \ {0}

VARIABLES
    mu,              \* server.mu: "free" between steps, or "stuck" for ever
    closed, leases,  \* server.closed; the references in server.leases
    slots,           \* tokens in server.slots
    entry,           \* manager.entries: "none", "present" or "gone"
    owned,           \* references whose entry has an owner
    mclosed,         \* manager.closed
    lease,           \* each reference's lease: "none", "held" or "released"
    running,         \* references whose lease is running
    pc, kind, ref,   \* each request: where it is, what it is, its workspace
    todo,            \* the leases Close still has to release
    answer,          \* each request's answer
    refused,         \* references whose directory the system did not remove
    closeErr         \* Close returned an error

serverVars  == <<mu, closed, leases, slots>>
managerVars == <<entry, owned, mclosed, refused>>
leaseVars   == <<lease, running>>
requestVars == <<pc, kind, ref, todo, answer>>
vars == <<serverVars, managerVars, leaseVars, requestVars, closeErr>>

-----------------------------------------------------------------------------
Kind   == {"create", "run", "plain", "inspect", "destroy", "close"}
Answer == {"none", "ok", "notFound", "busy", "full", "error", "dropped"}

\* Where a handler starts.
First == [create |-> "create", run |-> "find", plain |-> "admit",
          inspect |-> "find", destroy |-> "take", close |-> "close"]

\* Between admit and the deferred release.
SlotPC == {"before", "begin", "guest", "after", "refused"}
\* Where a request has the lease in its own hands, out of server.leases.
HoldPC == {"publish", "release", "unown", "putback"}
PC     == {"idle", "create", "acquire", "remove", "find", "admit", "inspect", "take",
           "close", "closing", "manager", "done"} \cup SlotPC \cup HoldPC

Unlocked == mu = "free"

\* A client knows a reference from the answer to its create request.
Known(r) == \E q \in Request : kind[q] = "create" /\ ref[q] = r /\ answer[q] = "ok"

\* Snapshot, ReadFile and BeginRun find the lease neither released nor running.
Usable(r) == lease[r] = "held" /\ r \notin running

Goto(q, s) ==
    /\ pc' = [pc EXCEPT ![q] = s]
    /\ UNCHANGED <<kind, ref, todo, answer>>

\* The handler returns; the deferred server.release gives a slot back.
Respond(q, a) ==
    /\ pc' = [pc EXCEPT ![q] = "done"]
    /\ answer' = [answer EXCEPT ![q] = a]
    /\ UNCHANGED <<kind, ref, todo>>

\* Variant: an error path without the deferred release.
FreeSlotOnSuccess(a) == slots' = IF a = "ok" THEN slots - 1 ELSE slots

FreeSlot(a) == slots' = slots - 1

RespondFromSlot(q, a) == Respond(q, a) /\ FreeSlot(a)

Init ==
    /\ mu = "free" /\ closed = FALSE /\ leases = {} /\ slots = 0
    /\ entry = [r \in Ref |-> "none"] /\ owned = {} /\ mclosed = FALSE
    /\ lease = [r \in Ref |-> "none"] /\ running = {}
    /\ pc = [q \in Request |-> "idle"]
    /\ kind = [q \in Request |-> "plain"]
    /\ ref = [q \in Request |-> NoRef]
    /\ todo = [q \in Request |-> {}]
    /\ answer = [q \in Request |-> "none"]
    /\ refused = {} /\ closeErr = FALSE

\* A request arrives; ServeHTTP routes it to its handler.
Arrive(q, k, r) ==
    /\ pc[q] = "idle"
    /\ IF k \in {"run", "inspect", "destroy"} THEN r \in Ref /\ Known(r) ELSE r = NoRef
    /\ kind' = [kind EXCEPT ![q] = k]
    /\ ref' = [ref EXCEPT ![q] = r]
    /\ pc' = [pc EXCEPT ![q] = First[k]]
    /\ UNCHANGED <<serverVars, managerVars, leaseVars, todo, answer, closeErr>>

-----------------------------------------------------------------------------
(* handleCreate.                                                            *)

\* Manager.Create: a new reference and its tree, or an error that leaves none.
Create(q) ==
    /\ pc[q] = "create"
    /\ \/ /\ ~mclosed
          /\ \E r \in Ref : /\ entry[r] = "none"
                            /\ entry' = [entry EXCEPT ![r] = "present"]
                            /\ ref' = [ref EXCEPT ![q] = r]
          /\ pc' = [pc EXCEPT ![q] = "acquire"]
          /\ UNCHANGED <<kind, todo, answer>>
       \/ Respond(q, "error") /\ UNCHANGED entry
    /\ UNCHANGED <<serverVars, owned, mclosed, refused, leaseVars, closeErr>>

\* Manager.Acquire: the manager may have been closed, or the scan may fail.
Acquire(q) ==
    /\ pc[q] = "acquire"
    /\ \/ /\ ~mclosed /\ entry[ref[q]] = "present" /\ ref[q] \notin owned
          /\ owned' = owned \cup {ref[q]}
          /\ lease' = [lease EXCEPT ![ref[q]] = "held"]
          /\ Goto(q, "publish")
       \/ Goto(q, "remove") /\ UNCHANGED <<owned, lease>>
    /\ UNCHANGED <<serverVars, entry, mclosed, refused, running, closeErr>>

\* Into server.leases, unless the server was closed meanwhile.
Publish(q) ==
    /\ pc[q] = "publish" /\ Unlocked
    /\ IF closed
       THEN Goto(q, "release") /\ UNCHANGED leases
       ELSE leases' = leases \cup {ref[q]} /\ Respond(q, "ok")
    /\ UNCHANGED <<mu, closed, slots, managerVars, leaseVars, closeErr>>

-----------------------------------------------------------------------------
(* handlePlainRun, handleWorkspaceRun, handleSnapshot and handleFile.       *)

\* Variant: the lookup returns without unlocking when it finds nothing.
FindLeavesLocked(q) ==
    /\ pc[q] = "find" /\ Unlocked
    /\ IF ref[q] \in leases
       THEN Goto(q, IF kind[q] = "run" THEN "admit" ELSE "inspect") /\ UNCHANGED mu
       ELSE Respond(q, "notFound") /\ mu' = "stuck"
    /\ UNCHANGED <<closed, leases, slots, managerVars, leaseVars, closeErr>>

\* server.lease.
Find(q) ==
    /\ pc[q] = "find" /\ Unlocked
    /\ IF ref[q] \in leases
       THEN Goto(q, IF kind[q] = "run" THEN "admit" ELSE "inspect")
       ELSE Respond(q, "notFound")
    /\ UNCHANGED <<serverVars, managerVars, leaseVars, closeErr>>

\* server.admit does not wait for a slot.
Admit(q) ==
    /\ pc[q] = "admit"
    /\ IF slots < MaxActive
       THEN slots' = slots + 1 /\ Goto(q, IF kind[q] = "run" THEN "before" ELSE "guest")
       ELSE Respond(q, "full") /\ UNCHANGED slots
    /\ UNCHANGED <<mu, closed, leases, managerVars, leaseVars, closeErr>>

\* The Snapshot before the run, which may also fail on the tree itself.
Before(q) ==
    /\ pc[q] = "before"
    /\ \/ Usable(ref[q]) /\ Goto(q, "begin") /\ UNCHANGED slots
       \/ RespondFromSlot(q, "error")
    /\ UNCHANGED <<mu, closed, leases, managerVars, leaseVars, closeErr>>

\* RunWorkspace, up to BeginRun.
Begin(q) ==
    /\ pc[q] = "begin"
    /\ IF Usable(ref[q])
       THEN running' = running \cup {ref[q]} /\ Goto(q, "guest")
       ELSE Goto(q, "refused") /\ UNCHANGED running
    /\ UNCHANGED <<serverVars, managerVars, lease, closeErr>>

\* The Guest ends and is closed, then EndRun; a plain run responds.
GuestEnds(q) ==
    /\ pc[q] = "guest"
    /\ IF kind[q] = "run"
       THEN running' = running \ {ref[q]} /\ Goto(q, "after") /\ UNCHANGED slots
       ELSE RespondFromSlot(q, "ok") /\ UNCHANGED running
    /\ UNCHANGED <<mu, closed, leases, managerVars, lease, closeErr>>

\* The Snapshot after the run and the response.
After(q) ==
    /\ pc[q] \in {"after", "refused"}
    /\ \/ pc[q] = "after" /\ Usable(ref[q]) /\ RespondFromSlot(q, "ok")
       \/ RespondFromSlot(q, "error")
    /\ UNCHANGED <<mu, closed, leases, managerVars, leaseVars, closeErr>>

Inspect(q) ==
    /\ pc[q] = "inspect"
    /\ \/ Usable(ref[q]) /\ Respond(q, "ok")
       \/ Respond(q, "error")
    /\ UNCHANGED <<serverVars, managerVars, leaseVars, closeErr>>

-----------------------------------------------------------------------------
(* handleDestroy, Close, and the end of a handleCreate that found it closed. *)

\* Variant: handleDestroy leaves the lease in the map until it is released.
TakeShared(q) ==
    /\ pc[q] = "take" /\ Unlocked
    /\ IF ref[q] \in leases THEN Goto(q, "release") ELSE Respond(q, "notFound")
    /\ UNCHANGED <<serverVars, managerVars, leaseVars, closeErr>>

Take(q) ==
    /\ pc[q] = "take" /\ Unlocked
    /\ IF ref[q] \in leases
       THEN leases' = leases \ {ref[q]} /\ Goto(q, "release")
       ELSE Respond(q, "notFound") /\ UNCHANGED leases
    /\ UNCHANGED <<mu, closed, slots, managerVars, leaseVars, closeErr>>

\* A failed Release: handleDestroy puts the lease back, Close goes on to the
\* next one and will report it.
ReleaseFailed(q) ==
    /\ Goto(q, IF kind[q] = "close" THEN "closing" ELSE "putback")
    /\ closeErr' = (closeErr \/ kind[q] = "close")

\* Variant: Release does not look at running.
ReleaseRunning(q) ==
    /\ pc[q] = "release"
    /\ lease' = [lease EXCEPT ![ref[q]] = "released"]
    /\ Goto(q, "unown")
    /\ UNCHANGED <<serverVars, managerVars, running, closeErr>>

\* The lease's part of Release; a second Release does nothing.
Release(q) ==
    /\ pc[q] = "release"
    /\ \/ /\ lease[ref[q]] = "released"
          /\ Goto(q, "remove") /\ UNCHANGED <<lease, closeErr>>
       \/ /\ lease[ref[q]] = "held" /\ ref[q] \in running
          /\ ReleaseFailed(q) /\ UNCHANGED lease
       \/ /\ Usable(ref[q])
          /\ lease' = [lease EXCEPT ![ref[q]] = "released"]
          /\ Goto(q, "unown") /\ UNCHANGED closeErr
    /\ UNCHANGED <<serverVars, managerVars, running>>

\* The rest of Release: close the rooted file system, which may fail, and
\* give the entry up.  handleCreate ignores the error.
Unown(q) ==
    /\ pc[q] = "unown"
    /\ owned' = owned \ {ref[q]}
    /\ \/ Goto(q, "remove") /\ UNCHANGED closeErr
       \/ kind[q] # "create" /\ ReleaseFailed(q)
    /\ UNCHANGED <<serverVars, entry, mclosed, refused, leaseVars>>

\* What the three callers of Manager.Destroy do with its result.
Removed(q, ok) ==
    /\ IF kind[q] = "close"
       THEN Goto(q, "closing")
       ELSE Respond(q, IF ok /\ kind[q] = "destroy" THEN "ok" ELSE "error")
    /\ closeErr' = (closeErr \/ (kind[q] = "close" /\ ~ok))

\* Manager.Destroy.
Remove(q) ==
    /\ pc[q] = "remove"
    /\ LET found == ~mclosed /\ entry[ref[q]] = "present" /\ ref[q] \notin owned
       IN  \/ /\ found
              /\ entry' = [entry EXCEPT ![ref[q]] = "gone"]
              /\ Removed(q, TRUE) /\ UNCHANGED refused
           \/ /\ found
              /\ refused' = refused \cup {ref[q]}
              /\ Removed(q, FALSE) /\ UNCHANGED entry
           \/ /\ ~found
              /\ Removed(q, FALSE) /\ UNCHANGED <<entry, refused>>
    /\ UNCHANGED <<serverVars, owned, mclosed, leaseVars>>

\* Variant: handleDestroy reports the error and forgets the lease.
PutBackForgets(q) ==
    /\ pc[q] = "putback"
    /\ Respond(q, "busy")
    /\ UNCHANGED <<serverVars, managerVars, leaseVars, closeErr>>

\* handleDestroy puts the lease back and reports the error.  After Close the map is nil: the write
\* panics, net/http drops the connection, and server.mu stays locked.
PutBack(q) ==
    /\ pc[q] = "putback" /\ Unlocked
    /\ IF closed
       THEN mu' = "stuck" /\ Respond(q, "dropped") /\ UNCHANGED leases
       ELSE leases' = leases \cup {ref[q]} /\ Respond(q, "busy") /\ UNCHANGED mu
    /\ UNCHANGED <<closed, slots, managerVars, leaseVars, closeErr>>

\* Server.Close takes all leases; a second Close returns at once.
Close(q) ==
    /\ pc[q] = "close" /\ Unlocked
    /\ closed' = TRUE
    /\ leases' = {}
    /\ IF closed
       THEN Respond(q, "ok")
       ELSE /\ todo' = [todo EXCEPT ![q] = leases]
            /\ pc' = [pc EXCEPT ![q] = "closing"]
            /\ UNCHANGED <<kind, ref, answer>>
    /\ UNCHANGED <<mu, slots, managerVars, leaseVars, closeErr>>

CloseNext(q) ==
    /\ pc[q] = "closing"
    /\ \/ /\ todo[q] = {}
          /\ Goto(q, "manager")
       \/ \E r \in todo[q] :
              /\ todo' = [todo EXCEPT ![q] = @ \ {r}]
              /\ ref' = [ref EXCEPT ![q] = r]
              /\ pc' = [pc EXCEPT ![q] = "release"]
              /\ UNCHANGED <<kind, answer>>
    /\ UNCHANGED <<serverVars, managerVars, leaseVars, closeErr>>

\* Manager.Close refuses while an entry is owned, and removes every tree it can.
CloseManager(q) ==
    /\ pc[q] = "manager"
    /\ \/ /\ owned # {}
          /\ closeErr' = TRUE
          /\ UNCHANGED <<entry, mclosed, refused>>
       \/ /\ owned = {}
          /\ \E kept \in SUBSET {r \in Ref : entry[r] = "present"} :
                 /\ entry' = [r \in Ref |-> IF entry[r] = "present" /\ r \notin kept
                                            THEN "gone" ELSE entry[r]]
                 /\ refused' = refused \cup kept
                 /\ mclosed' = (kept = {})
                 /\ closeErr' = (closeErr \/ kept # {})
    /\ Respond(q, IF closeErr' THEN "error" ELSE "ok")
    /\ UNCHANGED <<serverVars, owned, leaseVars>>

-----------------------------------------------------------------------------
Step(q) ==
    \/ Create(q) \/ Acquire(q) \/ Publish(q)
    \/ Find(q) \/ Admit(q) \/ Before(q) \/ Begin(q) \/ GuestEnds(q) \/ After(q)
    \/ Inspect(q)
    \/ Take(q) \/ Release(q) \/ Unown(q) \/ Remove(q) \/ PutBack(q)
    \/ Close(q) \/ CloseNext(q) \/ CloseManager(q)

Next ==
    \E q \in Request :
        \/ \E k \in Kind, r \in Ref \cup {NoRef} : Arrive(q, k, r)
        \/ Step(q)

Spec == Init /\ [][Next]_vars

\* A handler's goroutine goes on, but for a Guest: without maxRunDuration and
\* timeout_ms executionContext sets no deadline, and the Guest may run for ever.
\* Else no handler waits but for a mutex, which is free again after each step.
FairSpec == Spec /\ \A q \in Request : WF_vars(pc[q] # "guest" /\ Step(q))

-----------------------------------------------------------------------------
(* Properties.                                                              *)

\* Every variable of the server, the manager, the leases and the requests has
\* its type.
TypeOK ==
    /\ mu \in {"free", "stuck"}
    /\ closed \in BOOLEAN /\ mclosed \in BOOLEAN /\ closeErr \in BOOLEAN
    /\ leases \subseteq Ref /\ owned \subseteq Ref /\ running \subseteq Ref
    /\ refused \subseteq Ref
    /\ slots \in 0..MaxActive
    /\ entry \in [Ref -> {"none", "present", "gone"}]
    /\ lease \in [Ref -> {"none", "held", "released"}]
    /\ pc \in [Request -> PC]
    /\ kind \in [Request -> Kind]
    /\ ref \in [Request -> Ref \cup {NoRef}]
    /\ todo \in [Request -> SUBSET Ref]
    /\ answer \in [Request -> Answer]

\* server.slots holds one token for each request between admit and its
\* deferred release, whichever of its returns it leaves by.
SlotsExact == slots = Cardinality({q \in Request : pc[q] \in SlotPC})

\* The requests whose Guest has workspace r mounted.
Mounted(r) == {q \in Request : pc[q] = "guest" /\ kind[q] = "run" /\ ref[q] = r}

\* While a Guest has a workspace mounted the tree is there, owned, and the
\* Guest is the only one, although the request found the lease in the map
\* before handleDestroy or Close took it and uses it afterwards.
GuestHasTree ==
    \A r \in Ref :
        /\ r \in running <=> Mounted(r) # {}
        /\ \A p, q \in Mounted(r) : p = q
        /\ r \in running => lease[r] = "held"
        /\ lease[r] = "held" => entry[r] = "present" /\ r \in owned

\* The hands a lease can be in: the map, the set Close took, or a request.
Hands(r) ==
    {q \in Request : pc[q] \in HoldPC /\ ref[q] = r}
        \cup {q \in Request : r \in todo[q]}

\* A lease is in one hand at a time, so it is released and put back by one
\* request, whatever mixture of DELETE, create and Close there is.
OneHand ==
    \A r \in Ref :
        /\ \A p, q \in Hands(r) : p = q
        /\ r \in leases => Hands(r) = {} /\ lease[r] # "none"

\* With no request in progress, a tree is on disk only for a workspace that
\* the open server still serves, unless the system refused to remove it or
\* Close reported an error.
NothingLeaks ==
    (\A q \in Request : pc[q] \in {"idle", "done"}) =>
        \A r \in Ref : entry[r] = "present" => r \in leases \/ r \in refused \/ closeErr

\* A request waits only for its own Guest: every request is answered or has its
\* Guest running, and is answered once that ends, even when the Guests of other
\* requests run for ever.  The exception: a DELETE of a busy workspace met the
\* nil map of a closed server and left locked the mutex the request needs.
RequestsEnd ==
    \A q \in Request :
        pc[q] # "idle" ~>
            \/ pc[q] \in {"guest", "done"}
            \/ pc[q] \in {"publish", "find", "take", "putback", "close"}
               /\ closed /\ mu = "stuck"
=============================================================================
