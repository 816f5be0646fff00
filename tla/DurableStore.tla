----------------------------- MODULE DurableStore -----------------------------
(***************************************************************************)
(* The database file of store.go: several processes that open, create and  *)
(* leave it, and the payload of one run in it.                             *)
(*                                                                         *)
(* Open holds a lock file while it creates the schema in one transaction,  *)
(* and any process may die at any step of it.  Afterwards each transaction *)
(* adds bytes to the run's rows: every field's length is a number here,    *)
(* and what the rows mean is the subject of DurableLog and DurableRun.     *)
(***************************************************************************)
EXTENDS Integers, Sequences, FiniteSets, Sums

CONSTANTS
    Process, Nobody,
    Table,           \* the tables of schema, created one by one
    MaxPayload,      \* MaxRunPayloadBytes
    Length,          \* lengths of the fields of one operation
    MaxCalls         \* bound: calls of the run

ASSUME StoreAssumption ==
    /\ Nobody \notin Process /\ IsFiniteSet(Table)
    /\ MaxPayload \in Nat /\ Length \subseteq Nat /\ MaxCalls \in Nat

VARIABLES
    proc,            \* of each process: "none", "opening", "locked", "tx", "open"
    initLock,        \* who holds .pysolate-init.lock
    tables, version, \* what is committed: the tables; is user_version set
    created,         \* the tables that the open schema transaction has made
    status,          \* the run's row: status
    definition, ending,       \* lengths of its definition; of outcome and reason
    calls                     \* its calls and waits: states and lengths

schemaVars == <<proc, initLock, tables, version, created>>
rowVars    == <<status, definition, ending, calls>>
storeVars  == <<schemaVars, rowVars>>

-----------------------------------------------------------------------------
Terminal == {"completed", "failed", "cancelled"}
Settled  == Terminal \cup {"blocked"}
Open     == \E p \in Process : proc[p] = "open"
CallRow(s, a, o, w, r, d) == [state |-> s, arguments |-> a, outcome |-> o,
                              wait |-> w, request |-> r, decision |-> d]

StoreInit ==
    /\ proc = [p \in Process |-> "none"] /\ initLock = Nobody
    /\ tables = {} /\ version = FALSE /\ created = {}
    /\ status = "absent" /\ definition = 0 /\ ending = 0 /\ calls = <<>>

-----------------------------------------------------------------------------
\* Open, up to openInitializationLock: the path, the probe of the file and its
\* directories, each of which may fail.
OpenBegins(p) ==
    /\ proc[p] = "none" /\ proc' = [proc EXCEPT ![p] = "opening"]
    /\ UNCHANGED <<initLock, tables, version, created, rowVars>>

\* openRunLock of the initialization lock: free, or busy for 200 attempts.
OpenLocks(p) ==
    /\ proc[p] = "opening" /\ initLock = Nobody
    /\ initLock' = p /\ proc' = [proc EXCEPT ![p] = "locked"]
    /\ UNCHANGED <<tables, version, created, rowVars>>

\* configure of a database that has its schema; the lock is released.
ConfigureOld(p) ==
    /\ proc[p] = "locked" /\ version
    /\ proc' = [proc EXCEPT ![p] = "open"] /\ initLock' = Nobody
    /\ UNCHANGED <<tables, version, created, rowVars>>

\* configure of a new database: one transaction, a statement per table.
ConfigureBegins(p) ==
    /\ proc[p] = "locked" /\ ~version
    /\ proc' = [proc EXCEPT ![p] = "tx"] /\ created' = {}
    /\ UNCHANGED <<initLock, tables, version, rowVars>>

\* Variant: the statements commit one by one, the version with the first.
CreateTableAlone(p) ==
    /\ proc[p] = "tx"
    /\ \E t \in Table \ created :
           created' = created \cup {t} /\ tables' = tables \cup {t} /\ version' = TRUE
    /\ UNCHANGED <<proc, initLock, rowVars>>

CreateTable(p) ==
    /\ proc[p] = "tx" /\ \E t \in Table \ created : created' = created \cup {t}
    /\ UNCHANGED <<proc, initLock, tables, version, rowVars>>

ConfigureCommits(p) ==
    /\ proc[p] = "tx" /\ created = Table
    /\ tables' = tables \cup created /\ version' = TRUE /\ created' = {}
    /\ proc' = [proc EXCEPT ![p] = "open"] /\ initLock' = Nobody
    /\ UNCHANGED rowVars

\* Open fails, Store.Close, or the death of the process: a transaction in
\* progress is rolled back and the system drops the lock.
Leave(p) ==
    /\ proc[p] # "none" /\ proc' = [proc EXCEPT ![p] = "none"]
    /\ initLock' = IF initLock = p THEN Nobody ELSE initLock
    /\ created' = IF proc[p] = "tx" THEN {} ELSE created
    /\ UNCHANGED <<tables, version, rowVars>>

-----------------------------------------------------------------------------
\* Variant: payloadSizeTx that forgets the decisions of waits.
PayloadWithoutDecisions ==
    definition + ending
    + Total([i \in DOMAIN calls |-> calls[i].arguments + calls[i].outcome + calls[i].request])

\* payloadSizeTx: the sum over the run's rows in its three tables.
Payload ==
    definition + ending
    + Total([i \in DOMAIN calls |-> calls[i].arguments + calls[i].outcome
                                    + calls[i].request + calls[i].decision])

Exceeds(current, additional) == current > MaxPayload \/ additional > MaxPayload - current

Fits(additional) == ~Exceeds(Payload, additional)

ReplacementIncrease(old, new) == IF new <= old THEN 0 ELSE new - old

\* Store.Create.
Create(n) ==
    /\ Open /\ status = "absent" /\ n <= MaxPayload
    /\ status' = "active" /\ definition' = n
    /\ UNCHANGED <<ending, calls, schemaVars>>

\* Store.BeginCall of a new call.
BeginCall(n) ==
    /\ Open /\ status = "active" /\ Len(calls) < MaxCalls /\ Fits(n)
    /\ calls' = Append(calls, CallRow("pending", n, 0, "none", 0, 0))
    /\ UNCHANGED <<status, definition, ending, schemaVars>>

\* Store.CompleteCall: also of a run that has ended.
CompleteCall(i, n) ==
    /\ Open /\ calls[i].state # "completed" /\ Fits(ReplacementIncrease(calls[i].outcome, n))
    /\ calls' = [calls EXCEPT ![i] = CallRow("completed", @.arguments, n, @.wait, @.request, @.decision)]
    /\ UNCHANGED <<status, definition, ending, schemaVars>>

\* Store.EnsureWait.
EnsureWait(i, n) ==
    /\ Open /\ calls[i].wait = "none" /\ calls[i].state # "completed"
    /\ status \notin Settled /\ Fits(n)
    /\ calls' = [calls EXCEPT ![i] = CallRow("waiting", @.arguments, @.outcome, "open", n, @.decision)]
    /\ status' = "waiting"
    /\ UNCHANGED <<definition, ending, schemaVars>>

\* Store.ResolveWait: the first decision, also for a run that has ended.
ResolveWait(i, n) ==
    /\ Open /\ calls[i].wait = "open" /\ Fits(n)
    /\ calls' = [calls EXCEPT ![i] = CallRow(@.state, @.arguments, @.outcome, "resolved", @.request, n)]
    /\ status' = IF status = "waiting" THEN "active" ELSE status
    /\ UNCHANGED <<definition, ending, schemaVars>>

\* Store.SetState: outcome and reason are replaced.
SetState(s, n) ==
    /\ Open /\ status \notin Terminal \cup {"absent"}
    /\ Fits(ReplacementIncrease(ending, n))
    /\ status' = s /\ ending' = n
    /\ UNCHANGED <<definition, calls, schemaVars>>

StoreNext ==
    \/ \E p \in Process :
           \/ OpenBegins(p) \/ OpenLocks(p) \/ ConfigureOld(p)
           \/ ConfigureBegins(p) \/ CreateTable(p) \/ ConfigureCommits(p)
           \/ Leave(p)
    \/ \E n \in Length :
           \/ Create(n) \/ BeginCall(n)
           \/ \E i \in DOMAIN calls : CompleteCall(i, n) \/ EnsureWait(i, n) \/ ResolveWait(i, n)
           \/ \E s \in Settled : SetState(s, n)

StoreSpec == StoreInit /\ [][StoreNext]_storeVars

-----------------------------------------------------------------------------
\* A Store that Open returned finds every table of the schema, whichever
\* process created the file and wherever another one died while it did.
OpenedIsWhole == Open => version /\ tables = Table

\* No sequence of transactions makes a run retain more than MaxRunPayloadBytes,
\* also through late outcomes and decisions of a run that has ended: every
\* field that one of them writes is counted by the next.
PayloadBounded ==
    LET Kept(c) == c.arguments + c.outcome + c.request + c.decision
    IN  definition + ending + Total([i \in DOMAIN calls |-> Kept(calls[i])]) <= MaxPayload
===============================================================================
