----------------------------- MODULE ExportReplay -----------------------------
(***************************************************************************)
(* Export of one durable run to a local file, its offline replay, and the  *)
(* paged call history (durable/export_replay.go, replay_mismatch.go and    *)
(* replay_diagnostics.go, with cmd/pysolate-replay).                       *)
(*                                                                         *)
(* The run's rows are those of DurableLog and go on changing while others  *)
(* read them.  Export takes no lock and no transaction: the runs row, the  *)
(* calls and the waits are three reads, one step each.  The bundle is then *)
(* written to a path that must not exist, and replayed later by anyone, on *)
(* a file that may be half written, left by a crash, or edited since.      *)
(*                                                                         *)
(* The replayed Guest is the program of DurableLog; hashes, keys and call  *)
(* identifiers are functions of a call's place and stand for it.           *)
(***************************************************************************)
EXTENDS DurableLog

CONSTANTS
    Exporter,     \* invocations of export, all with one output path
    Bare,         \* outcomes without a "value": encodeResponse's last resort
    Oversized(_), \* bundles whose encoding is longer than maxBundleBytes
    DefaultPage,  \* DefaultReplayHistoryPageSize
    MaxPage       \* MaxReplayHistoryPageSize

ASSUME ExportAssumption ==
    /\ Bare \subseteq Outcome
    /\ MaxPage \in Nat \ {0} /\ DefaultPage \in 1 .. MaxPage

\* A Guest starts from the seed and the clock of its run and sees nothing else
\* but outcomes: what it does next is a function of them.
ASSUME ReplayAssumption ==
    /\ Request \cap {"return", "raise"} = {}
    /\ \A n \in 0 .. 2 * MaxToolCalls : \A h \in [1 .. n -> Outcome] :
           \A a, b \in Program(h) : a = b

VARIABLES
    tools,   \* the run's declarations: "current", or "old" without a python_path
    xpc,     \* where each exporter is
    bundle,  \* what it has read so far
    xend,    \* how it ended: "ok" or the category of its error
    file,    \* the output path: "absent", "partial" or "written"
    data,    \* the bundle written there
    edited,  \* somebody changed the file
    rpc,     \* the replay: "idle", "guest", "compare" or "done"
    replay,  \* the bundle that it replays
    index,   \* offlineJournal.index
    seen,    \* the outcomes its Guest has seen
    verdict, \* how it ended: "ok" or a category and the call's sequence
    from,    \* the FromSequence of the next page of the call history
    pages    \* the calls on the pages so far

runVars    == <<logVars, tools>>
exportVars == <<xpc, bundle, xend, file, data, edited>>
replayVars == <<rpc, replay, index, seen, verdict>>
pageVars   == <<from, pages>>
vars == <<runVars, exportVars, replayVars, pageVars>>

-----------------------------------------------------------------------------
Bundle(s, r, t, c, w) ==
    [status |-> s, result |-> r, tools |-> t, calls |-> c, waits |-> w]
NoBundle == Bundle("absent", <<>>, "old", <<>>, [i \in Sequence |-> "none"])
Ended    == {"completed", "failed"}
OnFile   == file = "written"

Init ==
    /\ LogInit /\ tools \in {"current", "old"}
    /\ xpc = [e \in Exporter |-> "idle"]
    /\ bundle = [e \in Exporter |-> NoBundle]
    /\ xend = [e \in Exporter |-> "none"]
    /\ file = "absent" /\ data = NoBundle /\ edited = FALSE
    /\ rpc = "idle" /\ replay = NoBundle /\ index = 0 /\ seen = <<>>
    /\ verdict = [category |-> "none", at |-> 0]
    /\ from = 1 /\ pages = <<>>

\* What Python has seen after all outcomes and k refusals over the budget.
Refused(k) == [i \in 1 .. Len(calls) + k |-> IF i <= Len(calls) THEN calls[i].outcome ELSE "budget"]

\* The run goes on, whoever reads its rows: a step of LogNext.  A program makes
\* at most as many refused calls as the budget has, a bound of this module.
RunGoesOn ==
    /\ \/ LogStep
       \/ \E s \in {"completed", "failed"}, k \in 0 .. MaxToolCalls : LogEnd(s, Refused(k))
    /\ UNCHANGED <<tools, exportVars, replayVars, pageVars>>

-----------------------------------------------------------------------------
(* Export.                                                                 *)

\* validateBundleCall: a completed call whose outcome has a value.
ValidCall(c) == c.state = "completed" /\ c.outcome \notin Bare

\* validateRunBundle and validateBundleRun: an ended run whose tools have their
\* Python paths, and waits that belong to its calls.  Its payload is within
\* MaxRunPayloadBytes because the store's is (PayloadBounded in DurableStore).
ValidBundle(b) ==
    /\ b.status \in Ended /\ b.tools = "current"
    /\ \A i \in 1 .. Len(b.calls) : ValidCall(b.calls[i])
    /\ \A i \in Sequence : b.waits[i] # "none" => i <= Len(b.calls)

XGoto(e, s) == xpc' = [xpc EXCEPT ![e] = s] /\ UNCHANGED xend
XEnd(e, c)  == /\ xpc' = [xpc EXCEPT ![e] = "done"]
               /\ xend' = [xend EXCEPT ![e] = c]

\* Variant: the status is not checked first.
ReadRunAnyStatus(e) ==
    /\ xpc[e] = "idle" /\ status # "absent"
    /\ bundle' = [bundle EXCEPT ![e] = Bundle("completed", result, tools, @.calls, @.waits)]
    /\ XGoto(e, "calls")
    /\ UNCHANGED <<runVars, file, data, edited, replayVars, pageVars>>

\* Store.Get and the checks of the run, before anything else is read.
ReadRun(e) ==
    /\ xpc[e] = "idle"
    /\ IF status = "absent" THEN XEnd(e, "runtime") /\ UNCHANGED bundle
       ELSE /\ bundle' = [bundle EXCEPT ![e] = Bundle(status, result, tools, @.calls, @.waits)]
            /\ IF status \in Ended /\ tools = "current" THEN XGoto(e, "calls")
                                                      ELSE XEnd(e, "bundle")
    /\ UNCHANGED <<runVars, file, data, edited, replayVars, pageVars>>

\* exportCalls.
ReadCalls(e) ==
    /\ xpc[e] = "calls"
    /\ bundle' = [bundle EXCEPT ![e] = Bundle(@.status, @.result, @.tools, calls, @.waits)]
    /\ XGoto(e, "waits")
    /\ UNCHANGED <<runVars, file, data, edited, replayVars, pageVars>>

\* exportWaits, then the validation of the whole bundle.
ReadWaits(e) ==
    /\ xpc[e] = "waits"
    /\ bundle' = [bundle EXCEPT ![e] = Bundle(@.status, @.result, @.tools, @.calls, waits)]
    /\ IF (\E i \in Sequence : waits[i] = "open") \/ ~ValidBundle(bundle'[e])
       THEN XEnd(e, "bundle")
       ELSE XGoto(e, "create")
    /\ UNCHANGED <<runVars, file, data, edited, replayVars, pageVars>>

\* OpenFile with O_EXCL.
CreateFile(e) ==
    /\ xpc[e] = "create"
    /\ IF file = "absent" THEN file' = "partial" /\ XGoto(e, "write")
                          ELSE XEnd(e, "runtime") /\ UNCHANGED file
    /\ UNCHANGED <<runVars, bundle, data, edited, replayVars, pageVars>>

\* Encode, Sync and Close; on an error, of which bundleWriter's is an invalid
\* bundle's, the deferred function removes the file.
WriteFile(e) ==
    /\ xpc[e] = "write"
    /\ \/ /\ ~Oversized(bundle[e])
          /\ file' = "written" /\ data' = bundle[e] /\ XEnd(e, "ok")
       \/ /\ file' = "absent" /\ UNCHANGED data
          /\ XEnd(e, "runtime") \/ (Oversized(bundle[e]) /\ XEnd(e, "bundle"))
    /\ UNCHANGED <<runVars, bundle, edited, replayVars, pageVars>>

\* A read fails, or the process is killed; a file it was writing stays as it is.
ExportDies(e) ==
    /\ xpc[e] \in {"calls", "waits", "create", "write"}
    /\ XEnd(e, "runtime")
    /\ UNCHANGED <<runVars, bundle, file, data, edited, replayVars, pageVars>>

Export(e) ==
    \/ ReadRun(e) \/ ReadCalls(e) \/ ReadWaits(e)
    \/ CreateFile(e) \/ WriteFile(e) \/ ExportDies(e)

\* What an edit of one place of the bundle can leave: another request or outcome
\* of a call, a call less, another status, a declaration without its path.
WithCalls(b, c) == Bundle(b.status, b.result, b.tools, c, b.waits)
EditedRequest(b) == {WithCalls(b, [b.calls EXCEPT ![i] = CallRow(r, @.state, @.outcome)]) :
                         i \in 1 .. Len(b.calls), r \in Request}
EditedOutcome(b) == {WithCalls(b, [b.calls EXCEPT ![i] = CallRow(@.request, @.state, o)]) :
                         i \in 1 .. Len(b.calls), o \in Outcome \ {"budget"}}
CutShort(b)      == {WithCalls(b, SubSeq(b.calls, 1, n - 1)) : n \in {Len(b.calls)} \ {0}}
EditedRun(b)     == {Bundle(s, b.result, t, b.calls, b.waits) :
                         s \in Ended, t \in {b.tools, "old"}}
EditsOf(b) == EditedRequest(b) \cup EditedOutcome(b) \cup CutShort(b) \cup EditedRun(b)

\* The bundle is neither signed nor authenticated: somebody edits it.
Edit ==
    /\ OnFile /\ ~edited
    /\ data' \in EditsOf(data)
    /\ edited' = TRUE
    /\ UNCHANGED <<runVars, xpc, bundle, xend, file, replayVars, pageVars>>

-----------------------------------------------------------------------------
(* Offline replay.                                                         *)

REnd(c, at) == rpc' = "done" /\ verdict' = [category |-> c, at |-> at]

\* ReadBundle, the artifact's digest and the fresh Guest with its stubs.  A Guest
\* that cannot be made is an invalid bundle's as well.
ReplayStarts ==
    /\ rpc = "idle"
    /\ \/ ~OnFile /\ UNCHANGED replay
          /\ REnd(IF file = "absent" THEN "runtime" ELSE "bundle", 0)
       \/ /\ OnFile /\ (Oversized(data) \/ ~ValidBundle(data))
          /\ UNCHANGED replay /\ REnd("bundle", 0)
       \/ /\ OnFile /\ ~Oversized(data) /\ ValidBundle(data)
          /\ replay' = data
          /\ \/ rpc' = "guest" /\ UNCHANGED verdict
             \/ REnd("artifact", 0) \/ REnd("bundle", 0)
    /\ UNCHANGED <<runVars, exportVars, index, seen, pageVars>>

\* offlineJournal.Call for the request r of the Guest: excess, a difference in
\* the tool or its arguments, or the recorded outcome.
Journalled(r) ==
    \/ index >= Len(replay.calls) /\ REnd("call", index) /\ UNCHANGED <<index, seen>>
    \/ /\ index < Len(replay.calls) /\ replay.calls[index + 1].request # r
       /\ REnd("call", index) /\ UNCHANGED <<index, seen>>
    \/ /\ index < Len(replay.calls) /\ replay.calls[index + 1].request = r
       /\ index' = index + 1
       /\ seen' = Append(seen, replay.calls[index + 1].outcome)
       /\ UNCHANGED <<rpc, verdict>>

\* The Guest calls a tool; over the budget the bridge answers by itself.
ReplayCalls(r) ==
    /\ rpc = "guest" /\ r \in Program(seen)
    /\ IF Len(seen) < MaxToolCalls THEN Journalled(r)
       ELSE seen' = Append(seen, "budget") /\ UNCHANGED <<index, rpc, verdict>>
    /\ UNCHANGED <<runVars, exportVars, replay, pageVars>>

\* Variant: recorded calls that the Guest did not make are ignored.
ReplayEndsAnywhere(end) ==
    /\ rpc = "guest" /\ end \in Program(seen)
    /\ IF seen # replay.result \/ end # (IF replay.status = "completed" THEN "return" ELSE "raise")
       THEN REnd("result", 0)
       ELSE REnd("ok", 0)
    /\ UNCHANGED <<runVars, exportVars, replay, index, seen, pageVars>>

\* The program ends: every call must be consumed, then compareReplay.
ReplayEnds(end) ==
    /\ rpc = "guest" /\ end \in Program(seen)
    /\ IF index # Len(replay.calls) THEN REnd("call", index)
       ELSE IF seen # replay.result \/ end # (IF replay.status = "completed" THEN "return" ELSE "raise")
       THEN REnd("result", 0)
       ELSE REnd("ok", 0)
    /\ UNCHANGED <<runVars, exportVars, replay, index, seen, pageVars>>

\* The deadline passes or the Guest traps: no mismatch is claimed.
ReplayFails ==
    /\ rpc = "guest"
    /\ REnd("runtime", 0)
    /\ UNCHANGED <<runVars, exportVars, replay, index, seen, pageVars>>

Replay ==
    \/ ReplayStarts \/ ReplayFails
    \/ \E r \in Request : ReplayCalls(r)
    \/ \E end \in {"return", "raise"} : ReplayEnds(end)

-----------------------------------------------------------------------------
(* Paged history.                                                          *)

\* The outcome class of a row, "success" and "error" being one here.
Class(c) == IF c.state = "completed" THEN "final" ELSE "pending"

PageSize(limit) ==
    IF limit = 0 THEN DefaultPage ELSE IF limit > MaxPage THEN MaxPage ELSE limit

\* Variant: the next page starts at the last call of this one.
NextFromLast(last) == last

\* NextSequence: one past the last call of the page.
NextFrom(last) == last + 1

\* ReplayHistory, which reads one row more than it returns; the caller goes on
\* at NextSequence, or polls again where the page that was the last one ended.
ReadPage(limit) ==
    LET size == PageSize(limit)
        last == IF Len(calls) - from >= size THEN from + size - 1 ELSE Len(calls)
    IN  /\ from <= Len(calls)
        /\ pages' = pages \o [i \in 1 .. (last + 1 - from) |->
                                 [sequence |-> from + i - 1, class |-> Class(calls[from + i - 1])]]
        /\ from' = NextFrom(last)
        /\ UNCHANGED <<runVars, exportVars, replayVars>>

-----------------------------------------------------------------------------
Next ==
    \/ RunGoesOn \/ Edit \/ Replay
    \/ \E e \in Exporter : Export(e)
    \/ \E limit \in 0 .. MaxPage + 1 : ReadPage(limit)

Spec == Init /\ [][Next]_vars

-----------------------------------------------------------------------------
(* Properties.                                                             *)

\* Though it takes no lock and reads in three steps while the run goes on, what
\* Export writes is one state of the run and the run's last: its ended status,
\* its result and all its calls, which ReadBundle accepts; and at most one
\* exporter believes it wrote it.  No step of the run between the reads makes an
\* export invalid: a run that was read as ended is refused only for what it is, an
\* old one without Python paths, a large one or one with an outcome without value.
FileIsRun ==
    /\ OnFile /\ ~edited =>
           /\ data = Bundle(status, result, tools, calls, waits)
           /\ ValidBundle(data) /\ ~Oversized(data)
    /\ \A e, f \in Exporter : xpc[e] = "write" /\ (xpc[f] = "write" \/ OnFile) => e = f /\ ~OnFile
    /\ \A e \in Exporter : xend[e] = "bundle" /\ bundle[e].status \in Ended
           => \/ bundle[e].tools = "old" \/ Oversized(bundle[e])
              \/ \E i \in DOMAIN bundle[e].calls : bundle[e].calls[i].outcome \in Bare

\* How far the bundle follows the program: the first call it does not explain.
Explained(b, i) ==
    b.calls[i].request \in Program([j \in 1 .. i - 1 |-> b.calls[j].outcome])

\* Replay's verdict is right about the bundle it was given, edited or not.  "ok"
\* means that the program makes exactly these calls and ends with this result; a
\* call mismatch names the first call that the program does not make; a result
\* mismatch is claimed only when every call was made; and an intact export of
\* this program replays unless the Guest or the artifact fails.
VerdictRight ==
    LET n == Len(replay.calls)
        ends == IF replay.status = "completed" THEN "return" ELSE "raise"
    IN  /\ verdict.category = "ok" =>
              /\ \A i \in 1 .. n : Explained(replay, i) /\ replay.result[i] = replay.calls[i].outcome
              /\ ends \in Program(replay.result)
        /\ verdict.category = "call" =>
              /\ \A i \in 1 .. verdict.at : Explained(replay, i)
              /\ verdict.at < n => ~Explained(replay, verdict.at + 1)
        /\ verdict.category = "result" => \A i \in 1 .. n : Explained(replay, i)
        /\ ~edited => verdict.category \in {"none", "ok", "artifact", "bundle", "runtime"}

\* Pages read at different times while calls are recorded make up the history:
\* every call once, in order, and an outcome shown as final is the final one.
PagesComplete ==
    /\ from = Len(pages) + 1 /\ Len(pages) <= Len(calls)
    /\ \A i \in 1 .. Len(pages) :
          /\ pages[i].sequence = i
          /\ pages[i].class = "final" => Completed(i)
===============================================================================
