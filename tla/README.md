# A verification project for the durable Python runtime

The repository runs agent-written Python in WebAssembly Guests.  Its core is the
`durable` package: a run's tool calls are journalled in SQLite, an attempt that
crashed is resumed by replaying the journal into a fresh Guest, and an in-process
executor decides how many Guests live, run and wait at a time.  Around it are two
HTTP services, private workspaces, early reads, prepared Guests, an offline replay
and a scheduling simulator.  This directory holds TLA+ modules translated from that source, TLC configurations for small
instances, and TLAPS proofs for every instance.

## 1. Inventory

| Part | State | Operations | Interacts with |
|---|---|---|---|
| Executor (`durable/executor.go`) | queue, ready queue, counters `running`/`resident`, inflight channel, `attempts` map, each attempt's state, permit, context, result | `Admit`, `Cancel`, `Close`, `abort`, `finish`, `scheduleLocked`, `yield`, `reacquire` | calls `Advance` and `Cancel` of the Runner; called back through the context by `executeScheduled` |
| Store (`durable/store.go`) | rows of `runs`, `calls`, `waits`; a lock file per run | `Create`, `Claim`, `BeginCall`, `CompleteCall`, `EnsureWait`, `ResolveWait`, `SetState`, reads | shared by every process that opens the file |
| Runner and journal (`durable/runner.go`, `attempt.go`) | `closed`, `active`; per attempt `sequence`, `history`, `live` | `Create`, `Resume`, `Decide`, `Cancel`, `Close`, `journal.Call` | store; Guest through `RunRecorded`; tools; executor gate |
| Bridge (`bridge.go`, `recording.go`, root `runner.go`) | call count, control error, recording | `invoke`, `dispatch`, `stopForJournal`, `run` | Guest, journal, tools |
| Early reads (`future.go`) | map of single-use futures, worker goroutines | `prepare`, `resolve`, `close` | Guest thread, tool goroutines, run context |
| Workspaces (`runtime/workspace`) | manager entries and owners, leases, accounted bytes and files, open files | `Create`, `Acquire`, `BeginRun`/`EndRun`, `Release`, `Destroy`, `Close`, the file operations, snapshot, export | file system, Guest |
| Workspace service (`service`) | leases map, slots channel, closed flag | one handler per route, `Close` | workspaces, Runner |
| Durable service (`service/durable`, `cmd/pysolate-durable-server`) | executor, Runner, Store; per request a context | one handler per route, `Close`, the process's shutdown | executor, Runner |
| Snapshot, export, ingress (`runtime/workspace`) | snapshots, change sets | `CreateFromDirectory`, `Diff`, `ExportChanges`, `CheckDirectoryConflicts` | a Host directory others edit |
| Prepared Guests (`prepared.go`, `cow_data_*.go`, `internal/cowmem`) | memory image, memfds, private mappings, prepared seed | the constructors, `newGuest`, `Close` | engine, kernel, recordings |
| Scheduling simulator (`scheduling`) | event heap, queues, counters | `Simulate` and its event handlers | none |
| Export and offline replay (`durable/export_replay.go`, `replay_*.go`) | an exported bundle, a page of the history | `Export`, validation, replay, history pages | store, Guest, a file |

`PROJECT.json` lists all parts, also those left out (Guest interpreter build,
statistics, capability binding, commands, examples), each with the reason.

What is hard here.  *Concurrency*: attempts' goroutines, `AfterFunc` goroutines,
callers and the scheduler share one mutex, but contexts, permits and inflight
tokens change without it; Decide and Cancel write to the store without the run's
lock.  *Failure*: a process may die between any two transactions, between an
effect and its record in particular.  *Ordering*: replay must give Python what was
recorded, from a window read earlier.  *Timeouts*: a wait's deadline races its
decision, a context races a permit.  Each hazard is in `PROJECT.json` with its
line and the properties aimed at it.

## 2. Modules

| Module | What it is |
|---|---|
| `Executor` | `durable/executor.go`, one action per critical section and per iteration of `scheduleLocked` |
| `ExecutorProofs` | the inductive invariant of `Executor` and the theorems that follow from it |
| `DurableRun` | one run: its rows in the store, and the processes that resume it |
| `WorkspaceService` | the workspace manager's entries, their leases, and the HTTP handlers that use them while the server closes |
| `WorkspaceProofs` | the inductive invariant of `WorkspaceService` and the theorems that follow from it |
| `WorkspaceQuota` | the file system at `/workspace`: the tree on disk, its account, the Guest's open files |
| `DurableLog` | abstract: what the rows of one run promise; `DurableRun` implements it, `ExportReplay` reads it |
| `DurableStore` | opening and creating the database by several processes, and the payload limit of a run |
| `ExportReplay` | export of a run to a file, its validation and offline replay, and the paged history, on top of `DurableLog` |
| `DurableService` | the durable HTTP service: clients, executor, runs and the process that is shut down, dies and restarts |
| `Future` | one Run with early reads: the bridge, the futures and their workers |
| `WorkspaceHandoff` | a Host directory on its way into a workspace and the changes on their way back |
| `PreparedGuest` | the memory of Guests: constructors, images, memfds, mappings and the life of a Guest |
| `SchedulingSim` | the event simulation of `scheduling/sim.go` |
| `Sums` | the sum over a table that three components compare their account with |
| `DurableRunProofs`, `DurableServiceProofs`, `WorkspaceHandoffProofs`, `ExportReplayProofs` | for each of these modules its inductive invariant and the theorems that follow from it; `DurableRunProofs` also holds the refinement of `DurableLog` |
| `GuestProofs` | the same for `PreparedGuest` and `Future` |
| `AccountProofs` | the same for `DurableStore`, `WorkspaceQuota` and `SchedulingSim`, which keep an account; first what a sum is |
| `MC...` | the instances for TLC |

How they fit together.  `DurableRun` refines `DurableLog`, and `ExportReplay` EXTENDS
`DurableLog`, so an export is checked against exactly what attempts may do to the rows.
`DurableService` composes the executor and the runs in the detail a client sees; it
takes from `Executor` that a slot freed goes to the queue's head and from `DurableRun`
that a run is waiting exactly while a wait of it is undecided.  `Future` and
`DurableRun` share the bridge: early reads are off when a run has a journal.  A module
that is proved about together with another has its own name in `Init`, `Next` and `Spec`
(`StoreInit`, `FutureNext`, `SimSpec`), since one proof module extends both.

### Executor

Variables carry the names of the fields.  `gate` is where an attempt's goroutine
is: executing the Guest (`guest`), in `yield`'s select (`acquire`), in the Host
callback (`call`), about to lock in `reacquire` (`relock`), or in `reacquire`'s
select (`permit`).  A critical section is one action.  `scheduleLocked` is a loop,
so `Finish` and `Yield` set `mutex` to their attempt and the four `Schedule`
actions do one iteration each until `ScheduleEnds` releases it; actions that need
the mutex have `Unlocked` as a guard, those that do not (a context that ends, a
token, a permit, a tool that returns) interleave with the loop.  `Cancel` has two
steps, because `controller.Cancel` commits before the executor's mutex is taken;
`abort` runs on a goroutine of its own, so `SubmitDone` and `Abort` are two steps.
Operations that return an error and change nothing (`ErrBusy`, `ErrClosed`,
`ErrQueueFull`, a second `Close`) are not steps.  `passed` is a history variable.
`readyBurst` is counted up to `MaxReadyBurst` only: the code's counter goes on, but
is only compared with it.

### DurableRun

A run shares no row and no lock with another run, so one run is modelled, with any
number of processes.  `status`, `pinned` and `result` are its row in `runs`,
`calls` its rows in `calls`, `waits` its rows in `waits`.  Each transaction is one
step, as SQLite serialises them.  `pc[p]` is where process `p` is in `Resume`.
`Program` is the Guest: from the outcomes Python has seen to what it may do next.
With one element everywhere it is deterministic; with more it diverges.  `effects`
and `applied` are the outside world, used by properties and by the Lookup resolver,
which is assumed truthful (it says *safe to dispatch* only if nothing happened) but
may also answer *pending* or nothing usable.  RetrySafe and Idempotent are treated
alike by the code and are one mode here.  `StoreFails` stands for every store
operation that returns an error without an effect (busy, I/O, a done context, the
payload limit), `Crash` for the end of the process, which drops the file lock.
Return codes are those of `classifyAttemptResult`.

### WorkspaceService

Every request, `Close` included, is a process that goes through its handler, one
step per critical section; `pc`, `kind` and `ref` say where it is, what it is and which
workspace it names.  `entry` and `owned` are the manager's entries and their owners,
`lease` and `running` the leases, `leases` and `slots` the server's map and its slot
channel, `todo` the leases that `Close` took out of the map and has not yet released.
The leases' and the manager's mutexes are held only inside a step; `server.mu` is the
variable `mu`, because one handler may end with it held.  A reference is not reused:
the code draws it at random and refuses one whose directory exists.

### WorkspaceQuota

`dirs` and `data` are the tree on disk, as far as the account is about it: which
directories there are, and the size of each file.  `entries`, `sizes`, `files` and
`bytes` are `rootedFS.usage`, `open` is `rootedFS.open`, `handle` holds the
`quotaFile`s that are not closed.  Every operation holds `rootedFS.mu`, so it is one
step; where a Guest has sought is not kept, because it may seek anywhere before a
`Write`.  The Host's file system is external: an operation of it fails without an
effect, a write may stop after any number of bytes, `WriteAt` is refused on a file
opened for appending (as Go's is), and a `SetAppend` is assumed to succeed.  `Release`
and `Acquire` replace the account by a new scan of the tree, which checks the number,
the sizes and the paths of what it finds (`ScanAccepts`); `Path` is what `cleanGuestPath`
accepts, so that a subtree which a rename moves too deep is refused by the rename
(`ReplacementsClean`) or else by that scan.

A write to a *directory's* handle is modelled as well, since nothing in `quotaFile`
excludes it: it fails, but `reconcileSize` then charges the size that `Stat` reports
for the directory, and `Rmdir` does not give that back.  The account then exceeds the
tree (never the other way round) until the next `Acquire`; `dirWritten` records it, and
the exact half of `AccountExact` is claimed without it only.

### DurableLog and the refinement

`DurableLog` has no process, lock or Guest: a row is appended for a call the program
makes after the recorded outcomes, only when all of these are durable; an outcome, a
decision or a result is never replaced; a settled run gets no new row; the result is
what the program ends with after all outcomes.  The refinement mapping is the identity
on the four row variables of `DurableRun` (`ImplementsLog`), so every other variable of
`DurableRun` is shown to be an implementation detail.  Over the call budget Python sees
refusals that have no row: `Ending(h)` says that `h` is the outcomes followed by such
refusals, each for a call that the program makes.

### DurableStore

`Open` takes the initialization lock, probes `user_version` and creates the tables in
one transaction; a process dies at any step (`Leave`).  The payload half gives every
field of a run's rows a length and every transaction its check (`Fits`), with replaced
fields counted by their increase.  A late outcome or decision of a run that has ended
is included: those are accepted by the code.

### ExportReplay

`Export` reads the run, its calls and its waits in three steps without a transaction
and creates its file exclusively; an exporter may die in between, and the file may be
edited.  `tools` is what `validateBundleRun` reads of the run's declarations: those of
an older run have no `python_path` and are refused.  `Oversized` bundles are those whose
encoding exceeds `maxBundleBytes`; which ones is a parameter, since JSON is not modelled,
and both `ExportTo`'s writer and `ReadBundle` refuse them as invalid.  The replay is a
Guest over the bundle: each call is compared with the next recorded one, and the end with
the recorded result.  The categories are those of `replay_mismatch.go`.  The program is a function of what Python has seen
(`ReplayAssumption`): `RunRecorded` gives the replayed Guest the seed and the clock of
the run, so nothing else can tell the two executions apart.  `EditsOf` are the edits of
a bundle: one request or outcome replaced, the calls cut short, the status or the
declarations exchanged.
`RunGoesOn` is `LogNext` with at most `MaxToolCalls` refused calls, a bound of this
module.  Hashes and keys are functions of a call's place and stand for
it.  `Bare` outcomes are those without a value.  History pages are read one per step
with a size that the reader chooses, while rows are appended.

### DurableService

A client has one request at a time; a handler is one step per call that another actor
can overtake.  An attempt is queued, starting, in its Guest, or being stopped, and its
context is its request's, which ends when the handler returns.  A start may also find
that the run's definition is not this Runner's, and blocks the run.  `phase` is `main`:
signal, `Shutdown`, `Close`, the drain or its deadline.  `Restart` is both the process's
death at any moment and its next start.  `told` remembers every terminal status a
client was told.  `runDuration` keeps its width: `Wrap` is int64 arithmetic.

### Future

The Guest's thread alone changes the map and the budget; a worker stores its response,
closes `done`, cancels its context and leaves the wait group, one step each.  A tool's
value is identified by its request, so an answer shows which call it came from.  A tool
is assumed to return when its context is done.

### WorkspaceHandoff

A file is read in two halves, so that an edit in between gives a text that no version
of it had.  Its identity and modification time are one stamp, which every write changes
(an assumption on the Host's clock) and a chmod does not; the root has one of its own,
which changes with the names in it.  `todo` is the set of paths left, served in the
order of `Paths`, which stands for the sort by name.  `moments` is a history variable: what each path
has been since the task began.

### PreparedGuest

A page holds the sequence of writes made to it, so that a wrong order or a shared page
shows.  The constructor's options are chosen at the start, every step that can fail
may fail, and a Runner may be closed while no Run is in progress.  Data images are
admitted by the rules of `cow_data_code.go`; the six artifacts include one for each
reason of refusal.  Of the walk over the opcodes the model has the verdict only (the
segments that the code names), not the decoding.

### SchedulingSim

The struct is one record; its methods are operators that return the record they leave
behind.  `Simulate`'s loop is seven actions: the next instant, each of its events, the
end of the instant, a tool or a running slot handed out, the cut of the admission
queue, and the end.  The heap is a set ordered by time and sequence number.  Time is a
natural number; the code's int64 nanoseconds hold 292 years of it.

## 3. Runs

| Run | Instance | Shows |
|---|---|---|
| `executor` | 4 attempts of 4 runs, 1 running, 3 resident, 1 inflight, 2 queued, burst 1, symmetry | the counters, queues and permits are exact, no capacity is left idle, overtaking is bounded, a Guest executes only with a slot |
| `executor_live` | 3 attempts, 2 of one run, 1 running, 2 resident | results are final, Close drains exactly, every attempt ends if Guests and tools return, a cancelled one in any case |
| `durable_run` | a program of up to 3 calls and one over the budget that may diverge, Lookup, Manual, RetrySafe (as ExternalIO), wait and unknown tools; 2 processes with different declarations | replay, effects, waits, reports; the rows implement `DurableLog` |
| `durable_store` | 3 processes, 3 tables; 2 calls, fields of 0, 1 or 3 bytes, 5 bytes in all, symmetry | an opened database is whole, the payload limit holds |
| `durable_service` | 2 clients, 2 runs, 1 slot, queue of 1, five `timeout_ms` | a terminal answer stands, a clean Close is quiet, every attempt ends |
| `export` | 2 exporters, 2 calls, one over the budget, pages of 1 and 2, symmetry | the file is the run, the verdict is right, the pages join up |
| `future` | 2 early requests and an unknown one, 2 pending, 3 calls | answers match, no worker is lost, every Run returns |
| `workspace` | 4 requests of any kind, Close included, 1 workspace, 2 slots | a Guest has its tree to itself, a lease is in one hand, slots come back, nothing leaks unreported, a request waits for its own Guest only, with one exception |
| `quota` | 2 names, depth 2, 2 handles, 3 entries, 3 bytes, 2 bytes per file, symmetry | the tree stays within the limits, depth included, the account follows it, open files keep their names |
| `handoff` | 2 paths, 3 texts, 2 edits at any moment | imports and clean reports are of what was there, conflicts are real |
| `prepared_guest` | 6 artifacts, every constructor, 2 Runs, 2 seeds | a Guest is fresh, memory is held exactly as long as needed |
| `scheduling_sim` | 3 tasks, 7 traces, 48 configurations (3 policies) | no completion is stale, no capacity is exceeded, no task is left behind, and the result is consistent |

Bounds.  Two levels of every limit matter in `Executor`: full and not full.  Three
residences with one running slot give two continuations in the ready queue beside
a running attempt, which is the least for which an abandoned continuation is not
the head; a fourth attempt makes the queue non-empty at the same time.  Burst 1
instead of 8 makes the bound of overtaking reachable.  In `DurableRun` two
processes give every hand-over of the lock; a program of three calls has a row
before, at and after the one in progress; `ReadAhead` 2 puts the edge of the
read-ahead window inside the history; effects are counted up to two because the
properties only tell 0, 1 and more apart; crashes and resumptions are unlimited.
Four requests to `WorkspaceService` are a create and three that meet each other:
a run, a DELETE and a Close.  What two workspaces would share is the slots and the
closed flags; the proofs of section 4 hold for any number of both.  In `WorkspaceQuota`
two names and depth 2 give renames of a directory with contents, into a name used
before and to another depth; 3 bytes in all and 2 per file make each limit bind without
the other.  In `DurableStore` three processes are one that dies, one that waits and one
that comes later.  In `DurableService` one run gets requests of every kind from two
clients and the other competes for the slot; a `timeout_ms` of 8 wraps to 0 in the
five-bit arithmetic of the instance, as a large one does in int64.  In `WorkspaceHandoff` two edits
are the least that put a file back; in `SchedulingSim` three tasks are one that holds
what a second waits for and a third that overtakes.

Deadlock is checked in `durable_run`.  In the others it is not: attempts, requests,
exports and Runs are finite, and when all are done the system has nothing left to do; a
file system waits for a Guest that may do nothing; and a simulation ends.

### Behaviours the models show

What a reader of the documentation may not expect.  The properties are stated so that
they hold of the code, with these cases as their named exceptions.

- `executeScheduled` (`durable/runner.go:335`) joins the error of `reacquire` to the
  result of an ExternalIO call that succeeded.  `encodeResponse` then drops the value
  and the journal commits the context error as the durable outcome, so every replay
  tells Python that an effect that happened failed.  The same tool declared Inline keeps
  its answer; the comment at `durable/runner.go:36` says that the scheduling class does
  not change durable recovery or replay semantics.  It is the exception of
  `OutcomeIsAnswer`.
- `handleDestroy` takes the lease out of `server.leases` before it knows whether the
  workspace can be released, and puts it back if a Guest is running.  Meanwhile a run or
  an inspection of that workspace is answered with 404, and a later one finds it;
  `docs/service.md:57` says that an *unknown* workspace returns 404.
- The same put-back is the exception in `RequestsEnd`: when `Close` set the map to nil in
  between (it does not wait for handlers; `cmd/pysolate-server` calls it after 30 s
  whether or not they ended), the write panics with `server.mu` held, and every later
  request that needs the mutex, `/healthz` included, waits for ever.  Beside this,
  `RequestsEnd` shows, a request waits for its own Guest only.  That wait has no end
  either for a Guest that loops when the service has no cap (the default,
  `docs/service.md:27`) and the request no `timeout_ms`; its slot and its workspace stay
  taken, and the other requests are answered.
- `reconcileSize` (`runtime/workspace/fs.go:508`) falls back to the size before the write
  when the Host's `Stat` fails, although the write was made.  Its bytes leave the
  account, and a following append passes the limits of `docs/workspace.md:81`.
  `WithinLimits` is checked for a Host whose `Stat` works; with `StatMayFail = TRUE` in
  `MCWorkspaceQuota.cfg` TLC shows the case.
- A tool result that cannot be marshalled is recorded as an object with an error and no
  value (`bridge.go:56-59`), and `validateBundleCall` (`durable/export_replay.go:458`)
  requires a value: such an ended run can never be exported, although its wire outcome,
  "including errors" (`docs/offline-replay.md:24`), is what an export is to contain;
  line 30 does say that malformed outcomes are rejected, and the code itself wrote this
  one.  It is one of the three reasons in `FileIsRun` for which an ended run is refused;
  the others are documented or a limit (declarations without Python paths, lines 33-35 of
  that page, and the size of the encoded bundle).
- `ChangeSet.Validate` (`runtime/workspace/export.go:112`) compares the number of
  *changes*, deletions included, with `MaxFiles`: a Guest that replaces files within the
  limits can make more, and `ExportChanges` then refuses the bundle it just built.
- `CheckDirectoryConflicts` compares the root's modification time
  (`runtime/workspace/export.go:258`), which changes with every name created in it:
  the check fails for a file that has nothing to do with the changes, where
  `docs/workspace.md:69-70` says that unrelated Host files may change.  So
  `ConflictsAreReal` promises of a failed check only that *something* was edited.
- `blocked` may be reported although it is not durable (`SetState` failed, or Cancel
  came first: then the run is cancelled); `parked` may be reported although a decision
  arrived after the wait was read.

### Fairness

`FairSpec` of `Executor`: a goroutine that can go on does (WF): the one inside
`scheduleLocked`, that of each attempt, `abort`, and a Cancel that has begun.  A Guest and
a Host callback promise to return only when their context is done (`Proceeds`), as wazero
closes the module and a tool is given the context; until then Python may loop and a tool
may wait for ever, and callers and contexts promise nothing.  So `AttemptsEnd` is
conditional: if in the end every Guest and tool is back, every attempt ends, which is what
the executor can promise; without the condition one endless Guest keeps its slot and the
queue behind it waits with it.  `CancelledAttemptsEnd` is about that case: an attempt that
is cancelled, or whose caller's context is done, ends whoever else runs for ever.  Its
condition `CallsRunOut` is what `maxToolCalls` gives: an attempt makes finitely many
calls, so that from some time on each Guest and each tool either has returned for good or
never does.  The model does not count calls, and without the condition others could take
and release the mutex for ever.  `FairSpec` of `WorkspaceService`: a request goroutine that can
take its next step takes it (WF), except in its Guest, which need not end:
`executionContext` (`service/server.go:402`) sets no deadline unless the service or the
request has one.  `FairSpec` of `Future`: workers and the Guest's thread take their next
step (WF), and a tool returns once its context is done.  `FairSpec` of `DurableService`:
handlers, attempts and the aborts of queued ones take their next step (WF), a request's
deadline passes (WF), and a Guest stops when its context is done (WF), as wazero closes
its module; a Guest whose context is not done may run for ever, and nobody has to send
a signal or a request.  So `NothingHangs` rests on the service's cap alone.

## 4. Proofs

`ExecutorProofs` proves, for any finite set of attempts, any runs and any limits
that `NewExecutor` accepts, the theorems listed in `PROJECT.json`: type correctness,
`CapacityExact`, `QueuesExact`, `WorkConserving`, `DirectStartOvertakesNobody`,
`BoundedOvertaking`, `ExecutingHoldsSlot`, `DrainExact` and `ResultsAreFinal`.

The inductive invariant is `IInv == TypeOK /\ GateAgrees /\ QueuesExact /\
CapacityExact`.  `CapacityExact` is not inductive alone: `reacquire` increments
`running` for an attempt that must not be running already, which follows from where
its goroutine is (`GateAgrees`); `scheduleLocked` increments it for the head of a
queue, which must be an attempt in that queue's state (`QueuesExact`), once.  The
set of running attempts gains or loses one element in each action, and the lemmas
`Tally` and `GateMoves` turn that into arithmetic on cardinalities, using that
`Attempt` is finite.  `Without`, the shift of `removeReadyLocked`, is shown to
remove exactly its target from a sequence without duplicates.  `WorkConserving` is
proved inductive relative to `IInv` (an action that frees capacity holds the mutex
until the loop ends); the direct start follows from it, and bounded overtaking from
an invariant that ties `passed` to `readyBurst`.

`EndInv` is what the end of an attempt needs beside `IInv`: exactly the live attempts are
in the `attempts` map (`Registered`), the goroutine inside `scheduleLocked` has finished
or has just given its slot up (`HolderKnown`), a closed executor without attempts is
drained, or the one that finished last is on its way there with the mutex (`Draining`),
and a result is there exactly when its attempt is done (`Published`).
`DrainExact` and `ExecutingHoldsSlot` follow from it, and so does the action property
`ResultsAreFinal`: the four paths that publish (`Cancel`, `abort`, `scheduleLocked`,
`finish`) each start from an attempt that is not done.

`WorkspaceProofs` proves, for any finite set of requests and any set of workspaces,
type correctness, `SlotsExact`, `GuestHasTree`, `OneHand` and `NothingLeaks`.  The
inductive invariant `WInv` adds to the first four what a handler relies on without
looking: `HandlerState` (what a request is and names at each step; only `Close` has
leases left to do), `LeaseHistory` (an entry outlives its lease and stays owned until
`Release` has ended), `NewAlone` (nobody else knows a workspace before its creator
published it, so `Acquire` cannot hand out a second lease) and `Accounted` (a tree on
disk is in the map, in somebody's hands, refused, or left to a `Close` still at work).
`GuestHasTree` needs the first three because `Release` gives the entry up after the
lease's mutex, so that an owned entry and a held lease are not the same thing;
`NothingLeaks` is `Accounted` when no request is in progress.  There is one lemma per
part, with one step per action that can disturb it.

`GuestProofs` proves of `Future`, for any requests and limits, type correctness (so the limits of
pending reads and of calls), `AnswersMatch` and `NoOrphanWorker`.  `FInv` adds to them
what a worker has done as its future shows it (`Futures`), where the Guest's thread can
wait (`Waiting`: a handle it waits for was made for just what it asks and is no longer in
the map, so nobody else resolves it) and that `close` has cancelled before it waits
(`Closing`).  `AnswersMatch` needs `Waiting`, because the answer is taken from a future
that was looked up in an earlier step.

`DurableRunProofs` proves, for any set of processes, any program, any recovery modes and
any limits, all six safety invariants of `DurableRun` and the refinement `ImplementsLog`.
`DInv` has two halves.  `StoreInv` is about the rows and the world alone: only the last
row is open, a wait belongs to a wait tool's row, an effect leaves an answer.
`Attempt(p)` is what a process that holds the lock knows: its Guest has seen outcomes of
completed rows (`Seen`), the rows read ahead are the next ones and a live journal has none
left (`Ahead`), what each stage of a call has established (`Stage`), and how the Guest
ended (`Ends`).  The argument is that a process without the lock is idle and knows
nothing, and that what others may do without the lock (`Decide`, `Cancel`) changes the
status and an open wait only, in ways that `Reads` and `Stage` allow for.
`EffectsAtMostOnce` rests on `Stage`: before a dispatch that may not be repeated the world
has seen no effect.  For the refinement each action is shown to be one step of
`DurableLog` or to leave the four row variables alone; the end of a run maps to `LogEnd`
because `hist[p]` is an `Ending` by `Seen` and `Ends`.

`DurableServiceProofs` proves `AnswersStand` and `CloseMeansQuiet` for any clients, runs,
requests, limits and timeouts.  `SInv` adds that a Guest's run is open or cancelled under
it (`GuestsRunOpen`), that a result still on its way to a client is what the row says
(`PendingTrue`; without it `AnswersStand` is not inductive, as the row is read in an
earlier step than the answer) and that a closed server's executor admits nothing
(`ClosedStays`).

`WorkspaceHandoffProofs` proves `ReadsAreMoments` and `ConflictsAreReal` for any paths,
texts and limits and any number of edits (`MaxEdits` is any number).  The heart of `HInv`
is `Reading`: as long as a file's stamp is the one of its `Lstat`, what was read so far is
a part of what the file was then; when it is not, the path has been two things.
`Remembered` gives the same for the root's stamp, `Copying` and `Checking` carry the
finished paths, `Reported` the last report.

`ExportReplayProofs` proves `FileIsRun`, `PagesComplete` and `VerdictRight` for any
program, budget, number of exporters and page sizes.  `LogInv` says that the rows follow
the program and that an ended run is a whole execution (`Faithful`); from it `RunStep`
shows that an ended run's rows are frozen, which makes the three reads of `Export` agree
although nothing locks them (`ExportInv`), and which fixes the reasons for a refusal: the
declarations, the encoded size or an outcome without a value.  `GuestInv` says what the replayed Guest has
seen of its bundle and, of an unedited one, that this is the beginning of the recorded
result; an intact export replays because a deterministic program can make no other call.

`GuestProofs` also proves `MemoryHeldExactly` and `GuestIsFresh` of `PreparedGuest`, for
any artifacts, Runs and seeds.  `Control` ties the constructor's phase to the handles it holds and to
where the Guests are; `Captured` says what the memfds and the image contain at each
phase, and `Made(g)` what a Guest's memory and recording are at each step of `newGuest`.
What the data segments write (`Written`, a fold) is never expanded: it is enough that the
seed holds whatever an instantiation writes.

`AccountProofs` is about the three components that keep an account.  Its first part is
about `Total`, which is a fold and so has a value only through a recursive function on
subsets.  Every induction is by a least counterexample (`LeastNumber`: a set of numbers
that is not empty has a least one, from the well-founded order of the library): such a
function exists (`SumsExist`), the fold satisfies its equation (`TotalDef`), the order of
the addends does not matter (`AnyOrder`), a change at one place changes the sum by just
that (`TotalChange`), renamed addends add up to no more (`TotalEmbedded`), and `d` more
for each of `n` elements is `n * d` more (`TotalShift`).

- *Store.*  `StoreOpenedIsWhole` for any processes and tables, `StorePayloadBounded` for
  any limit and lengths.  `Schema` says who holds the initialization lock and what the
  open transaction has created; a version is there only with all tables.  `RowsKept`
  says that the check of each transaction bounds what its row adds, replaced fields
  included, so that the sum over all rows stays below the limit.
- *Workspace.*  `QuotaWithinLimits` and `QuotaAccountExact` for any names, depth, limits
  and handles.  `QuotaInv` has three parts.  `Tree`: every entry is in directories up to
  the root.  Without it a rename of a directory could move its subtree onto names in
  use, and the renamed account would lose an addend.  `Sizes`: the account has every
  file with its size, and `bytes` has paid for every size it has, also for what a write
  to a directory's handle left behind.  `Handles`: an open file is counted under the
  path it was opened with, which is on disk, so that a later write is charged to the
  right file.  That every path has a depth that the scan accepts is kept by `Rename`'s
  check of each replaced name.  Both theorems have the hypothesis that `Stat` does not fail after a
  write: when it does, `reconcileSize` forgets bytes (section 3) and the limits do not
  hold.
- *Simulator.*  `SimConsistent` for any number of tasks and any traces, arrivals,
  priorities and configurations that `validateSimulation` accepts.  `SimInv` gives every
  task one place: a queue, an event that it waits for, or its end (`Standing`, `Queued`,
  `Scheduled`); a task that a method works on is in its *hand*, where its fields may
  disagree for a moment.  Each method is a lemma: it takes the task in hand to a place
  (`HandAdvance` and the others), takes one into hand (`TakenHand`, `PickedMoves`), or
  leaves it there.  `Tallied` says that the counters are the numbers of tasks whose flags
  say that they hold the capacity, `Ordered` that no two waiting tasks have the same
  number, so that `prefer` has a best one under every policy (`BestExists`) and the
  code's scan and the model's choice agree.  `Ledger` ties the areas to the time spent:
  the phases behind each task, and what has elapsed of the one it is in; a step of the
  clock adds the same to both sides (`InstantTaken`, by `TotalShift`).  That no task is
  left behind (`NobodyWaits`) follows from the end of each instant, when no capacity is
  left idle that somebody waits for: without events nothing is held, so nothing can be
  waited for.

Assumptions.  `LimitsAssumption` is what `NewExecutor` checks, `AttemptAssumption` says
that an execution has finitely many attempts, `ServiceAssumption` (of
`WorkspaceService`) that it has finitely many requests and that the server has at least
one slot.  `LogAssumption`, `DurableAssumption`, `FutureAssumption`, `ExportAssumption`
and `ServiceAssumption` (of `DurableService`) give the constants their types and keep
markers apart from values (*no outcome* is not an outcome); `DurableAssumption` also says
that only a tool that is dispatched is ExternalIO.  `HandoffAssumption` says that a text
has two halves, `GuestAssumption` that the code names only segments there are, which the
WebAssembly validation ensures.  `StoreAssumption` and `QuotaAssumption` type the
constants of the store and of the file system, and `SimAssumption` says of a simulation's
input what `validateSimulation` checks of the configuration and Go's types of the rest
(what it checks of a trace is `Valid`).  `ReplayAssumption` is the only one about behaviour: a
replayed program is a function of what it has seen (section 2); `DurableRun` and its
proofs do not need it, there a program may diverge.

`ExecutorDirectStart`, `WorkspaceTypeCorrect` and `FutureTypeCorrect` state properties
that no run repeats: each follows for every instance from the proof.

Only model-checked: the liveness properties (`AttemptsEnd`, `CancelledAttemptsEnd`,
`RequestsEnd`, `NothingHangs`, `RunEnds`), because the prover has no fairness.  Every invariant and every
action property that a run checks is also a theorem.  That a simulation reaches its end is
neither checked nor proved; what is shown is that an end, when it is reached, is right.

## 5. Plan

Shared lemmas of the proof modules (sequences without duplicates, rows, one element more
or less in a set) stated once.

## 6. Not modelled

The WebAssembly engine and its compiler, the Python interpreter, JSON and bundle
encodings, tool statistics and timing diagnostics (floating-point means that no decision
reads), capability binding (straight-line conversion between descriptions), sweep and
calibration of the simulator, the commands, benchmarks and examples, the database's own
recovery (SQLite's transactions are taken as atomic and durable), and the clock (a
deadline may have passed or not whenever the code asks).
