--------------------------- MODULE PreparedGuest ---------------------------
(***************************************************************************)
(* A Runner and the memory of its Guests: runner.go, prepared.go,          *)
(* cow_data_image.go, cow_data_code.go, recording.go and internal/cowmem.  *)
(*                                                                         *)
(* New compiles the artifact and initialises CPython in every Guest.       *)
(* NewPrepared initialises one Guest and keeps a copy of its memory;       *)
(* NewPreparedCOW keeps it in a sealed memfd that later Guests map         *)
(* privately; with DataImage the active data segments are taken out of the *)
(* compiled module too and mapped from a second memfd, the seed.  Whichever*)
(* constructor is used, a Guest that starts to execute has to look like    *)
(* one that was initialised from nothing, and every memfd, mapping and     *)
(* module has to be released, once, on every error path.                   *)
(*                                                                         *)
(* Memory is a sequence of pages.  A page holds the sequence of the writes *)
(* made to it, so that a write in the wrong order, on the wrong data, or   *)
(* seen by the wrong Guest shows.  The engine, the Guest's own functions   *)
(* and the kernel are external.                                            *)
(***************************************************************************)
EXTENDS Naturals, FiniteSets, SequencesExt

CONSTANTS
  Runs,      \* calls of Run, RunWorkspace and RunRecorded
  Modules,   \* the artifacts a Runner may be given
  Seeds,     \* recording seeds
  None       \* a model value: no seed, no image

VARIABLES
  options,        \* the constructor: prepared, cow, data image, workspace, seed
  module,         \* the artifact
  phase,          \* of the constructor, then of the Runner
  image,          \* Runner.image, or None
  cow,            \* Runner.cow: the memfd, or None
  cowSeed,        \* Runner.cowSeed: the memfd, or None
  preparedState,  \* Runner.preparedState, or None
  runtimeOpen,    \* Runner.runtime is open
  tempDir,        \* prepare's directory of the workspace's shape exists
  fds,            \* open memfds
  content,        \* memfd -> its sealed pages, or None
  mapped,         \* Guests whose reserved range is mapped
  gpc,            \* Guest -> where newGuest or run is
  call,           \* Guest -> [seed, workspace] of the call
  open,           \* Guests whose module is open
  pages,          \* Guest -> its linear memory
  drawn           \* Guest -> random values its recording has given

runnerVars == <<options, module, phase, image, cow, cowSeed, preparedState, runtimeOpen, tempDir>>
kernelVars == <<fds, content, mapped>>
guestVars == <<gpc, call, open, pages, drawn>>
vars == <<runnerVars, kernelVars, guestVars>>

Prep == "prepare"            \* the Guest that prepare captures
Guests == Runs \cup {Prep}
Images == {"final", "seed", "reseed"}

ASSUME GuestAssumption ==
  /\ Prep \notin Runs /\ None \notin Images \cup Seeds
  /\ \A m \in Modules : m.refs \subseteq DOMAIN m.segments

(***************************************************************************)
(* The artifact: its memory, its data segments in order, and the segments  *)
(* its code names in memory.init and data.drop.                            *)
(***************************************************************************)
Active(m) == {i \in DOMAIN m.segments : m.segments[i].active}

InBounds(m) ==
  \A i \in Active(m) : m.segments[i].offset + Len(m.segments[i].data) <= m.min

\* rewriteDataSection: every payload of an active segment becomes empty.
Shell(m) ==
  [imported |-> m.imported, start |-> m.start, bounded |-> m.bounded, min |-> m.min, max |-> m.max,
   refs |-> m.refs,
   segments |-> [i \in DOMAIN m.segments |->
                   IF m.segments[i].active
                   THEN [active |-> TRUE, offset |-> m.segments[i].offset, data |-> <<>>]
                   ELSE m.segments[i]]]

\* validateDataImageCode: the code must not name an active segment.
ValidCode(m) == m.refs \cap Active(m) = {}

\* transformCOWDataImage's admission.
Transformable(m) ==
  /\ ~m.imported /\ ~m.start /\ m.bounded
  /\ m.min > 0 /\ m.min <= m.max
  /\ Active(m) # {} /\ InBounds(m)
  /\ ValidCode(m)

\* The pages after the segments were written one after the other.
Written(m, blank) ==
  FoldLeft(LAMBDA mem, s :
             [p \in DOMAIN mem |->
                IF s.active /\ p > s.offset /\ p <= s.offset + Len(s.data)
                THEN <<s.data[p - s.offset]>> ELSE mem[p]],
           blank, m.segments)

Zero(m) == [p \in 1..m.min |-> <<>>]

\* What the engine and the Guest's exports do to memory: instantiation writes
\* the segments; _initialize depends on every page and runs memory.init on the
\* segments its code names; init depends on the random values, on the workspace
\* mount and on the pages, and grows memory to its maximum.
Instance(m) == Written(m, Zero(m))

Initialized(m, mem) ==
  [p \in DOMAIN mem |->
     mem[p] \o <<"_initialize">>
       \o (IF p = 1 /\ m.refs # {} THEN m.segments[CHOOSE i \in m.refs : TRUE].data ELSE <<>>)]

PythonReady(m, mem, seed, workspace) ==
  [p \in 1..m.max |->
     (IF p \in DOMAIN mem THEN mem[p] ELSE <<>>) \o <<seed, workspace>>]

\* The memory of a Guest that a Runner made by New has before it executes.
Fresh(m, seed, workspace) ==
  PythonReady(m, Initialized(m, Instance(m)), seed, workspace)

(***************************************************************************)
(* Pages: private, or still those of a memfd mapped with MAP_PRIVATE.      *)
(***************************************************************************)
Private(mem) == [p \in DOMAIN mem |-> [img |-> None, val |-> mem[p]]]

Load(g) ==
  [p \in DOMAIN pages[g] |->
     IF pages[g][p].img = None THEN pages[g][p].val ELSE content[pages[g][p].img][p]]

\* linuxCOW.Attach: grow to the image, then replace exactly the range.
Attached(img) == [p \in DOMAIN content[img] |-> [img |-> img, val |-> <<>>]]

CanAttach(g, img) == Len(pages[g]) <= Len(content[img])

Init ==
  /\ options \in [prepared : BOOLEAN, cow : BOOLEAN, data : BOOLEAN,
                  workspace : BOOLEAN, seed : Seeds \cup {None}]
  /\ ~options.prepared => ~options.cow /\ ~options.workspace /\ options.seed = None
  /\ options.data => options.cow
  /\ options.workspace => options.seed = None
  /\ module \in Modules
  /\ phase = "compile"
  /\ image = None /\ cow = None /\ cowSeed = None /\ preparedState = None
  /\ runtimeOpen = FALSE /\ tempDir = FALSE
  /\ fds = {} /\ content = [i \in Images |-> None] /\ mapped = {}
  /\ gpc = [g \in Guests |-> "idle"]
  /\ call = [g \in Guests |-> [seed |-> None, workspace |-> FALSE]]
  /\ open = {} /\ pages = [g \in Guests |-> <<>>] /\ drawn = [g \in Guests |-> 0]

(***************************************************************************)
(* The constructors.                                                       *)
(***************************************************************************)

\* guest.Close: the module, then its mapping; harmless when it is done again.
CloseGuest(g) ==
  /\ open' = open \ {g} /\ mapped' = mapped \ {g}
  /\ pages' = [pages EXCEPT ![g] = <<>>]

\* A constructor that fails runs prepare's deferred calls: m.Close, RemoveAll,
\* state.close and Runner.Close.  No Run has seen the Runner.
Discard ==
  /\ phase' = "failed"
  /\ runtimeOpen' = FALSE /\ tempDir' = FALSE
  /\ image' = None /\ cow' = None /\ cowSeed' = None
  /\ fds' = fds \ {cow, cowSeed}
  /\ CloseGuest(Prep)
  /\ gpc' = [gpc EXCEPT ![Prep] = "returned"]
  /\ UNCHANGED <<options, module, preparedState, content, call, drawn>>

\* newRunner: host modules, compilation, the exports it requires.
Compile ==
  /\ phase = "compile"
  /\ options.data => Transformable(module)
  /\ runtimeOpen' = TRUE
  /\ phase' = IF ~options.prepared THEN "ready" ELSE IF options.cow THEN "cow" ELSE "shape"
  /\ UNCHANGED <<options, module, image, cow, cowSeed, preparedState, tempDir, kernelVars, guestVars>>

NewCOW ==
  /\ phase = "cow"
  /\ cow' = "final" /\ fds' = fds \cup {"final"}
  /\ phase' = IF options.data THEN "seed" ELSE "shape"
  /\ UNCHANGED <<options, module, image, cowSeed, preparedState, runtimeOpen, tempDir,
                 content, mapped, guestVars>>

\* cowmem.New for the seed, and again after the first one was retired.
NewSeed ==
  /\ phase \in {"seed", "reseal"}
  /\ cowSeed' = IF phase = "seed" THEN "seed" ELSE "reseed"
  /\ fds' = fds \cup {cowSeed'}
  /\ phase' = IF phase = "seed" THEN "segments" ELSE "resegments"
  /\ UNCHANGED <<options, module, image, cow, preparedState, runtimeOpen, tempDir,
                 content, mapped, guestVars>>

\* The original segments, in their order, over zeroes.
CaptureSegments ==
  /\ phase \in {"segments", "resegments"}
  /\ content' = [content EXCEPT ![cowSeed] = Written(module, Zero(module))]
  /\ phase' = IF phase = "segments" THEN "shape" ELSE "state"
  /\ UNCHANGED <<options, module, image, cow, cowSeed, preparedState, runtimeOpen, tempDir,
                 fds, mapped, guestVars>>

\* The recording and the mount that the captured Guest is initialised with.
PrepareShape ==
  /\ phase = "shape"
  /\ tempDir' = options.workspace
  /\ call' = [call EXCEPT ![Prep] = [seed |-> options.seed, workspace |-> options.workspace]]
  /\ gpc' = [gpc EXCEPT ![Prep] = "allocate"]
  /\ phase' = "guest"
  /\ UNCHANGED <<options, module, image, cow, cowSeed, preparedState, runtimeOpen,
                 kernelVars, open, pages, drawn>>

Capture ==
  /\ phase = "guest" /\ gpc[Prep] = "ready"
  /\ IF cow # None
     THEN content' = [content EXCEPT ![cow] = Load(Prep)] /\ UNCHANGED image
     ELSE image' = Load(Prep) /\ UNCHANGED content
  /\ phase' = IF cowSeed # None THEN "retire" ELSE "state"
  /\ UNCHANGED <<options, module, cow, cowSeed, preparedState, runtimeOpen, tempDir, fds, mapped, guestVars>>

\* Capturing materialised the seed's holes: the Guest and the seed are closed,
\* and the seed is made again.
Retire ==
  /\ phase = "retire"
  /\ CloseGuest(Prep)
  /\ fds' = fds \ {cowSeed}
  /\ phase' = "reseal"
  /\ UNCHANGED <<options, module, image, cow, cowSeed, preparedState, runtimeOpen, tempDir,
                 content, gpc, call, drawn>>

\* rec.capture, and the deferred calls of a preparation that succeeded.
Prepared ==
  /\ phase = "state"
  /\ preparedState' = IF options.seed # None THEN [seed |-> options.seed, drawn |-> drawn[Prep]] ELSE None
  /\ CloseGuest(Prep)
  /\ tempDir' = FALSE
  /\ gpc' = [gpc EXCEPT ![Prep] = "returned"]
  /\ phase' = "ready"
  /\ UNCHANGED <<options, module, image, cow, cowSeed, runtimeOpen, fds, content, call, drawn>>

\* Any of the steps above fails, the artifact is refused, or newGuest returned
\* an error.
PrepareFails ==
  /\ phase \in {"compile", "cow", "seed", "segments", "shape", "guest",
               "retire", "reseal", "resegments", "state"}
  /\ phase = "guest" => gpc[Prep] \in {"ready", "failed"}
  /\ Discard

\* Close must happen after all Run calls return.
Close ==
  /\ phase = "ready"
  /\ \A g \in Runs : gpc[g] \in {"idle", "returned"}
  /\ phase' = "closed"
  /\ image' = None /\ runtimeOpen' = FALSE
  /\ fds' = fds \ {cow, cowSeed} /\ cow' = None /\ cowSeed' = None
  /\ UNCHANGED <<options, module, preparedState, tempDir, content, mapped, guestVars>>

(***************************************************************************)
(* newGuest.                                                               *)
(***************************************************************************)
At(g, pc) == gpc[g] = pc

Goto(g, pc) == gpc' = [gpc EXCEPT ![g] = pc]

Code == IF options.data THEN Shell(module) ELSE module

\* The final image is attached only once it was captured.
CowReady == cow # None /\ content[cow] # None

Allocate(g) ==
  /\ At(g, "allocate")
  /\ IF cow = None THEN UNCHANGED mapped
     ELSE module.bounded /\ mapped' = mapped \cup {g}
  /\ Goto(g, "instantiate")
  /\ UNCHANGED <<runnerVars, fds, content, call, open, pages, drawn>>

Instantiate(g) ==
  /\ At(g, "instantiate")
  /\ InBounds(Code) /\ ~module.imported
  /\ open' = open \cup {g}
  /\ pages' = [pages EXCEPT ![g] = Private(Instance(Code))]
  /\ Goto(g, IF cowSeed # None THEN "attach" ELSE "initialize")
  /\ UNCHANGED <<runnerVars, kernelVars, call, drawn>>

AttachSeed(g) ==
  /\ At(g, "attach")
  /\ CanAttach(g, cowSeed)
  /\ pages' = [pages EXCEPT ![g] = Attached(cowSeed)]
  /\ Goto(g, "initialize")
  /\ UNCHANGED <<runnerVars, kernelVars, call, open, drawn>>

Initialize(g) ==
  /\ At(g, "initialize")
  /\ pages' = [pages EXCEPT ![g] = Private(Initialized(Code, Load(g)))]
  /\ drawn' = [drawn EXCEPT ![g] = @ + 1]
  /\ Goto(g, "restore")
  /\ UNCHANGED <<runnerVars, kernelVars, call, open>>

RestoreCOW(g) ==
  /\ At(g, "restore") /\ CowReady
  /\ CanAttach(g, cow)
  /\ pages' = [pages EXCEPT ![g] = Attached(cow)]
  /\ Goto(g, "recording")
  /\ UNCHANGED <<runnerVars, kernelVars, call, open, drawn>>

RestoreCopy(g) ==
  /\ At(g, "restore") /\ ~CowReady /\ image # None
  /\ Len(pages[g]) <= Len(image)
  /\ pages' = [pages EXCEPT ![g] = Private(image)]
  /\ Goto(g, "recording")
  /\ UNCHANGED <<runnerVars, kernelVars, call, open, drawn>>

InitPython(g) ==
  /\ At(g, "restore") /\ ~CowReady /\ image = None
  /\ pages' = [pages EXCEPT ![g] =
       Private(PythonReady(module, Load(g), call[g].seed, call[g].workspace))]
  /\ drawn' = [drawn EXCEPT ![g] = @ + 1]
  /\ Goto(g, "recording")
  /\ UNCHANGED <<runnerVars, kernelVars, call, open>>

RestoreRecording(g) ==
  /\ At(g, "recording")
  /\ drawn' = IF call[g].seed # None /\ preparedState # None
              THEN [drawn EXCEPT ![g] = preparedState.drawn] ELSE drawn
  /\ Goto(g, "ready")
  /\ UNCHANGED <<runnerVars, kernelVars, call, open, pages>>

\* Any of them fails: the range is freed, the module closed; prepare or run
\* return the error.
NewGuestFails(g) ==
  /\ gpc[g] \in {"allocate", "instantiate", "attach", "initialize", "restore", "recording"}
  /\ CloseGuest(g)
  /\ Goto(g, IF g = Prep THEN "failed" ELSE "returned")
  /\ UNCHANGED <<runnerVars, fds, content, call, drawn>>

NewGuest(g) ==
  \/ Allocate(g)
  \/ Instantiate(g)
  \/ AttachSeed(g)
  \/ Initialize(g)
  \/ RestoreCOW(g)
  \/ RestoreCopy(g)
  \/ InitPython(g)
  \/ RestoreRecording(g)
  \/ NewGuestFails(g)

(***************************************************************************)
(* Run, RunWorkspace, RunRecorded.                                         *)
(***************************************************************************)
Prepares == image # None \/ cow # None

RunAccepted(c) ==
  /\ ~c.workspace /\ c.seed = None => ~options.workspace
  /\ c.workspace => (Prepares => options.workspace)
  /\ c.seed # None /\ Prepares => preparedState # None /\ preparedState.seed = c.seed

RunBegins(g) ==
  /\ phase = "ready" /\ At(g, "idle")
  /\ \E c \in [seed : Seeds \cup {None}, workspace : BOOLEAN] :
       /\ c.workspace => c.seed = None
       /\ call' = [call EXCEPT ![g] = c]
       /\ Goto(g, IF RunAccepted(c) THEN "allocate" ELSE "returned")
  /\ UNCHANGED <<runnerVars, kernelVars, open, pages, drawn>>

\* executeGuest enters the Guest's code.
Execute(g) ==
  /\ At(g, "ready")
  /\ g # Prep
  /\ Goto(g, "executing")
  /\ UNCHANGED <<runnerVars, kernelVars, call, open, pages, drawn>>

\* Variant: the image is mapped with MAP_SHARED and was not sealed.
StorePageShared(g, p) ==
  IF pages[g][p].img # None
  THEN /\ content' = [content EXCEPT ![pages[g][p].img][p] = <<g>>]
       /\ UNCHANGED pages
  ELSE /\ pages' = [pages EXCEPT ![g][p].val = <<g>>]
       /\ UNCHANGED content

\* A write of Python to page p: it becomes the Guest's own.
StorePage(g, p) ==
  /\ pages' = [pages EXCEPT ![g][p] = [img |-> None, val |-> <<g>>]]
  /\ UNCHANGED content

Store(g) ==
  /\ At(g, "executing")
  /\ \E p \in DOMAIN pages[g] : Load(g)[p] # <<g>> /\ StorePage(g, p)
  /\ UNCHANGED <<runnerVars, fds, mapped, gpc, call, open, drawn>>

\* Variant: without deferredFree, closing the module frees its memory.
ModuleClosesFrees(g) ==
  /\ At(g, "executing")
  /\ open' = open \ {g} /\ mapped' = mapped \ {g}
  /\ Goto(g, "unwinding")
  /\ UNCHANGED <<runnerVars, fds, content, call, pages, drawn>>

\* stopForJournal, or a context that ends, closes the module inside a Host call:
\* the Guest's frames are still to be unwound.
ModuleCloses(g) ==
  /\ At(g, "executing")
  /\ open' = open \ {g}
  /\ Goto(g, "unwinding")
  /\ UNCHANGED <<runnerVars, kernelVars, call, pages, drawn>>

\* execute returned, or its frames were unwound: the response is copied, then
\* the module is closed and its memory freed.
RunReturns(g) ==
  /\ gpc[g] \in {"executing", "unwinding"}
  /\ CloseGuest(g)
  /\ Goto(g, "returned")
  /\ UNCHANGED <<runnerVars, fds, content, call, drawn>>

Run(g) ==
  \/ RunBegins(g)
  \/ Execute(g)
  \/ Store(g)
  \/ ModuleCloses(g)
  \/ RunReturns(g)

Next ==
  \/ Compile
  \/ NewCOW
  \/ NewSeed
  \/ PrepareShape
  \/ Capture
  \/ Retire
  \/ CaptureSegments
  \/ Prepared
  \/ PrepareFails
  \/ Close
  \/ \E g \in Guests : NewGuest(g)
  \/ \E g \in Runs : Run(g)

Spec == Init /\ [][Next]_vars

(***************************************************************************)
(* Properties.                                                             *)
(***************************************************************************)

\* Whatever constructor made the Runner, a Guest starts to execute in the memory
\* that an initialisation from nothing would give it: for a recorded run with its
\* seed and the random stream where that initialisation leaves it, for the mounts
\* the call has, and without a trace of another Guest.  This is the order of
\* segments, seed, _initialize and restore in newGuest, the admission of data
\* images, the seed check of RunRecorded and the privacy of the mappings.
GuestIsFresh ==
  \A g \in Runs :
    gpc[g] = "ready" =>
      /\ \E s \in {call[g].seed} \cup (IF call[g].seed = None THEN {options.seed} ELSE {}) :
           Load(g) = Fresh(module, s, call[g].workspace)
      /\ call[g].seed # None => drawn[g] = 2

\* Memory is there while Wasm frames may touch it, also after the module was
\* closed under them, and is gone with its module when the call returned; a
\* Runner that was closed or never returned by its constructor leaves no memfd,
\* mapping, module, engine or directory behind: mapped.Free, deferredFree, the
\* deferred closes of prepare and newGuest, and Runner.Close.
MemoryHeldExactly ==
  /\ options.cow => \A g \in Runs : gpc[g] \in {"ready", "executing", "unwinding"} => g \in mapped
  /\ \A g \in Guests : gpc[g] \in {"idle", "returned"} => g \notin mapped /\ g \notin open
  /\ phase \in {"failed", "closed"} =>
       fds = {} /\ mapped = {} /\ open = {} /\ ~tempDir /\ ~runtimeOpen
  /\ phase = "ready" => fds = {cow, cowSeed} \ {None} /\ ~tempDir
=============================================================================
