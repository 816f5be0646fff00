----------------------------- MODULE GuestProofs -----------------------------
(***************************************************************************)
(* Proofs about the Guests of a Runner: how they are made (PreparedGuest), *)
(* for every artifact, any number of Runs and every set of seeds, and the  *)
(* early reads of one Run (Future), for every manifest and both limits.    *)
(*                                                                         *)
(* PreparedGuest: Control relates the constructor's phase to the handles   *)
(* it holds and to where the Guests are: before the Runner is ready only   *)
(* the captured Guest exists, afterwards only those of runs.  Data says    *)
(* what was captured, and for every step of newGuest what the Guest's      *)
(* memory and recording are by then.  Written, a fold over the segments,   *)
(* is never expanded: that the seed holds what an instantiation writes is  *)
(* enough.                                                                 *)
(*                                                                         *)
(* Future: FInv adds to the properties which handles have a worker, what   *)
(* the waiting thread waits for, and what a Run that ends has cancelled.   *)
(***************************************************************************)
EXTENDS PreparedGuest, Future, FiniteSetTheorems, TLAPS

-----------------------------------------------------------------------------
(* Making a Guest: the inductive invariant. *)

Making  == {"allocate", "instantiate", "attach", "initialize", "restore", "recording"}
Holding == {"instantiate", "attach", "initialize", "restore", "recording",
            "ready", "executing", "unwinding"}
Before  == {"compile", "cow", "seed", "segments", "shape"}
Late    == {"retire", "reseal", "resegments", "state"}
Gone    == {"failed", "closed"}
Options == [prepared : BOOLEAN, cow : BOOLEAN, data : BOOLEAN,
            workspace : BOOLEAN, seed : Seeds \cup {None}]

\* The constructor: which one it can be, where it is, and what it holds there.
Built ==
  /\ options \in Options /\ module \in Modules
  /\ phase \in Before \cup {"guest"} \cup Late \cup {"ready"} \cup Gone
  /\ options.cow => options.prepared
  /\ options.data => options.cow /\ (phase \notin {"compile"} \cup Gone => ValidCode(module))
  /\ ~options.prepared => ~options.workspace /\ options.seed = None
  /\ options.workspace => options.seed = None
  /\ phase \in {"cow", "seed", "segments"} => options.cow
  /\ phase \in {"seed", "segments", "retire", "reseal", "resegments"} => options.data
  /\ phase \in {"shape", "guest"} \cup Late => options.prepared

Handles ==
  /\ cow = IF options.cow /\ phase \notin {"compile", "cow"} \cup Gone THEN "final" ELSE None
  /\ cowSeed = IF ~options.data \/ phase \in {"compile", "cow", "seed"} \cup Gone THEN None
               ELSE IF phase \in {"segments", "shape", "guest", "retire", "reseal"} THEN "seed"
               ELSE "reseed"
  /\ fds = IF phase = "reseal" THEN {"final"} ELSE {cow, cowSeed} \ {None}
  /\ runtimeOpen => phase \notin {"compile"} \cup Gone
  /\ tempDir => phase \in {"guest"} \cup Late

\* Where the Guests are: the captured one before, the others after the Runner is
\* ready; and what the kernel holds for them.
Placed ==
  /\ gpc \in [Guests -> Making \cup {"idle", "ready", "executing", "unwinding", "returned", "failed"}]
  /\ phase \in Before => gpc[Prep] = "idle"
  /\ phase = "guest" => gpc[Prep] \in Making \cup {"ready", "failed"}
  /\ phase \in Late => gpc[Prep] = "ready"
  /\ phase \in {"ready"} \cup Gone => gpc[Prep] \in {"idle", "returned"}
  /\ \A g \in Runs : gpc[g] \notin {"idle", "returned"} => phase = "ready"
  /\ \A g \in Runs : gpc[g] # "idle" => phase \in {"ready", "closed"}
  /\ \A g \in Runs : gpc[g] # "failed"

Held ==
  /\ mapped \subseteq Guests /\ open \subseteq Guests
  /\ \A g \in Guests : gpc[g] \in {"idle", "returned", "failed", "allocate"} => g \notin mapped /\ g \notin open
  /\ options.cow => \A g \in Runs : gpc[g] \in Holding => g \in mapped

\* What was captured: the segments in the seed, a Guest made from nothing in the
\* image or in the final memfd, and how far its recording got.
Captured ==
  LET made == Fresh(module, options.seed, options.workspace)
  IN  /\ content \in [Images -> {None, Instance(module), made}]
      /\ options.data /\ phase \in {"shape", "guest"} => content["seed"] = Instance(module)
      /\ options.data /\ phase \in {"state", "ready"} => content["reseed"] = Instance(module)
      /\ options.cow /\ phase \in Late \cup {"ready"} => content["final"] = made
      /\ phase \in Before \cup {"guest"} => content["final"] = None
      /\ image = IF options.prepared /\ ~options.cow /\ phase \in {"state", "ready"} THEN made ELSE None
      /\ preparedState # None =>
           phase \in {"ready"} \cup Gone /\ options.seed # None
           /\ preparedState = [seed |-> options.seed, drawn |-> 2]

Shaped == DOMAIN call = Guests /\ DOMAIN pages = Guests /\ DOMAIN drawn = Guests

\* The call a Guest is made for, its memory and its recording at each step of
\* newGuest.
Suits(g) ==
  /\ call[g] \in [seed : Seeds \cup {None}, workspace : BOOLEAN]
  /\ call[g].workspace => call[g].seed = None
  /\ IF g = Prep THEN call[g] = [seed |-> options.seed, workspace |-> options.workspace]
     ELSE RunAccepted(call[g])

FreshFor(g) ==
  \E s \in {call[g].seed} \cup (IF call[g].seed = None THEN {options.seed} ELSE {}) :
     Load(g) = Fresh(module, s, call[g].workspace)

Made(g) ==
  /\ gpc[g] \in Making \cup {"ready"} => Suits(g)
  /\ gpc[g] \in {"idle", "allocate", "instantiate", "attach", "initialize"} => drawn[g] = 0
  /\ gpc[g] = "attach" => cowSeed # None
  /\ gpc[g] = "initialize" =>
       Initialized(module, Load(g)) = Initialized(module, Instance(module))
  /\ gpc[g] = "restore" => Load(g) = Initialized(module, Instance(module)) /\ drawn[g] = 1
  /\ gpc[g] = "recording" =>
       FreshFor(g) /\ (call[g].seed = None \/ drawn[g] = 2 \/ preparedState # None)
  /\ gpc[g] = "ready" => (call[g].seed # None => drawn[g] = 2)
  /\ gpc[g] = "ready" /\ (g = Prep => phase = "guest") => FreshFor(g)

-----------------------------------------------------------------------------
(* Control: the constructor's steps. *)

Control == Built /\ Handles /\ Placed /\ Held

LEMMA PrepIsGuest == Prep \in Guests /\ Prep \notin Runs /\ Runs \subseteq Guests
  BY GuestAssumption DEF Guests

LEMMA NoneIsNoImage == None # "final" /\ None # "seed" /\ None # "reseed"
  BY GuestAssumption DEF Images

LEMMA CompileControl ==
  ASSUME Control, Compile PROVE Control'
  <1>1. /\ phase = "compile" /\ (options.data => Transformable(module)) /\ runtimeOpen' = TRUE
        /\ phase' = IF ~options.prepared THEN "ready" ELSE IF options.cow THEN "cow" ELSE "shape"
        /\ UNCHANGED <<options, module, cow, cowSeed, tempDir, fds, mapped, gpc, open>>
    BY DEF Compile, kernelVars, guestVars
  <1>2. Built'
    BY <1>1 DEF Control, Built, Transformable, Before, Late, Gone, Options
  <1>3. Handles'
    BY <1>1 DEF Control, Built, Handles, Before, Late, Gone, Options
  <1>4. Placed'
    BY <1>1 DEF Control, Built, Placed, Before, Late, Gone, Options
  <1>5. Held'
    BY <1>1 DEF Control, Held
  <1> QED BY <1>2, <1>3, <1>4, <1>5 DEF Control

LEMMA NewCOWControl ==
  ASSUME Control, NewCOW PROVE Control'
  <1>1. /\ phase = "cow" /\ cow' = "final" /\ fds' = fds \cup {"final"}
        /\ phase' = (IF options.data THEN "seed" ELSE "shape")
        /\ UNCHANGED <<options, module, cowSeed, runtimeOpen, tempDir, mapped, gpc, open>>
    BY DEF NewCOW, guestVars
  <1>2. Built'
    BY <1>1 DEF Control, Built, Before, Late, Gone, Options
  <1>3. Handles'
    BY <1>1, NoneIsNoImage DEF Control, Built, Handles, Before, Late, Gone, Options
  <1>4. Placed'
    BY <1>1 DEF Control, Built, Placed, Before, Late, Gone, Options
  <1>5. Held'
    BY <1>1 DEF Control, Held
  <1> QED BY <1>2, <1>3, <1>4, <1>5 DEF Control

LEMMA SeedControl ==
  ASSUME Control, NewSeed \/ CaptureSegments PROVE Control'
  <1>1. CASE NewSeed
    <2>1. /\ phase \in {"seed", "reseal"} /\ fds' = fds \cup {cowSeed'}
          /\ cowSeed' = (IF phase = "seed" THEN "seed" ELSE "reseed")
          /\ phase' = (IF phase = "seed" THEN "segments" ELSE "resegments")
          /\ UNCHANGED <<options, module, cow, runtimeOpen, tempDir, mapped, gpc, open>>
      BY <1>1 DEF NewSeed, guestVars
    <2>2. Built'
      BY <2>1 DEF Control, Built, Before, Late, Gone, Options
    <2>3. Handles'
      BY <2>1, NoneIsNoImage DEF Control, Built, Handles, Before, Late, Gone, Options
    <2>4. Placed'
      BY <2>1 DEF Control, Built, Placed, Before, Late, Gone, Options
    <2>5. Held'
      BY <2>1 DEF Control, Held
    <2> QED BY <2>2, <2>3, <2>4, <2>5 DEF Control
  <1>2. CASE CaptureSegments
    <2>1. /\ phase \in {"segments", "resegments"}
          /\ phase' = (IF phase = "segments" THEN "shape" ELSE "state")
          /\ UNCHANGED <<options, module, cow, cowSeed, runtimeOpen, tempDir, fds, mapped, gpc, open>>
      BY <1>2 DEF CaptureSegments, guestVars
    <2>2. Built'
      BY <2>1 DEF Control, Built, Before, Late, Gone, Options
    <2>3. Handles'
      BY <2>1, NoneIsNoImage DEF Control, Built, Handles, Before, Late, Gone, Options
    <2>4. Placed'
      BY <2>1 DEF Control, Built, Placed, Before, Late, Gone, Options
    <2>5. Held'
      BY <2>1 DEF Control, Held
    <2> QED BY <2>2, <2>3, <2>4, <2>5 DEF Control
  <1> QED BY <1>1, <1>2

LEMMA CaptureControl ==
  ASSUME Control, PrepareShape \/ Capture \/ Retire PROVE Control'
  <1>1. CASE PrepareShape
    <2>1. /\ phase = "shape" /\ phase' = "guest" /\ gpc' = [gpc EXCEPT ![Prep] = "allocate"]
          /\ tempDir' = options.workspace
          /\ UNCHANGED <<options, module, cow, cowSeed, runtimeOpen, fds, mapped, open>>
      BY <1>1 DEF PrepareShape, kernelVars
    <2>2. Built'
      BY <2>1 DEF Control, Built, Before, Late, Gone, Options
    <2>3. Handles'
      BY <2>1 DEF Control, Built, Handles, Before, Late, Gone, Options
    <2>4. Placed'
      BY <2>1, PrepIsGuest DEF Control, Built, Placed, Before, Late, Gone, Making
    <2>5. Held'
      BY <2>1, PrepIsGuest DEF Control, Held, Placed, Before, Holding
    <2> QED BY <2>2, <2>3, <2>4, <2>5 DEF Control
  <1>2. CASE Capture
    <2>1. /\ phase = "guest" /\ gpc[Prep] = "ready"
          /\ phase' = (IF cowSeed # None THEN "retire" ELSE "state")
          /\ UNCHANGED <<options, module, cow, cowSeed, runtimeOpen, tempDir, fds, mapped, gpc, open>>
      BY <1>2 DEF Capture, guestVars
    <2>2. Built'
      BY <2>1 DEF Control, Built, Handles, Before, Late, Gone, Options
    <2>3. Handles'
      BY <2>1, NoneIsNoImage DEF Control, Built, Handles, Before, Late, Gone, Options
    <2>4. Placed'
      BY <2>1 DEF Control, Built, Placed, Before, Late, Gone, Options
    <2>5. Held'
      BY <2>1 DEF Control, Held
    <2> QED BY <2>2, <2>3, <2>4, <2>5 DEF Control
  <1>3. CASE Retire
    <2>1. /\ phase = "retire" /\ phase' = "reseal" /\ fds' = fds \ {cowSeed}
          /\ mapped' = mapped \ {Prep} /\ open' = open \ {Prep}
          /\ UNCHANGED <<options, module, cow, cowSeed, runtimeOpen, tempDir, gpc>>
      BY <1>3 DEF Retire, CloseGuest
    <2>2. Built'
      BY <2>1 DEF Control, Built, Before, Late, Gone, Options
    <2>3. Handles'
      BY <2>1, NoneIsNoImage DEF Control, Built, Handles, Before, Late, Gone, Options
    <2>4. Placed'
      BY <2>1 DEF Control, Built, Placed, Before, Late, Gone, Options
    <2>5. Held'
      BY <2>1, PrepIsGuest DEF Control, Held
    <2> QED BY <2>2, <2>3, <2>4, <2>5 DEF Control
  <1> QED BY <1>1, <1>2, <1>3

\* The ends of the constructor and of the Runner give everything back.
LEMMA EndControl ==
  ASSUME Control, Prepared \/ PrepareFails \/ Close PROVE Control'
  <1>1. CASE Prepared
    <2>1. /\ phase = "state" /\ phase' = "ready" /\ tempDir' = FALSE
          /\ gpc' = [gpc EXCEPT ![Prep] = "returned"]
          /\ mapped' = mapped \ {Prep} /\ open' = open \ {Prep}
          /\ UNCHANGED <<options, module, cow, cowSeed, runtimeOpen, fds>>
      BY <1>1 DEF Prepared, CloseGuest
    <2>2. Built'
      BY <2>1 DEF Control, Built, Before, Late, Gone, Options
    <2>3. Handles'
      BY <2>1, NoneIsNoImage DEF Control, Built, Handles, Before, Late, Gone, Options
    <2>4. Placed'
      BY <2>1, PrepIsGuest DEF Control, Built, Placed, Before, Late, Gone, Making
    <2>5. Held'
      BY <2>1, PrepIsGuest DEF Control, Held, Placed, Holding
    <2> QED BY <2>2, <2>3, <2>4, <2>5 DEF Control
  <1>2. CASE PrepareFails
    <2>1. /\ phase \in Before \cup {"guest"} \cup Late /\ phase' = "failed"
          /\ tempDir' = FALSE /\ runtimeOpen' = FALSE /\ cow' = None /\ cowSeed' = None
          /\ fds' = fds \ {cow, cowSeed}
          /\ gpc' = [gpc EXCEPT ![Prep] = "returned"]
          /\ mapped' = mapped \ {Prep} /\ open' = open \ {Prep}
          /\ UNCHANGED <<options, module>>
      BY <1>2 DEF PrepareFails, Discard, CloseGuest, Before, Late
    <2>2. Built'
      BY <2>1 DEF Control, Built, Before, Late, Gone, Options
    <2>3. fds' = {}
      BY <2>1, NoneIsNoImage DEF Control, Built, Handles, Before, Late, Gone, Options
    <2>4. Handles'
      BY <2>1, <2>3 DEF Control, Built, Handles, Before, Late, Gone, Options
    <2>5. Placed'
      BY <2>1, PrepIsGuest DEF Control, Built, Placed, Before, Late, Gone, Making
    <2>6. Held'
      BY <2>1, PrepIsGuest DEF Control, Held, Placed, Holding, Before, Late
    <2> QED BY <2>2, <2>4, <2>5, <2>6 DEF Control
  <1>3. CASE Close
    <2>1. /\ phase = "ready" /\ phase' = "closed" /\ runtimeOpen' = FALSE
          /\ \A g \in Runs : gpc[g] \in {"idle", "returned"}
          /\ cow' = None /\ cowSeed' = None /\ fds' = fds \ {cow, cowSeed}
          /\ UNCHANGED <<options, module, tempDir, mapped, gpc, open>>
      BY <1>3 DEF Close, guestVars
    <2>2. Built'
      BY <2>1 DEF Control, Built, Before, Late, Gone, Options
    <2>3. Handles'
      BY <2>1, NoneIsNoImage DEF Control, Built, Handles, Before, Late, Gone, Options
    <2>4. Placed'
      BY <2>1 DEF Control, Built, Placed, Before, Late, Gone, Options
    <2>5. Held'
      BY <2>1 DEF Control, Held
    <2> QED BY <2>2, <2>3, <2>4, <2>5 DEF Control
  <1> QED BY <1>1, <1>2, <1>3

-----------------------------------------------------------------------------
(* Control: the steps of a Guest. *)

\* A step of Guest g moves it from a to b and leaves the Runner alone.
LEMMA MoveControl ==
  ASSUME Control, NEW g \in Guests, NEW b \in Making \cup {"ready", "executing", "unwinding", "returned", "failed"},
         UNCHANGED <<runnerVars, fds>>, gpc' = [gpc EXCEPT ![g] = b],
         g = Prep => gpc[g] \in Making /\ b \in Making \cup {"ready", "failed"},
         g \in Runs => b # "failed" /\ phase = "ready",
         mapped' = mapped \/ mapped' = mapped \cup {g} \/ mapped' = mapped \ {g},
         open' = open \/ open' = open \cup {g} \/ open' = open \ {g},
         b \in {"returned", "failed", "allocate"} => g \notin mapped' /\ g \notin open',
         options.cow /\ b \in Holding => g \in mapped' \/ g = Prep
  PROVE  Control'
  <1>1. UNCHANGED <<options, module, phase, image, cow, cowSeed, preparedState, runtimeOpen, tempDir, fds>>
    BY DEF runnerVars
  <1>2. Built' /\ Handles'
    BY <1>1 DEF Control, Built, Handles
  <1>3. gpc'[g] = b /\ \A h \in Guests : h # g => gpc'[h] = gpc[h]
    BY DEF Control, Placed
  <1>4. g = Prep => phase = "guest"
    BY DEF Control, Built, Placed, Making, Before, Late, Gone
  <1>5. Placed'
    <2>1. gpc' \in [Guests -> Making \cup {"idle", "ready", "executing", "unwinding", "returned", "failed"}]
      BY DEF Control, Placed
    <2>2. CASE g = Prep
      BY <1>1, <1>3, <1>4, <2>1, <2>2, PrepIsGuest DEF Control, Placed, Before, Late, Gone
    <2>3. CASE g \in Runs
      <3>1. gpc'[Prep] = gpc[Prep]
        BY <2>3, <1>3, PrepIsGuest
      <3>2. \A h \in Runs : gpc'[h] # "failed"
        BY <1>3, <2>3, PrepIsGuest DEF Control, Placed
      <3> QED BY <1>1, <2>1, <2>3, <3>1, <3>2 DEF Control, Placed, Before, Late, Gone
    <2> QED BY <2>2, <2>3 DEF Guests
  <1>6. Held'
    <2>1. mapped' \subseteq Guests /\ open' \subseteq Guests
      BY DEF Control, Held
    <2>2. ASSUME NEW h \in Guests, gpc'[h] \in {"idle", "returned", "failed", "allocate"}
          PROVE  h \notin mapped' /\ h \notin open'
      <3>1. CASE h = g
        BY <1>3, <2>2, <3>1 DEF Making
      <3>2. CASE h # g
        BY <1>3, <2>2, <3>2 DEF Control, Held
      <3> QED BY <3>1, <3>2
    <2>3. ASSUME options.cow, NEW h \in Runs, gpc'[h] \in Holding
          PROVE  h \in mapped'
      <3>1. CASE h = g
        BY <1>3, <2>3, <3>1, PrepIsGuest
      <3>2. CASE h # g
        BY <1>3, <2>3, <3>2, PrepIsGuest DEF Control, Held
      <3> QED BY <3>1, <3>2
    <2> QED BY <1>1, <2>1, <2>2, <2>3 DEF Held
  <1> QED BY <1>2, <1>5, <1>6 DEF Control

\* newGuest is called in prepare, and in a run of a Runner that is ready.
LEMMA MakingPhase ==
  ASSUME Control, NEW g \in Guests, gpc[g] \in Making
  PROVE  /\ phase = (IF g = Prep THEN "guest" ELSE "ready")
         /\ cow = (IF options.cow THEN "final" ELSE None)
         /\ cowSeed = (IF ~options.data THEN None ELSE IF g = Prep THEN "seed" ELSE "reseed")
         /\ options \in Options /\ module \in Modules
         /\ options.data => options.cow /\ ValidCode(module)
  <1>1. CASE g = Prep
    <2>1. phase = "guest"
      BY <1>1 DEF Control, Built, Placed, Making, Before, Late, Gone
    <2> QED BY <1>1, <2>1 DEF Control, Built, Handles, Gone
  <1>2. CASE g # Prep
    <2>1. phase = "ready"
      BY <1>2 DEF Control, Placed, Making, Guests
    <2> QED BY <1>2, <2>1 DEF Control, Built, Handles, Gone
  <1> QED BY <1>1, <1>2

LEMMA NewGuestControl ==
  ASSUME Control, NEW g \in Guests, NewGuest(g)
  PROVE  Control'
  <1>1. gpc[g] \in Making
    BY DEF NewGuest, Allocate, Instantiate, AttachSeed, Initialize, RestoreCOW, RestoreCopy,
           InitPython, RestoreRecording, NewGuestFails, At, Making
  <1>2. /\ phase = (IF g = Prep THEN "guest" ELSE "ready")
        /\ cow = (IF options.cow THEN "final" ELSE None)
    BY <1>1, MakingPhase
  <1>3. g = Prep \/ g \in Runs
    BY DEF Guests
  <1>4. gpc[g] \in Holding /\ options.cow => g \in mapped \/ g = Prep
    BY <1>3 DEF Control, Held
  <1>5. CASE Allocate(g)
    <2>1. /\ UNCHANGED <<runnerVars, fds, open>> /\ gpc' = [gpc EXCEPT ![g] = "instantiate"]
          /\ mapped' = mapped \/ mapped' = mapped \cup {g}
          /\ options.cow => g \in mapped'
      BY <1>2, <1>5, NoneIsNoImage DEF Allocate, Goto
    <2>2. "instantiate" \in Making
      BY DEF Making
    <2> QED BY <1>1, <1>2, <1>3, <2>1, <2>2, PrepIsGuest, MoveControl
  <1>6. ASSUME NEW b \in Making \cup {"ready"}, b # "allocate", gpc[g] \in Holding,
               UNCHANGED <<runnerVars, fds, mapped>>, gpc' = [gpc EXCEPT ![g] = b],
               open' = open \/ open' = open \cup {g}
        PROVE  Control'
    <2>1. b \notin {"returned", "failed", "allocate"} /\ b # "failed"
      BY <1>6 DEF Making
    <2> QED BY <1>1, <1>2, <1>3, <1>4, <1>6, <2>1, PrepIsGuest, MoveControl
  <1>7. CASE Instantiate(g) \/ AttachSeed(g) \/ Initialize(g) \/ RestoreCOW(g) \/ RestoreCopy(g)
             \/ InitPython(g) \/ RestoreRecording(g)
    <2>1. /\ UNCHANGED <<runnerVars, fds, mapped>> /\ gpc[g] \in Holding
          /\ open' = open \/ open' = open \cup {g}
      BY <1>7 DEF Instantiate, AttachSeed, Initialize, RestoreCOW, RestoreCopy, InitPython,
                  RestoreRecording, At, Holding, kernelVars
    <2>2. \E b \in (Making \cup {"ready"}) \ {"allocate"} : gpc' = [gpc EXCEPT ![g] = b]
      BY <1>7 DEF Instantiate, AttachSeed, Initialize, RestoreCOW, RestoreCopy, InitPython,
                  RestoreRecording, Goto, Making
    <2> QED BY <1>6, <2>1, <2>2
  <1>8. CASE NewGuestFails(g)
    <2>1. /\ UNCHANGED <<runnerVars, fds>> /\ mapped' = mapped \ {g} /\ open' = open \ {g}
          /\ gpc' = [gpc EXCEPT ![g] = IF g = Prep THEN "failed" ELSE "returned"]
      BY <1>8 DEF NewGuestFails, CloseGuest, Goto
    <2>2. "failed" \notin Holding /\ "returned" \notin Holding
      BY DEF Holding
    <2> QED BY <1>1, <1>2, <1>3, <2>1, <2>2, PrepIsGuest, MoveControl
  <1> QED BY <1>5, <1>7, <1>8 DEF NewGuest

LEMMA RunControl ==
  ASSUME Control, NEW g \in Runs, Run(g)
  PROVE  Control'
  <1>1. g \in Guests /\ g # Prep
    BY PrepIsGuest
  <1>2. CASE RunBegins(g)
    <2>1. /\ UNCHANGED <<runnerVars, fds, mapped, open>> /\ phase = "ready" /\ gpc[g] = "idle"
          /\ \E b \in {"allocate", "returned"} : gpc' = [gpc EXCEPT ![g] = b]
      BY <1>2 DEF RunBegins, At, Goto, kernelVars
    <2>2. g \notin mapped /\ g \notin open
      BY <1>1, <2>1 DEF Control, Held
    <2>3. "allocate" \in Making /\ "allocate" \notin Holding /\ "returned" \notin Holding
      BY DEF Making, Holding
    <2> QED BY <1>1, <2>1, <2>2, <2>3, MoveControl
  <1>3. gpc[g] \notin {"idle", "returned"} => phase = "ready"
    BY DEF Control, Placed
  <1>4. gpc[g] \in Holding /\ options.cow => g \in mapped
    BY DEF Control, Held
  <1>5. CASE Execute(g) \/ ModuleCloses(g)
    <2>1. /\ UNCHANGED <<runnerVars, fds, mapped>> /\ gpc[g] \in {"ready", "executing"}
          /\ open' = open \/ open' = open \ {g}
          /\ \E b \in {"executing", "unwinding"} : gpc' = [gpc EXCEPT ![g] = b]
      BY <1>5 DEF Execute, ModuleCloses, At, Goto, kernelVars
    <2>2. gpc[g] \in Holding
      BY <2>1 DEF Holding
    <2> QED BY <1>1, <1>3, <1>4, <2>1, <2>2, MoveControl
  <1>6. CASE Store(g)
    <2>1. UNCHANGED <<runnerVars, fds, mapped, gpc, open>>
      BY <1>6 DEF Store
    <2> QED BY <2>1 DEF Control, Built, Handles, Placed, Held, runnerVars
  <1>7. CASE RunReturns(g)
    <2>1. /\ UNCHANGED <<runnerVars, fds>> /\ mapped' = mapped \ {g} /\ open' = open \ {g}
          /\ gpc' = [gpc EXCEPT ![g] = "returned"] /\ gpc[g] \in {"executing", "unwinding"}
      BY <1>7 DEF RunReturns, CloseGuest, Goto
    <2>2. "returned" \notin Holding
      BY DEF Holding
    <2> QED BY <1>1, <1>3, <2>1, <2>2, MoveControl
  <1> QED BY <1>2, <1>5, <1>6, <1>7 DEF Run

LEMMA ControlPart ==
  ASSUME Control, [Next]_vars
  PROVE  Control'
  <1>1. CASE UNCHANGED vars
    BY <1>1 DEF vars, runnerVars, kernelVars, guestVars, Control, Built, Handles, Placed, Held
  <1> QED BY <1>1, CompileControl, NewCOWControl, SeedControl, CaptureControl, EndControl,
             NewGuestControl, RunControl DEF Next

LEMMA ControlInitial == Init => Control
  <1> SUFFICES ASSUME Init PROVE Control
    OBVIOUS
  <1>1. Built
    BY DEF Init, Built, Before, Late, Gone, Options
  <1>2. Handles
    BY DEF Init, Handles
  <1>3. Placed
    BY PrepIsGuest DEF Init, Placed, Before, Late, Gone, Making
  <1>4. Held
    BY DEF Init, Held, Guests, Holding
  <1> QED BY <1>1, <1>2, <1>3, <1>4 DEF Control

\* Memory is held while Wasm frames may touch it, released when the call returned,
\* and nothing of a Runner survives its Close or a constructor that failed.
THEOREM PreparedMemoryHeldExactly == Spec => []MemoryHeldExactly
  <1>1. Control => MemoryHeldExactly
    <2> SUFFICES ASSUME Control PROVE MemoryHeldExactly
      OBVIOUS
    <2>1. options.cow => \A g \in Runs : gpc[g] \in {"ready", "executing", "unwinding"} => g \in mapped
      BY DEF Control, Held, Holding
    <2>2. \A g \in Guests : gpc[g] \in {"idle", "returned"} => g \notin mapped /\ g \notin open
      BY DEF Control, Held
    <2>3. ASSUME phase \in {"failed", "closed"}
          PROVE  fds = {} /\ mapped = {} /\ open = {} /\ ~tempDir /\ ~runtimeOpen
      <3>1. \A g \in Guests : gpc[g] \in {"idle", "returned"}
        BY <2>3, PrepIsGuest DEF Control, Placed, Gone, Guests
      <3>2. mapped = {} /\ open = {}
        BY <2>2, <3>1 DEF Control, Held
      <3>3. cow = None /\ cowSeed = None /\ fds = {}
        BY <2>3 DEF Control, Handles, Gone
      <3> QED BY <2>3, <3>2, <3>3 DEF Control, Handles, Gone, Late
    <2>4. phase = "ready" => fds = {cow, cowSeed} \ {None} /\ ~tempDir
      BY DEF Control, Handles, Late
    <2> QED BY <2>1, <2>2, <2>3, <2>4 DEF MemoryHeldExactly
  <1> QED BY <1>1, ControlInitial, ControlPart, PTL DEF Spec

-----------------------------------------------------------------------------
(* Memory. *)

\* Load as a function of the pages of a Guest and of the sealed images.
LoadOf(mem, images) ==
  [p \in DOMAIN mem |-> IF mem[p].img = None THEN mem[p].val ELSE images[mem[p].img][p]]

LEMMA LoadIsLoadOf == \A g : Load(g) = LoadOf(pages[g], content)
  BY DEF Load, LoadOf

\* Private pages are read as they were written.
LEMMA LoadPrivate ==
  ASSUME NEW mem, NEW images
  PROVE  LoadOf(Private(mem), images) = [p \in DOMAIN mem |-> mem[p]]
  BY DEF LoadOf, Private

\* Pages of a mapped image are read as it was sealed.
LEMMA LoadAttached ==
  ASSUME NEW img, img # None
  PROVE  LoadOf(Attached(img), content) = [p \in DOMAIN content[img] |-> content[img][p]]
  BY DEF LoadOf, Attached

LEMMA InitializedPages ==
  ASSUME NEW m, NEW mem
  PROVE  /\ Initialized(m, [p \in DOMAIN mem |-> mem[p]]) = Initialized(m, mem)
         /\ [p \in DOMAIN Initialized(m, mem) |-> Initialized(m, mem)[p]] = Initialized(m, mem)
  BY DEF Initialized

LEMMA ReadyPages ==
  ASSUME NEW m, NEW mem, NEW s, NEW w
  PROVE  [p \in DOMAIN PythonReady(m, mem, s, w) |-> PythonReady(m, mem, s, w)[p]]
            = PythonReady(m, mem, s, w)
  BY DEF PythonReady

\* The code of an admitted artifact names no segment that its shell has emptied.
LEMMA ShellInitializes ==
  ASSUME NEW m \in Modules, ValidCode(m), NEW mem
  PROVE  Initialized(Shell(m), mem) = Initialized(m, mem)
  <1>1. Shell(m).refs = m.refs
    BY DEF Shell
  <1>2. CASE m.refs = {}
    BY <1>1, <1>2 DEF Initialized
  <1>3. CASE m.refs # {}
    <2>1. PICK i : i = CHOOSE k \in m.refs : TRUE
      OBVIOUS
    <2>2. i \in m.refs
      BY <1>3, <2>1
    <2>3. i \in DOMAIN m.segments /\ ~m.segments[i].active
      BY <2>2, GuestAssumption DEF ValidCode, Active
    <2>4. Shell(m).segments[i] = m.segments[i]
      BY <2>3 DEF Shell
    <2>5. Shell(m).segments[CHOOSE k \in Shell(m).refs : TRUE].data
            = m.segments[CHOOSE k \in m.refs : TRUE].data
      BY <1>1, <2>1, <2>4
    <2> QED BY <1>1, <2>5 DEF Initialized
  <1> QED BY <1>2, <1>3

-----------------------------------------------------------------------------
(* What is captured, and the Guests: the constructor's steps. *)

\* A Guest that has not begun, or has no newGuest before it any more.
LEMMA MadeBeforeOrAfter ==
  ASSUME NEW g, \/ gpc[g] = "idle" /\ drawn[g] = 0
                \/ gpc[g] \in {"executing", "unwinding", "returned", "failed"}
  PROVE  Made(g)
  BY DEF Made, Making

\* Until the Runner is ready no run has begun.
LEMMA RunsIdle ==
  ASSUME Control, \A g \in Guests : Made(g), phase \notin {"ready", "closed"}, NEW g \in Runs
  PROVE  gpc[g] = "idle" /\ drawn[g] = 0
  BY PrepIsGuest DEF Control, Placed, Made

LEMMA FreshCapture ==
  ASSUME Control, Made(Prep), phase = "guest", gpc[Prep] = "ready"
  PROVE  Load(Prep) = Fresh(module, options.seed, options.workspace)
  <1>1. call[Prep] = [seed |-> options.seed, workspace |-> options.workspace]
    BY DEF Made, Suits
  <1>2. FreshFor(Prep)
    BY DEF Made
  <1>3. call[Prep].seed = options.seed /\ call[Prep].workspace = options.workspace
    BY <1>1
  <1> QED BY <1>2, <1>3 DEF FreshFor

Data == Captured /\ \A g \in Guests : Made(g)

\* While the Runner is made only Prep has a memory, and it is read once.
LEMMA BuildKeepsMade ==
  ASSUME Control, \A g \in Guests : Made(g), phase \notin {"ready", "closed"},
         UNCHANGED <<options, gpc, call, drawn>>,
         gpc[Prep] = "idle" \/ (gpc[Prep] = "ready" /\ phase' # "guest")
  PROVE  \A g \in Guests : Made(g)'
  <1> SUFFICES ASSUME NEW g \in Guests PROVE Made(g)'
    OBVIOUS
  <1>1. CASE g \in Runs
    <2>1. gpc'[g] = "idle" /\ drawn'[g] = 0
      BY <1>1, RunsIdle
    <2> QED BY <2>1, MadeBeforeOrAfter DEF Made, Making
  <1>2. CASE g = Prep /\ gpc[Prep] = "idle"
    <2>1. gpc'[g] = "idle" /\ drawn'[g] = 0
      BY <1>2 DEF Made
    <2> QED BY <2>1 DEF Made, Making
  <1>3. CASE g = Prep /\ gpc[Prep] = "ready" /\ phase' # "guest"
    <2>1. Made(g)
      OBVIOUS
    <2>2. Suits(g)'
      BY <1>3, <2>1 DEF Made, Suits
    <2> QED BY <1>3, <2>1, <2>2 DEF Made, Making
  <1> QED BY <1>1, <1>2, <1>3 DEF Guests

LEMMA BuildData ==
  ASSUME Control, Data, Compile \/ NewCOW \/ NewSeed \/ CaptureSegments
  PROVE  Data'
  <1>1. /\ phase \in {"compile", "cow", "seed", "reseal", "segments", "resegments"}
        /\ phase' \in {"ready", "cow", "shape", "seed", "segments", "resegments", "state"}
        /\ UNCHANGED <<options, module, image, preparedState, gpc, call, drawn>>
    BY DEF Compile, NewCOW, NewSeed, CaptureSegments, guestVars
  <1>2. gpc[Prep] = "idle" \/ gpc[Prep] = "ready"
    BY <1>1 DEF Control, Placed, Before, Late
  <1>3. \A g \in Guests : Made(g)'
    BY <1>1, <1>2, BuildKeepsMade DEF Data
  <1>4. preparedState = None /\ image = None
    BY <1>1 DEF Data, Captured, Gone
  <1>5. CASE Compile
    <2>1. /\ phase = "compile" /\ content' = content
          /\ phase' = IF ~options.prepared THEN "ready" ELSE IF options.cow THEN "cow" ELSE "shape"
      BY <1>5 DEF Compile, kernelVars
    <2>2. Captured'
      BY <1>1, <1>4, <2>1 DEF Control, Built, Data, Captured, Before, Late, Gone
    <2> QED BY <1>3, <2>2 DEF Data
  <1>6. CASE NewCOW
    <2>1. /\ phase = "cow" /\ content' = content
          /\ phase' = IF options.data THEN "seed" ELSE "shape"
      BY <1>6 DEF NewCOW
    <2>2. Captured'
      BY <1>1, <1>4, <2>1 DEF Control, Built, Data, Captured, Before, Late, Gone
    <2> QED BY <1>3, <2>2 DEF Data
  <1>7. CASE NewSeed
    <2>1. /\ content' = content /\ phase \in {"seed", "reseal"}
          /\ phase' = IF phase = "seed" THEN "segments" ELSE "resegments"
      BY <1>7 DEF NewSeed
    <2>2. Captured'
      BY <1>1, <1>4, <2>1 DEF Control, Built, Data, Captured, Before, Late, Gone
    <2> QED BY <1>3, <2>2 DEF Data
  <1>8. CASE CaptureSegments
    <2>1. /\ phase \in {"segments", "resegments"}
          /\ content' = [content EXCEPT ![cowSeed] = Instance(module)]
          /\ phase' = IF phase = "segments" THEN "shape" ELSE "state"
      BY <1>8 DEF CaptureSegments, Instance
    <2>2. cowSeed = (IF phase = "segments" THEN "seed" ELSE "reseed") /\ options.cow /\ options.data
      BY <2>1 DEF Control, Built, Handles, Gone
    <2>3. /\ content' \in [Images -> {None, Instance(module), Fresh(module, options.seed, options.workspace)}]
          /\ content'[cowSeed] = Instance(module) /\ content'["final"] = content["final"]
      BY <2>1, <2>2 DEF Data, Captured, Images
    <2>4. Captured'
      BY <1>1, <1>4, <2>1, <2>2, <2>3 DEF Control, Built, Data, Captured, Before, Late, Gone
    <2> QED BY <1>3, <2>4 DEF Data
  <1> QED BY <1>5, <1>6, <1>7, <1>8

\* prepare: the Guest is made, captured and closed.
LEMMA CaptureData ==
  ASSUME Control, Shaped, Data, PrepareShape \/ Capture \/ Retire \/ Prepared
  PROVE  Data'
  <1>0. /\ UNCHANGED <<options, module>>
        /\ phase \in {"shape", "guest", "retire", "state"}
        /\ options.prepared /\ (options.data => options.cow) /\ (options.cow => options.prepared)
        /\ preparedState = None
    <2>1. /\ UNCHANGED <<options, module>> /\ phase \in {"shape", "guest", "retire", "state"}
      BY DEF PrepareShape, Capture, Retire, Prepared
    <2> QED BY <2>1 DEF Control, Built, Data, Captured, Before, Late, Gone
  <1>1. CASE PrepareShape
    <2>1. /\ phase = "shape" /\ phase' = "guest"
          /\ call' = [call EXCEPT ![Prep] = [seed |-> options.seed, workspace |-> options.workspace]]
          /\ gpc' = [gpc EXCEPT ![Prep] = "allocate"]
          /\ UNCHANGED <<content, image, preparedState, drawn>>
      BY <1>1 DEF PrepareShape, kernelVars
    <2>2. Captured'
      BY <1>0, <2>1 DEF Data, Captured, Before, Late, Gone
    <2>3. ASSUME NEW g \in Runs PROVE Made(g)'
      <3>1. gpc'[g] = "idle" /\ drawn'[g] = 0
        BY <2>1, RunsIdle, PrepIsGuest DEF Data, Control, Placed
      <3> QED BY <3>1 DEF Made, Making
    <2>4. Made(Prep)'
      <3>1. gpc'[Prep] = "allocate" /\ drawn'[Prep] = 0
        BY <2>1, PrepIsGuest DEF Data, Control, Placed, Made, Before
      <3>2. DOMAIN call = Guests
        BY DEF Shaped
      <3>3. call'[Prep] = [seed |-> options.seed, workspace |-> options.workspace]
        BY <2>1, <3>2, PrepIsGuest
      <3>4. Suits(Prep)'
        BY <1>0, <3>3 DEF Suits, Control, Built, Options
      <3> QED BY <3>1, <3>4 DEF Made, Making
    <2> QED BY <2>2, <2>3, <2>4 DEF Data, Guests
  <1>2. CASE Capture
    <2>1. /\ phase = "guest" /\ gpc[Prep] = "ready"
          /\ phase' = (IF cowSeed # None THEN "retire" ELSE "state")
          /\ UNCHANGED <<preparedState, gpc, call, drawn>>
      BY <1>2 DEF Capture, guestVars
    <2>2. PICK made : /\ made = Load(Prep)
                      /\ made = Fresh(module, options.seed, options.workspace)
      BY <2>1, FreshCapture, PrepIsGuest DEF Data
    <2>3. /\ cow = (IF options.cow THEN "final" ELSE None)
          /\ cowSeed = (IF options.data THEN "seed" ELSE None)
          /\ image = None /\ content["final"] = None
      BY <2>1 DEF Control, Handles, Data, Captured, Before, Gone
    <2>4. IF options.cow THEN content' = [content EXCEPT !["final"] = made] /\ image' = image
                         ELSE content' = content /\ image' = made
      BY <1>2, <2>2, <2>3, NoneIsNoImage DEF Capture
    <2>5. /\ content' \in [Images -> {None, Instance(module), made}]
          /\ content'["seed"] = content["seed"] /\ content'["reseed"] = content["reseed"]
          /\ options.cow => content'["final"] = made
      BY <2>2, <2>4 DEF Data, Captured, Images
    <2>6. Captured'
      BY <1>0, <2>1, <2>2, <2>3, <2>4, <2>5, NoneIsNoImage DEF Data, Captured, Before, Late, Gone
    <2>7. \A g \in Guests : Made(g)'
      BY <1>0, <2>1, BuildKeepsMade DEF Data
    <2> QED BY <2>6, <2>7 DEF Data
  <1>3. CASE Retire
    <2>1. /\ phase = "retire" /\ phase' = "reseal"
          /\ UNCHANGED <<content, image, preparedState, gpc, call, drawn>>
      BY <1>3 DEF Retire
    <2>2. gpc[Prep] = "ready"
      BY <2>1 DEF Control, Placed, Late
    <2>3. Captured'
      BY <1>0, <2>1 DEF Data, Captured, Before, Late, Gone
    <2>4. \A g \in Guests : Made(g)'
      BY <1>0, <2>1, <2>2, BuildKeepsMade DEF Data
    <2> QED BY <2>3, <2>4 DEF Data
  <1>4. CASE Prepared
    <2>1. /\ phase = "state" /\ phase' = "ready"
          /\ preparedState' = (IF options.seed # None
                               THEN [seed |-> options.seed, drawn |-> drawn[Prep]] ELSE None)
          /\ gpc' = [gpc EXCEPT ![Prep] = "returned"]
          /\ UNCHANGED <<content, image, call, drawn>>
      BY <1>4 DEF Prepared
    <2>2. gpc[Prep] = "ready" /\ gpc'[Prep] = "returned" /\ \A g \in Runs : gpc'[g] = gpc[g]
      BY <2>1, PrepIsGuest DEF Control, Placed, Late
    <2>3. options.seed # None => drawn[Prep] = 2
      <3>1. Made(Prep)
        BY PrepIsGuest DEF Data
      <3>2. call[Prep] = [seed |-> options.seed, workspace |-> options.workspace]
        BY <2>2, <3>1 DEF Made, Suits
      <3>3. call[Prep].seed = options.seed
        BY <3>2
      <3> QED BY <2>2, <3>1, <3>3 DEF Made
    <2>4. Captured'
      BY <1>0, <2>1, <2>3 DEF Data, Captured, Before, Late, Gone
    <2>5. ASSUME NEW g \in Runs PROVE Made(g)'
      <3>1. gpc'[g] = "idle" /\ drawn'[g] = 0
        BY <2>1, <2>2, RunsIdle DEF Data
      <3> QED BY <3>1 DEF Made, Making
    <2>6. Made(Prep)'
      BY <2>2 DEF Made, Making
    <2> QED BY <2>4, <2>5, <2>6 DEF Data, Guests
  <1> QED BY <1>1, <1>2, <1>3, <1>4

LEMMA EndData ==
  ASSUME Control, Data, PrepareFails \/ Close
  PROVE  Data'
  <1>1. CASE PrepareFails
    <2>1. /\ phase \notin {"ready", "closed"} /\ phase' = "failed" /\ image' = None
          /\ gpc' = [gpc EXCEPT ![Prep] = "returned"]
          /\ UNCHANGED <<options, module, preparedState, content, call, drawn>>
      BY <1>1 DEF PrepareFails, Discard
    <2>2. gpc'[Prep] = "returned" /\ \A g \in Runs : gpc'[g] = gpc[g]
      BY <2>1, PrepIsGuest DEF Control, Placed
    <2>3. Captured'
      BY <2>1 DEF Data, Captured, Before, Late, Gone
    <2>4. ASSUME NEW g \in Runs PROVE Made(g)'
      <3>1. gpc'[g] = "idle" /\ drawn'[g] = 0
        BY <2>1, <2>2, RunsIdle DEF Data
      <3> QED BY <3>1 DEF Made, Making
    <2>5. Made(Prep)'
      BY <2>2 DEF Made, Making
    <2> QED BY <2>3, <2>4, <2>5 DEF Data, Guests
  <1>2. CASE Close
    <2>1. /\ phase = "ready" /\ phase' = "closed" /\ image' = None
          /\ \A g \in Runs : gpc[g] \in {"idle", "returned"}
          /\ UNCHANGED <<options, module, preparedState, content, gpc, call, drawn>>
      BY <1>2 DEF Close, guestVars
    <2>2. gpc[Prep] \in {"idle", "returned"}
      BY <2>1 DEF Control, Placed
    <2>3. Captured'
      BY <2>1 DEF Data, Captured, Before, Late, Gone
    <2>4. ASSUME NEW g \in Guests PROVE Made(g)'
      <3>1. Made(g) /\ gpc'[g] = gpc[g] /\ drawn'[g] = drawn[g] /\ gpc[g] \in {"idle", "returned"}
        BY <2>1, <2>2 DEF Data, Guests
      <3> QED BY <3>1 DEF Made, Making
    <2> QED BY <2>3, <2>4 DEF Data
  <1> QED BY <1>1, <1>2

-----------------------------------------------------------------------------
(* The steps of a Guest. *)

LEMMA ShapedPart == ASSUME Shaped, [Next]_vars PROVE Shaped'
  <1>2. CASE Compile \/ NewCOW \/ NewSeed \/ PrepareShape \/ Capture \/ Retire \/ CaptureSegments
             \/ Prepared \/ PrepareFails \/ Close \/ UNCHANGED vars
    BY <1>2 DEF Shaped, Compile, NewCOW, NewSeed, PrepareShape, Capture, Retire, CaptureSegments,
                Prepared, PrepareFails, Discard, Close, CloseGuest, guestVars, vars
  <1>3. ASSUME NEW g \in Guests, NewGuest(g) PROVE Shaped'
    BY <1>3 DEF Shaped, NewGuest, Allocate, Instantiate, AttachSeed, Initialize, RestoreCOW, RestoreCopy,
                InitPython, RestoreRecording, NewGuestFails, CloseGuest
  <1>4. ASSUME NEW g \in Runs, Run(g) PROVE Shaped'
    <2>1. CASE Store(g)
      BY <2>1 DEF Shaped, Store, StorePage
    <2> QED BY <1>4, <2>1 DEF Shaped, Run, RunBegins, Execute, ModuleCloses, RunReturns, CloseGuest
  <1> QED BY <1>2, <1>3, <1>4 DEF Next

\* A Guest that another one's step does not touch.
LEMMA MadeFrame ==
  ASSUME NEW h, Made(h), UNCHANGED <<runnerVars, content>>,
         gpc'[h] = gpc[h], call'[h] = call[h], pages'[h] = pages[h], drawn'[h] = drawn[h]
  PROVE  Made(h)'
  <1>1. UNCHANGED <<options, module, phase, image, cow, cowSeed, preparedState, content>>
    BY DEF runnerVars
  <1>2. Load(h)' = Load(h)
    BY <1>1 DEF Load
  <1>3. FreshFor(h)' <=> FreshFor(h)
    BY <1>1, <1>2 DEF FreshFor
  <1>4. Suits(h)' <=> Suits(h)
    BY <1>1 DEF Suits, RunAccepted, Prepares
  <1> QED BY <1>1, <1>2, <1>3, <1>4 DEF Made

\* A step of Guest g leaves what was captured and the other Guests.
LEMMA GuestStepData ==
  ASSUME Data, Control, NEW g \in Guests, UNCHANGED <<runnerVars, content>>, Made(g)',
         \A h \in Guests \ {g} : /\ gpc'[h] = gpc[h] /\ call'[h] = call[h]
                                 /\ pages'[h] = pages[h] /\ drawn'[h] = drawn[h]
  PROVE  Data'
  <1>1. UNCHANGED <<options, module, phase, image, preparedState, content>>
    BY DEF runnerVars
  <1>2. Captured'
    BY <1>1 DEF Data, Captured
  <1>3. \A h \in Guests \ {g} : Made(h)'
    BY MadeFrame DEF Data
  <1> QED BY <1>2, <1>3 DEF Data

\* The steps of newGuest up to _initialize.
LEMMA BeginsFresh ==
  ASSUME Control, Shaped, Data, NEW g \in Guests, Allocate(g) \/ Instantiate(g) \/ AttachSeed(g)
  PROVE  Data'
  <1>1. gpc[g] \in Making /\ gpc[g] \in {"allocate", "instantiate", "attach"}
    BY DEF Allocate, Instantiate, AttachSeed, At, Making
  <1>2. /\ phase = (IF g = Prep THEN "guest" ELSE "ready")
        /\ cowSeed = (IF ~options.data THEN None ELSE IF g = Prep THEN "seed" ELSE "reseed")
        /\ options \in Options
    BY <1>1, MakingPhase
  <1>3. Made(g) /\ Suits(g) /\ drawn[g] = 0
    BY <1>1 DEF Data, Made
  <1>4. /\ UNCHANGED <<runnerVars, content, call, drawn>>
        /\ \A h \in Guests \ {g} : gpc'[h] = gpc[h] /\ pages'[h] = pages[h]
    BY DEF Allocate, Instantiate, AttachSeed, Goto, kernelVars, Shaped, Control, Placed
  <1>5. Suits(g)'
    <2>1. UNCHANGED <<options, image, cow, preparedState, call>>
      BY <1>4 DEF runnerVars
    <2> QED BY <1>3, <2>1 DEF Suits, RunAccepted, Prepares
  <1>6. CASE Allocate(g)
    <2>1. gpc'[g] = "instantiate"
      BY <1>6 DEF Allocate, Goto, Control, Placed
    <2>2. Made(g)'
      BY <1>3, <1>4, <1>5, <2>1 DEF Made, Making
    <2> QED BY <1>4, <2>2, GuestStepData
  <1>7. CASE Instantiate(g)
    <2>1. /\ gpc'[g] = (IF cowSeed # None THEN "attach" ELSE "initialize")
          /\ pages'[g] = Private(Instance(Code))
      BY <1>7 DEF Instantiate, Goto, Control, Placed, Shaped
    <2>2. CASE cowSeed # None
      <3>1. gpc'[g] = "attach" /\ cowSeed' # None
        BY <1>4, <2>1, <2>2 DEF runnerVars
      <3>2. Made(g)'
        BY <1>3, <1>4, <1>5, <3>1 DEF Made, Making
      <3> QED BY <1>4, <3>2, GuestStepData
    <2>3. CASE cowSeed = None
      <3>1. Code = module /\ module' = module
        BY <1>2, <1>4, <2>3, NoneIsNoImage DEF Code, runnerVars
      <3>2. PICK mem : mem = Instance(module)
        OBVIOUS
      <3>3. Load(g)' = LoadOf(Private(mem), content)
        BY <1>4, <2>1, <3>1, <3>2 DEF Load, LoadOf
      <3>4. Initialized(module, Load(g)') = Initialized(module, mem)
        BY <3>3, LoadPrivate, InitializedPages
      <3>5. gpc'[g] = "initialize"
        BY <2>1, <2>3
      <3>6. Made(g)'
        BY <1>3, <1>4, <1>5, <3>1, <3>2, <3>4, <3>5 DEF Made, Making
      <3> QED BY <1>4, <3>6, GuestStepData
    <2> QED BY <2>2, <2>3
  <1>8. CASE AttachSeed(g)
    <2>1. gpc'[g] = "initialize" /\ pages'[g] = Attached(cowSeed) /\ gpc[g] = "attach"
      BY <1>8 DEF AttachSeed, Goto, At, Control, Placed, Shaped
    <2>2. cowSeed # None
      BY <1>3, <2>1 DEF Made
    <2>3. content[cowSeed] = Instance(module)
      BY <1>2, <2>2 DEF Data, Captured
    <2>4. Load(g)' = LoadOf(Attached(cowSeed), content)
      BY <1>4, <2>1 DEF Load, LoadOf
    <2>5. Initialized(module, Load(g)') = Initialized(module, Instance(module))
      BY <2>2, <2>3, <2>4, LoadAttached, InitializedPages
    <2>6. module' = module
      BY <1>4 DEF runnerVars
    <2>7. Made(g)'
      BY <1>3, <1>4, <1>5, <2>1, <2>5, <2>6 DEF Made, Making
    <2> QED BY <1>4, <2>7, GuestStepData
  <1> QED BY <1>6, <1>7, <1>8

\* _initialize of the code, or of its shell over the attached segments.
LEMMA InitializesFresh ==
  ASSUME Control, Shaped, Data, NEW g \in Guests, Initialize(g)
  PROVE  Data'
  <1>1. gpc[g] = "initialize" /\ gpc[g] \in Making
    BY DEF Initialize, At, Making
  <1>2. /\ module \in Modules /\ (options.data => ValidCode(module))
    BY <1>1, MakingPhase
  <1>3. /\ Suits(g) /\ drawn[g] = 0
        /\ Initialized(module, Load(g)) = Initialized(module, Instance(module))
    BY <1>1 DEF Data, Made
  <1>4. /\ UNCHANGED <<runnerVars, content, call>>
        /\ \A h \in Guests \ {g} : gpc'[h] = gpc[h] /\ pages'[h] = pages[h] /\ drawn'[h] = drawn[h]
        /\ gpc'[g] = "restore" /\ drawn'[g] = 1
        /\ pages'[g] = Private(Initialized(Code, Load(g)))
    BY <1>3 DEF Initialize, Goto, kernelVars, Shaped, Control, Placed
  <1>5. UNCHANGED <<options, module, image, cow, preparedState, call>>
    BY <1>4 DEF runnerVars
  <1>6. Suits(g)'
    BY <1>3, <1>5 DEF Suits, RunAccepted, Prepares
  <1>7. Initialized(Code, Load(g)) = Initialized(module, Load(g))
    BY <1>2, ShellInitializes DEF Code
  <1>8. PICK mem : mem = Initialized(module, Load(g))
    OBVIOUS
  <1>9. Load(g)' = LoadOf(Private(mem), content)
    BY <1>4, <1>7, <1>8 DEF Load, LoadOf
  <1>10. Load(g)' = mem
    BY <1>8, <1>9, LoadPrivate, InitializedPages
  <1>11. Made(g)'
    BY <1>3, <1>4, <1>5, <1>6, <1>8, <1>10 DEF Made, Making
  <1> QED BY <1>4, <1>11, GuestStepData

\* What was captured suits every call that the Runner accepts.
LEMMA CapturedSuits ==
  ASSUME Control, Data, NEW g \in Runs, Suits(g), Prepares, phase = "ready"
  PROVE  /\ options.seed \in {call[g].seed} \cup (IF call[g].seed = None THEN {options.seed} ELSE {})
         /\ call[g].workspace = options.workspace
         /\ call[g].seed = None \/ preparedState # None
  <1>1. g # Prep /\ RunAccepted(call[g]) /\ (call[g].workspace => call[g].seed = None)
        /\ call[g].workspace \in BOOLEAN /\ options.workspace \in BOOLEAN
    BY PrepIsGuest DEF Suits, Control, Built, Options
  <1>2. CASE call[g].seed = None
    BY <1>1, <1>2 DEF RunAccepted
  <1>3. CASE call[g].seed # None
    <2>1. preparedState # None /\ preparedState.seed = call[g].seed
      BY <1>1, <1>3 DEF RunAccepted
    <2>2. preparedState = [seed |-> options.seed, drawn |-> 2] /\ options.seed # None
      BY <2>1 DEF Data, Captured
    <2>3. call[g].seed = options.seed
      BY <2>1, <2>2
    <2>4. ~options.workspace /\ ~call[g].workspace
      BY <1>1, <1>3, <2>2 DEF Control, Built
    <2> QED BY <1>1, <2>1, <2>3, <2>4
  <1> QED BY <1>2, <1>3

\* The image or the final memfd is put in place, or CPython is initialised.
LEMMA RestoresFresh ==
  ASSUME Control, Shaped, Data, NEW g \in Guests, RestoreCOW(g) \/ RestoreCopy(g) \/ InitPython(g)
  PROVE  Data'
  <1>1. gpc[g] = "restore" /\ gpc[g] \in Making
    BY DEF RestoreCOW, RestoreCopy, InitPython, At, Making
  <1>2. /\ phase = (IF g = Prep THEN "guest" ELSE "ready") /\ g \in Guests
        /\ cow = (IF options.cow THEN "final" ELSE None)
    BY <1>1, MakingPhase
  <1>3. Suits(g) /\ drawn[g] = 1 /\ Load(g) = Initialized(module, Instance(module))
    BY <1>1 DEF Data, Made
  <1>4. /\ UNCHANGED <<runnerVars, content, call>>
        /\ \A h \in Guests \ {g} : gpc'[h] = gpc[h] /\ pages'[h] = pages[h] /\ drawn'[h] = drawn[h]
        /\ gpc'[g] = "recording"
    BY DEF RestoreCOW, RestoreCopy, InitPython, Goto, kernelVars, Shaped, Control, Placed
  <1>5. UNCHANGED <<options, module, image, cow, preparedState, call>>
    BY <1>4 DEF runnerVars
  <1>6. Suits(g)'
    BY <1>3, <1>5 DEF Suits, RunAccepted, Prepares
  <1>7. ASSUME NEW s \in {call[g].seed} \cup (IF call[g].seed = None THEN {options.seed} ELSE {}),
               Load(g)' = Fresh(module, s, call[g].workspace),
               call[g].seed = None \/ drawn'[g] = 2 \/ preparedState # None
        PROVE  Data'
    <2>1. FreshFor(g)'
      BY <1>5, <1>7 DEF FreshFor
    <2>2. Made(g)'
      BY <1>4, <1>5, <1>6, <1>7, <2>1 DEF Made, Making
    <2> QED BY <1>4, <2>2, GuestStepData
  <1>8. PICK made : made = Fresh(module, options.seed, options.workspace)
    OBVIOUS
  <1>9. ASSUME NEW mem, mem = made, Prepares, g \in Runs,
               Load(g)' = [p \in DOMAIN mem |-> mem[p]]
        PROVE  Data'
    <2>1. Load(g)' = made
      BY <1>8, <1>9, ReadyPages DEF Fresh
    <2>2. /\ options.seed \in {call[g].seed} \cup (IF call[g].seed = None THEN {options.seed} ELSE {})
          /\ call[g].workspace = options.workspace
          /\ call[g].seed = None \/ preparedState # None
      BY <1>2, <1>3, <1>9, PrepIsGuest, CapturedSuits
    <2> QED BY <1>7, <1>8, <2>1, <2>2
  <1>10. CASE RestoreCOW(g)
    <2>1. cow # None /\ content[cow] # None /\ pages'[g] = Attached(cow)
      BY <1>10 DEF RestoreCOW, CowReady, Shaped
    <2>2. cow = "final" /\ options.cow /\ g # Prep
      BY <1>2, <2>1 DEF Data, Captured, Before
    <2>3. content[cow] = made /\ Prepares /\ g \in Runs
      BY <1>2, <1>8, <2>1, <2>2 DEF Data, Captured, Prepares, Guests
    <2>4. Load(g)' = LoadOf(Attached(cow), content)
      BY <1>4, <2>1 DEF Load, LoadOf
    <2>5. PICK mem : mem = content[cow]
      OBVIOUS
    <2>6. Load(g)' = [p \in DOMAIN mem |-> mem[p]]
      BY <2>1, <2>4, <2>5, LoadAttached
    <2> QED BY <1>9, <2>3, <2>5, <2>6
  <1>11. CASE RestoreCopy(g)
    <2>1. image # None /\ pages'[g] = Private(image)
      BY <1>11 DEF RestoreCopy, Shaped
    <2>2. image = made /\ g \in Runs /\ Prepares
      BY <1>2, <1>8, <2>1 DEF Data, Captured, Prepares, Guests
    <2>3. PICK mem : mem = image
      OBVIOUS
    <2>4. Load(g)' = LoadOf(Private(mem), content)
      BY <1>4, <2>1, <2>3 DEF Load, LoadOf
    <2>5. Load(g)' = [p \in DOMAIN mem |-> mem[p]]
      BY <2>4, LoadPrivate
    <2> QED BY <1>9, <2>2, <2>3, <2>5
  <1>12. CASE InitPython(g)
    <2>1. PICK s, w : s = call[g].seed /\ w = call[g].workspace
      OBVIOUS
    <2>2. PICK mem : mem = PythonReady(module, Load(g), s, w)
      OBVIOUS
    <2>3. pages'[g] = Private(mem) /\ drawn'[g] = 2
      BY <1>3, <1>12, <2>1, <2>2 DEF InitPython, Shaped
    <2>4. Load(g)' = LoadOf(Private(mem), content)
      BY <1>4, <2>3 DEF Load, LoadOf
    <2>5. Load(g)' = mem
      BY <2>2, <2>4, LoadPrivate, ReadyPages
    <2>6. Load(g)' = Fresh(module, s, w)
      BY <1>3, <2>2, <2>5 DEF Fresh
    <2> QED BY <1>7, <2>1, <2>3, <2>6
  <1> QED BY <1>10, <1>11, <1>12

\* restoreRecording, or the failure of newGuest.
LEMMA RecordingFresh ==
  ASSUME Control, Shaped, Data, NEW g \in Guests, RestoreRecording(g) \/ NewGuestFails(g)
  PROVE  Data'
  <1>1. CASE RestoreRecording(g)
    <2>1. gpc[g] = "recording" /\ gpc[g] \in Making
      BY <1>1 DEF RestoreRecording, At, Making
    <2>2. /\ Suits(g) /\ FreshFor(g)
          /\ call[g].seed = None \/ drawn[g] = 2 \/ preparedState # None
      BY <2>1 DEF Data, Made
    <2>3. /\ UNCHANGED <<runnerVars, content, call, pages>>
          /\ \A h \in Guests \ {g} : gpc'[h] = gpc[h] /\ drawn'[h] = drawn[h]
          /\ gpc'[g] = "ready"
          /\ drawn'[g] = IF call[g].seed # None /\ preparedState # None THEN preparedState.drawn ELSE drawn[g]
      BY <1>1 DEF RestoreRecording, Goto, kernelVars, Shaped, Control, Placed
    <2>4. UNCHANGED <<options, module, image, cow, preparedState, call>>
      BY <2>3 DEF runnerVars
    <2>5. Suits(g)'
      BY <2>2, <2>4 DEF Suits, RunAccepted, Prepares
    <2>6. Load(g)' = Load(g)
      BY <2>3 DEF Load
    <2>7. FreshFor(g)'
      BY <2>2, <2>4, <2>6 DEF FreshFor
    <2>8. preparedState # None => preparedState.drawn = 2
      <3>1. preparedState # None => preparedState = [seed |-> options.seed, drawn |-> 2]
        BY DEF Data, Captured
      <3> QED BY <3>1
    <2>9. call[g].seed # None => drawn'[g] = 2
      BY <2>2, <2>3, <2>8
    <2>10. Made(g)'
      BY <2>3, <2>4, <2>5, <2>7, <2>9 DEF Made, Making
    <2> QED BY <2>3, <2>10, GuestStepData
  <1>2. CASE NewGuestFails(g)
    <2>1. /\ UNCHANGED <<runnerVars, content, call, drawn>>
          /\ \A h \in Guests \ {g} : gpc'[h] = gpc[h] /\ pages'[h] = pages[h]
          /\ gpc'[g] \in {"failed", "returned"}
      BY <1>2 DEF NewGuestFails, CloseGuest, Goto, Shaped, Control, Placed
    <2>2. Made(g)'
      BY <2>1 DEF Made, Making
    <2> QED BY <2>1, <2>2, GuestStepData
  <1> QED BY <1>1, <1>2

\* Run: a write of one Guest reaches no image and no other Guest.
LEMMA RunData ==
  ASSUME Control, Shaped, Data, NEW g \in Runs, Run(g)
  PROVE  Data'
  <1>1. g \in Guests /\ g # Prep
    BY PrepIsGuest
  <1>2. CASE RunBegins(g)
    <2>1. PICK c \in [seed : Seeds \cup {None}, workspace : BOOLEAN] :
              /\ c.workspace => c.seed = None
              /\ call' = [call EXCEPT ![g] = c]
              /\ gpc' = [gpc EXCEPT ![g] = IF RunAccepted(c) THEN "allocate" ELSE "returned"]
      BY <1>2 DEF RunBegins, Goto
    <2>2. /\ UNCHANGED <<runnerVars, content, pages, drawn>> /\ gpc[g] = "idle"
          /\ \A h \in Guests \ {g} : gpc'[h] = gpc[h] /\ call'[h] = call[h]
          /\ call'[g] = c /\ gpc'[g] = (IF RunAccepted(c) THEN "allocate" ELSE "returned")
      BY <1>1, <1>2, <2>1 DEF RunBegins, At, kernelVars, Shaped, Control, Placed
    <2>3. drawn'[g] = 0
      BY <1>1, <2>2 DEF Data, Made
    <2>4. CASE RunAccepted(c)
      <3>1. UNCHANGED <<options, image, cow, preparedState>>
        BY <2>2 DEF runnerVars
      <3>2. Suits(g)'
        BY <1>1, <2>1, <2>2, <2>4, <3>1 DEF Suits, RunAccepted, Prepares
      <3>3. Made(g)'
        BY <2>2, <2>3, <2>4, <3>2 DEF Made, Making
      <3> QED BY <1>1, <2>2, <3>3, GuestStepData
    <2>5. CASE ~RunAccepted(c)
      <3>1. Made(g)'
        BY <2>2, <2>5 DEF Made, Making
      <3> QED BY <1>1, <2>2, <3>1, GuestStepData
    <2> QED BY <2>4, <2>5
  <1>3. CASE Execute(g) \/ ModuleCloses(g) \/ RunReturns(g)
    <2>1. /\ UNCHANGED <<runnerVars, content, call, drawn>>
          /\ \A h \in Guests \ {g} : gpc'[h] = gpc[h] /\ pages'[h] = pages[h]
          /\ gpc'[g] \in {"executing", "unwinding", "returned"}
      BY <1>1, <1>3 DEF Execute, ModuleCloses, RunReturns, CloseGuest, Goto, kernelVars, Shaped,
                        Control, Placed
    <2>2. Made(g)'
      BY <2>1 DEF Made, Making
    <2> QED BY <1>1, <2>1, <2>2, GuestStepData
  <1>4. CASE Store(g)
    <2>1. /\ UNCHANGED <<runnerVars, content, gpc, call, drawn>> /\ gpc[g] = "executing"
          /\ \A h \in Guests \ {g} : pages'[h] = pages[h]
      BY <1>1, <1>4 DEF Store, StorePage, At, Shaped
    <2>2. Made(g)'
      BY <2>1 DEF Made, Making
    <2> QED BY <1>1, <2>1, <2>2, GuestStepData
  <1> QED BY <1>2, <1>3, <1>4 DEF Run

LEMMA DataPart ==
  ASSUME Control, Shaped, Data, [Next]_vars
  PROVE  Data'
  <1>1. CASE UNCHANGED vars
    <2>1. UNCHANGED <<runnerVars, content, gpc, call, pages, drawn>>
      BY <1>1 DEF vars, kernelVars, guestVars
    <2>2. Made(Prep)'
      BY <2>1, PrepIsGuest, MadeFrame DEF Data
    <2> QED BY <2>1, <2>2, PrepIsGuest, GuestStepData
  <1>2. ASSUME NEW g \in Guests, NewGuest(g) PROVE Data'
    BY <1>2, BeginsFresh, InitializesFresh, RestoresFresh, RecordingFresh DEF NewGuest
  <1> QED BY <1>1, <1>2, BuildData, CaptureData, EndData, RunData DEF Next

LEMMA DataInitial == Init => Shaped /\ Data
  <1> SUFFICES ASSUME Init PROVE Shaped /\ Data
    OBVIOUS
  <1>1. Shaped
    BY DEF Init, Shaped
  <1>2. Captured
    BY DEF Init, Captured, Before, Late, Images
  <1>3. \A g \in Guests : Made(g)
    BY DEF Init, Made, Making
  <1> QED BY <1>1, <1>2, <1>3 DEF Data

\* Whatever constructor made the Runner, a Guest starts in the memory, and with the
\* random stream, of one that was initialised from nothing for the same call.
THEOREM PreparedGuestIsFresh == Spec => []GuestIsFresh
  <1>1. Control /\ Data => GuestIsFresh
    <2> SUFFICES ASSUME Control, Data, NEW g \in Runs, gpc[g] = "ready"
                 PROVE  FreshFor(g) /\ (call[g].seed # None => drawn[g] = 2)
      BY DEF GuestIsFresh, FreshFor
    <2>1. Made(g) /\ g # Prep
      BY PrepIsGuest DEF Data
    <2> QED BY <2>1 DEF Made
  <1> QED BY <1>1, ControlInitial, ControlPart, ShapedPart, DataInitial, DataPart, PTL DEF Spec

-----------------------------------------------------------------------------
(* Early reads: the inductive invariant. *)

\* What a worker has done shows in its future: a handle that was not given out
\* has none, one that was has the request of an early read, and the response is
\* there from the moment it is stored.
Futures ==
    \A i \in Handle :
        /\ i > next => worker[i] = "none"
        /\ i <= next => worker[i] # "none" /\ request[i] \in Early
        /\ worker[i] \in {"stored", "published", "finished"} => response[i] \in {"value", "error"}

\* Where the Guest's thread waits: for a tool of the manifest, or for a handle
\* that was made for just what it asks and that nobody else can resolve.
Waiting ==
    /\ host = "call" => asked \in Known
    /\ host = "select" => waits \in 1 .. next /\ request[waits] = asked /\ waits \notin pending
    /\ host # "guest" => run = "guest"

\* close has cancelled the Run's context before it waits.
Closing == run \in {"wait", "returned"} => ctx = "done"

FInv == TypeOK /\ Futures /\ Waiting /\ Closing /\ AnswersMatch /\ NoOrphanWorker

-----------------------------------------------------------------------------
\* prepare keeps to the limit of pending reads, and a handle that leaves the
\* map keeps them finite.
LEMMA Pending ==
    ASSUME TypeOK
    PROVE  /\ IsFiniteSet(pending)
           /\ Cardinality(pending) \in Nat
           /\ \A i : Cardinality(pending \cup {i}) \in Nat
           /\ \A i : Cardinality(pending \cup {i}) <= Cardinality(pending) + 1
           /\ \A i : Cardinality(pending \ {i}) <= Cardinality(pending)
<1>1. next \in Nat
  BY FutureAssumption DEF TypeOK
<1>2. IsFiniteSet(1 .. next)
  BY <1>1, FS_Interval
<1>3. IsFiniteSet(pending)
  BY <1>2, FS_Subset DEF TypeOK
<1>4. Cardinality(pending) \in Nat
  BY <1>3, FS_CardinalityType
<1>5. \A i : Cardinality(pending \cup {i}) <= Cardinality(pending) + 1
  BY <1>3, <1>4, FS_AddElement
<1>6. \A i : Cardinality(pending \cup {i}) \in Nat
  BY <1>3, <1>4, FS_AddElement
<1>7. \A i : Cardinality(pending \ {i}) <= Cardinality(pending)
  BY <1>3, <1>4, FS_RemoveElement
<1> QED
  BY <1>3, <1>4, <1>5, <1>6, <1>7

\* An error of the bridge ends the wait and carries nobody's answer.
LEMMA Refusals ==
    ASSUME NEW k \in Kind \ {"value", "error"}, Refuse(k)
    PROVE  /\ host' = "guest" /\ asked' = NoRequest /\ waits' = 0
           /\ answer' \in Answer
           /\ answer'.kind \notin {"value", "error"}
  BY DEF Refuse, Respond, Bare, Answer, Kind

\* The tool's own answer does, unless there was no room for it.
LEMMA Replies ==
    ASSUME NEW k \in {"value", "error"}, NEW q \in Request, NEW of \in Request,
           Reply(k, q, of)
    PROVE  /\ host' = "guest" /\ asked' = NoRequest /\ waits' = 0
           /\ answer' \in Answer
           /\ answer'.kind \in {"value", "error"} => answer'.asked = q /\ answer'.of = of
  BY DEF Reply, Respond, Bare, Answer, Kind

\* invoke keeps to the budget, and lets only a tool of the manifest run.
LEMMA Invokes ==
    ASSUME TypeOK, NEW q \in Request, Invoke(q)
    PROVE  /\ calls' \in calls .. MaxToolCalls
           /\ waits' = 0
           /\ \/ host' = "guest" /\ asked' = NoRequest
              \/ host' = "call" /\ asked' = q /\ q \in Known
           /\ answer' \in Answer
           /\ answer' = answer \/ answer'.kind \notin {"value", "error"}
<1>0. calls \in Nat /\ calls <= MaxToolCalls /\ MaxToolCalls \in Nat /\ answer \in Answer
  BY FutureAssumption DEF TypeOK
<1>1. CASE calls >= MaxToolCalls /\ Refuse("budget") /\ UNCHANGED calls
  BY <1>0, <1>1, Refusals DEF Kind
<1>2. CASE calls < MaxToolCalls /\ calls' = calls + 1 /\ Refuse("unknownTool")
  BY <1>0, <1>2, Refusals DEF Kind
<1>3. CASE /\ calls < MaxToolCalls /\ q \in Known
           /\ calls' = calls + 1
           /\ host' = "call" /\ asked' = q /\ waits' = 0
           /\ UNCHANGED answer
  BY <1>0, <1>3
<1> QED
  BY <1>1, <1>2, <1>3, Zenon DEF Invoke

LEMMA FInvInit == FutureInit => FInv
<1> SUFFICES ASSUME FutureInit PROVE FInv
  OBVIOUS
<1>1. TypeOK
  <2>1. Cardinality({}) = 0
    BY FS_EmptySet
  <2> QED
    BY <2>1, FutureAssumption DEF FutureInit, TypeOK, Answer, Bare, Kind, Handle
<1>2. Futures /\ Waiting /\ Closing /\ AnswersMatch /\ NoOrphanWorker
  BY FutureAssumption DEF FutureInit, Futures, Waiting, Closing, AnswersMatch, NoOrphanWorker, Bare, Handle,
     Working
<1> QED
  BY <1>1, <1>2 DEF FInv

-----------------------------------------------------------------------------
(* The steps.  The frame of each group of actions is stated once.          *)

\* A Host function that returns, or goes on to wait for a tool, keeps every
\* future; a future it has taken from the map is cancelled.
LEMMA HostStep ==
    ASSUME FInv, UNCHANGED <<run, enabled, ctx, next, request, workerVars>>,
           run = "guest",
           calls' \in calls .. MaxToolCalls,
           pending' \subseteq pending, Cardinality(pending') <= MaxPending,
           cancelled \subseteq cancelled', cancelled' \subseteq 1 .. next,
           \A i \in pending : i \in pending' \/ i \in cancelled',
           host = "select" => waits \in cancelled',
           waits' = 0,
           \/ host' = "guest" /\ asked' = NoRequest
           \/ host' = "call" /\ asked' \in Known,
           answer' \in Answer,
           answer'.kind \in {"value", "error"} =>
               answer'.of = answer'.asked /\ answer'.asked \in Known
    PROVE  FInv'
<1>1. TypeOK'
  BY FutureAssumption DEF FInv, TypeOK, workerVars
<1>2. Futures' /\ Waiting' /\ Closing' /\ AnswersMatch'
  BY DEF FInv, Futures, Waiting, Closing, AnswersMatch, workerVars
<1>3. NoOrphanWorker'
  BY DEF FInv, NoOrphanWorker, Working, WorkerCancelled, workerVars
<1> QED
  BY <1>1, <1>2, <1>3 DEF FInv

\* A step of a worker leaves the Guest's thread and the map alone.
LEMMA WorkerStep ==
    ASSUME FInv, NEW i \in Handle, NEW w \in {"stored", "published", "finished"},
           worker[i] \in {"calling", "stored", "published"},
           worker' = [worker EXCEPT ![i] = w],
           response' \in [Handle -> {"none", "value", "error"}],
           \A j \in Handle : j # i => response'[j] = response[j],
           response'[i] \in {"value", "error"},
           cancelled' = cancelled \/ cancelled' = cancelled \cup {i},
           UNCHANGED <<run, enabled, ctx, calls, next, pending, request, hostVars>>
    PROVE  FInv'
<1>0. i \in 1 .. next /\ i <= next /\ next \in Nat
  BY FutureAssumption DEF FInv, Futures, TypeOK, Handle
<1>1. TypeOK'
  BY <1>0, FutureAssumption DEF FInv, TypeOK, hostVars
<1>2. Futures'
  BY <1>0 DEF FInv, TypeOK, Futures
<1>3. Waiting' /\ Closing'
  BY DEF FInv, Waiting, Closing, hostVars
<1>4. AnswersMatch'
  <2>1. \A j \in Handle : worker'[j] \in {"published", "finished"} => response'[j] # "none"
    BY DEF FInv, Futures, TypeOK
  <2>2. host = "select" => waits \in Handle
    BY FutureAssumption DEF FInv, Waiting, TypeOK, Handle
  <2> QED
    BY <2>1, <2>2 DEF FInv, AnswersMatch, hostVars
<1>5. NoOrphanWorker'
  BY DEF FInv, TypeOK, NoOrphanWorker, Working, WorkerCancelled, hostVars
<1> QED
  BY <1>1, <1>2, <1>3, <1>4, <1>5 DEF FInv

\* A step of the Run's own life: it may end the context, never revive it.
LEMMA RunStep ==
    ASSUME FInv,
           UNCHANGED <<enabled, calls, futureVars, workerVars, hostVars>>,
           run' \in {"start", "guest", "close", "wait", "returned"},
           ctx' \in {"live", "done"}, ctx = "done" => ctx' = "done",
           run' # run => host = "guest",
           run' \in {"wait", "returned"} => ctx' = "done",
           run' = "returned" => \A i \in Handle : ~Working(i)
    PROVE  FInv'
<1>1. TypeOK'
  BY DEF FInv, TypeOK, futureVars, workerVars, hostVars
<1>2. Futures' /\ Waiting' /\ Closing' /\ AnswersMatch'
  BY DEF FInv, Futures, Waiting, Closing, AnswersMatch, futureVars, workerVars, hostVars
<1>3. NoOrphanWorker'
  BY DEF FInv, NoOrphanWorker, Working, WorkerCancelled, futureVars, workerVars, hostVars
<1> QED
  BY <1>1, <1>2, <1>3 DEF FInv

\* A new early read: its handle is fresh and enters the map with its worker.
LEMMA PrepareStep ==
    ASSUME FInv, NEW q \in Request, Prepare(q)
    PROVE  FInv'
<1>0. /\ next \in Nat /\ next < MaxToolCalls /\ next + 1 \in Handle
      /\ calls + 1 \in 0 .. MaxToolCalls /\ q \in Early /\ q \in Known
      /\ next' = next + 1 /\ MaxPending \in Nat
  BY FutureAssumption DEF FInv, TypeOK, Prepare, Preparable, Handle
<1>1. TypeOK'
  <2>1. Cardinality(pending') <= MaxPending
    <3>1. /\ Cardinality(pending) \in Nat
          /\ Cardinality(pending \cup {next'}) <= Cardinality(pending) + 1
      BY Pending DEF FInv
    <3>2. pending' = pending \cup {next'} /\ Cardinality(pending) < MaxPending
      BY DEF Prepare, Preparable
    <3>3. Cardinality(pending') <= Cardinality(pending) + 1
      BY <3>1, <3>2, Zenon
    <3>4. Cardinality(pending') \in Nat
      BY <3>2, Pending DEF FInv
    <3> QED
      BY <1>0, <3>1, <3>2, <3>3, <3>4
  <2>2. /\ pending' \subseteq 1 .. next' /\ cancelled' \subseteq 1 .. next'
        /\ next' \in 0 .. calls' /\ waits' \in 0 .. next'
    BY <1>0 DEF FInv, TypeOK, Prepare, hostVars
  <2>3. /\ request' \in [Handle -> Request \cup {NoRequest}]
        /\ worker' \in [Handle -> {"none", "calling", "stored", "published", "finished"}]
    BY <1>0 DEF FInv, TypeOK, Prepare
  <2> QED
    BY <1>0, <2>1, <2>2, <2>3 DEF FInv, TypeOK, Prepare, hostVars
<1>2. Futures'
  BY <1>0 DEF FInv, TypeOK, Futures, Prepare, Handle
<1>3. Waiting' /\ Closing' /\ AnswersMatch'
  BY DEF FInv, Waiting, Closing, AnswersMatch, Prepare, InGuest, hostVars
<1>4. NoOrphanWorker'
  BY <1>0 DEF FInv, TypeOK, NoOrphanWorker, Working, WorkerCancelled, Prepare, InGuest, hostVars
<1> QED
  BY <1>1, <1>2, <1>3, <1>4 DEF FInv
\* A handle that leaves the map leaves it no larger.
LEMMA Removal ==
    ASSUME TypeOK, NEW i \in Handle
    PROVE  Cardinality(pending \ {i}) <= MaxPending
<1>1. Cardinality(pending \ {i}) \in Nat /\ Cardinality(pending) \in Nat
  <2>1. IsFiniteSet(pending \ {i})
    BY Pending, FS_Subset
  <2> QED
    BY <2>1, Pending, FS_CardinalityType
<1>2. Cardinality(pending \ {i}) <= Cardinality(pending)
  BY Pending
<1> QED
  BY <1>1, <1>2, FutureAssumption DEF TypeOK

LEMMA FInvStep == FInv /\ [FutureNext]_runVars => FInv'
<1> SUFFICES ASSUME FInv, [FutureNext]_runVars PROVE FInv'
  OBVIOUS
<1>0. TypeOK /\ calls \in calls .. MaxToolCalls
  BY FutureAssumption DEF FInv, TypeOK
<1>1. CASE Start
  BY <1>1, RunStep DEF Start, FInv, TypeOK, Waiting
<1>2. CASE BadRequest
  <2>1. /\ host' = "guest" /\ asked' = NoRequest /\ waits' = 0
        /\ answer' \in Answer /\ answer'.kind \notin {"value", "error"}
    BY <1>2, Refusals DEF BadRequest, Kind
  <2> QED
    BY <1>0, <1>2, <2>1, HostStep DEF BadRequest, InGuest, futureVars, FInv, TypeOK
<1>3. ASSUME NEW q \in Request, Prepare(q) PROVE FInv'
  BY <1>3, PrepareStep
<1>4. ASSUME NEW q \in Request, Call(q) PROVE FInv'
  <2>1. Invoke(q)
    BY <1>4 DEF Call
  <2> QED
    BY <1>0, <1>4, <2>1, Invokes, HostStep DEF Call, InGuest, futureVars, FInv, TypeOK, AnswersMatch
<1>5. ASSUME NEW i \in Handle, NEW q \in Request, ResolveUnknown(i, q) PROVE FInv'
  <2>1. /\ host' = "guest" /\ asked' = NoRequest /\ waits' = 0
        /\ answer' \in Answer /\ answer'.kind \notin {"value", "error"}
    BY <1>5, Refusals DEF ResolveUnknown, Kind
  <2> QED
    BY <1>0, <1>5, <2>1, HostStep DEF ResolveUnknown, InGuest, futureVars, FInv, TypeOK
<1>6. ASSUME NEW i \in Handle, NEW q \in Request, ResolveMismatch(i, q) PROVE FInv'
  <2>1. Invoke(q)
    BY <1>6 DEF ResolveMismatch
  <2>2. pending' \subseteq pending /\ Cardinality(pending') <= MaxPending
    BY <1>0, <1>6, Removal DEF ResolveMismatch
  <2>3. cancelled' \subseteq 1 .. next /\ \A j \in pending : j \in pending' \/ j \in cancelled'
    BY <1>0, <1>6 DEF ResolveMismatch, TypeOK
  <2> QED
    BY <1>0, <1>6, <2>1, <2>2, <2>3, Invokes, HostStep
    DEF ResolveMismatch, InGuest, FInv, AnswersMatch
<1>7. ASSUME NEW i \in Handle, NEW q \in Request, ResolveMatch(i, q) PROVE FInv'
  <2>1. TypeOK'
    <3>1. Cardinality(pending') <= MaxPending
      BY <1>0, <1>7, Removal DEF ResolveMatch
    <3> QED
      BY <1>0, <1>7, <3>1 DEF ResolveMatch, TypeOK, workerVars
  <2>2. Futures' /\ Waiting' /\ Closing'
    BY <1>7 DEF FInv, TypeOK, ResolveMatch, InGuest, Futures, Waiting, Closing, workerVars
  <2>3. AnswersMatch'
    BY <1>7 DEF FInv, ResolveMatch, Futures, AnswersMatch, workerVars
  <2>4. NoOrphanWorker'
    BY <1>7 DEF FInv, ResolveMatch, InGuest, NoOrphanWorker, Working, WorkerCancelled, workerVars
  <2> QED
    BY <2>1, <2>2, <2>3, <2>4 DEF FInv
<1>8. CASE ToolReturns
  <2>1. host = "call" /\ run = "guest" /\ asked \in Known /\ asked \in Request
    BY <1>8, FutureAssumption DEF ToolReturns, FInv, Waiting
  <2>2. PICK k \in {"value", "error"} : Reply(k, asked, asked)
    BY <1>8 DEF ToolReturns
  <2>3. /\ host' = "guest" /\ asked' = NoRequest /\ waits' = 0 /\ answer' \in Answer
        /\ answer'.kind \in {"value", "error"} => answer'.asked = asked /\ answer'.of = asked
    BY <2>1, <2>2, Replies
  <2> QED
    BY <1>0, <1>8, <2>1, <2>3, HostStep DEF ToolReturns, futureVars, FInv, TypeOK
<1>9. CASE SelectDone
  <2>1. /\ host = "select" /\ run = "guest" /\ waits \in 1 .. next /\ waits \in Handle
        /\ request[waits] = asked /\ asked \in Early
    BY <1>0, <1>9, FutureAssumption DEF SelectDone, FInv, Waiting, Futures, TypeOK, Handle
  <2>2. response[waits] \in {"value", "error"} /\ asked \in Known /\ asked \in Request
    BY <1>9, <2>1, FutureAssumption DEF SelectDone, FInv, Futures
  <2>3. /\ host' = "guest" /\ asked' = NoRequest /\ waits' = 0 /\ answer' \in Answer
        /\ answer'.kind \in {"value", "error"} => answer'.asked = asked /\ answer'.of = asked
    BY <1>9, <2>1, <2>2, Replies DEF SelectDone
  <2> QED
    BY <1>0, <1>9, <2>1, <2>2, <2>3, HostStep DEF SelectDone, FInv, TypeOK
<1>10. CASE SelectCtx
  <2>1. host = "select" /\ run = "guest" /\ waits \in 1 .. next
    BY <1>10 DEF SelectCtx, FInv, Waiting
  <2>2. /\ host' = "guest" /\ asked' = NoRequest /\ waits' = 0
        /\ answer' \in Answer /\ answer'.kind \notin {"value", "error"}
    BY <1>10, Refusals DEF SelectCtx, Kind
  <2> QED
    BY <1>0, <1>10, <2>1, <2>2, HostStep DEF SelectCtx, FInv, TypeOK
<1>11. ASSUME NEW i \in Handle, WorkerStores(i) PROVE FInv'
  <2>1. /\ response' \in [Handle -> {"none", "value", "error"}]
        /\ \A j \in Handle : j # i => response'[j] = response[j]
        /\ response'[i] \in {"value", "error"}
    BY <1>0, <1>11 DEF WorkerStores, TypeOK
  <2> QED
    BY <1>11, <2>1, WorkerStep DEF WorkerStores, futureVars
<1>12. ASSUME NEW i \in Handle, WorkerPublishes(i) PROVE FInv'
  BY <1>0, <1>12, WorkerStep DEF WorkerPublishes, futureVars, FInv, TypeOK, Futures
<1>13. ASSUME NEW i \in Handle, WorkerFinishes(i) PROVE FInv'
  BY <1>0, <1>13, WorkerStep DEF WorkerFinishes, FInv, TypeOK, Futures
<1>14. CASE CtxEnds
  BY <1>0, <1>14, RunStep DEF CtxEnds, FInv, TypeOK, NoOrphanWorker
<1>15. CASE GuestEnds
  BY <1>0, <1>15, RunStep DEF GuestEnds, InGuest, FInv, TypeOK
<1>16. CASE CloseRun
  BY <1>0, <1>16, RunStep DEF CloseRun, FInv, TypeOK, Waiting
<1>17. CASE Return
  BY <1>0, <1>17, RunStep DEF Return, FInv, TypeOK, Waiting, Closing, Working
<1>18. CASE UNCHANGED runVars
  BY <1>0, <1>18, RunStep DEF runVars, FInv, TypeOK, Closing, NoOrphanWorker
<1> QED
  BY <1>1, <1>2, <1>3, <1>4, <1>5, <1>6, <1>7, <1>8, <1>9, <1>10, <1>11, <1>12, <1>13, <1>14,
     <1>15, <1>16, <1>17, <1>18 DEF FutureNext, Guest, Host, Worker

-----------------------------------------------------------------------------
(* The theorems. *)

LEMMA FutureInvariant == FutureSpec => []FInv
  BY FInvInit, FInvStep, PTL DEF FutureSpec

\* However early reads, plain calls and the end of the context interleave, the
\* limits of pending reads and of tool calls hold (runState.prepare and invoke).
THEOREM FutureTypeCorrect == FutureSpec => []TypeOK
<1>1. FInv => TypeOK
  BY DEF FInv
<1> QED
  BY <1>1, FutureInvariant, PTL

\* resolve never hands a program the answer to another request, nor one that its
\* worker has not stored.
THEOREM FutureAnswersMatch == FutureSpec => []AnswersMatch
<1>1. FInv => AnswersMatch
  BY DEF FInv
<1> QED
  BY <1>1, FutureInvariant, PTL

\* Every worker that nobody waits for has its context cancelled, and close lets
\* Run return only when the last has left.
THEOREM FutureNoOrphanWorker == FutureSpec => []NoOrphanWorker
<1>1. FInv => NoOrphanWorker
  BY DEF FInv
<1> QED
  BY <1>1, FutureInvariant, PTL
=============================================================================
