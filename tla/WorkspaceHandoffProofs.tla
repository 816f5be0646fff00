------------------------ MODULE WorkspaceHandoffProofs ------------------------
(***************************************************************************)
(* Proofs about WorkspaceHandoff, for any paths, contents and limits and   *)
(* any number of edits of the Host directory.                              *)
(***************************************************************************)
EXTENDS WorkspaceHandoff, FiniteSetTheorems, SequenceTheorems, WellFoundedInduction, TLAPS

-----------------------------------------------------------------------------
(* The inductive invariant.                                                *)

Thing == File \cup {Absent, Odd}

\* The path has been two different things since the task began.
Two(p) == \E x, y \in moments[p] : x # y

\* The Host directory, what is remembered of it, and the snapshots.
HostType ==
    /\ host \in [Path -> Thing] /\ stamp \in [Path -> Nat] /\ rootStamp \in Nat
    /\ moments \in [Path -> SUBSET Thing] /\ \A p \in Path : IsFiniteSet(moments[p])
    /\ base \in [Path -> File \cup {Absent}]

\* Where a task can be: an import while there is no workspace, a check of an
\* exported one, and a file in progress is the first of those left.
TaskShape ==
    /\ task \in {"none", "import", "check"} /\ todo \subseteq Path
    /\ task = "none" => step = "none"
    /\ task = "import" => stage = "none" /\ step \in {"list", "stat", "first", "second", "verify"}
    /\ task = "check" => stage = "exported" /\ step \in {"stat", "first", "second", "verify"}
    /\ step \in {"first", "second", "verify"} => todo # {}

\* During a task every state of a path is remembered, and the directory's own
\* stamp moves only with one.
Remembered ==
    task # "none" => /\ \A p \in Path : host[p] \in moments[p]
                     /\ rootStamp # rootSeen => \E p \in Path : Two(p)

\* The file that is being read: as long as its stamp is the one of the Lstat,
\* what was read is a part of what it was then; otherwise it has changed.
Reading ==
    step \in {"first", "second", "verify"} =>
        LET p == First(todo) IN
        /\ info \in File /\ info \in moments[p]
        /\ seen \in Nat /\ stamp[p] >= seen
        /\ stamp[p] # seen => Two(p)
        /\ stamp[p] = seen => /\ host[p].kind = "file" /\ host[p].data = info.data
                              /\ step = "second" => text = <<info.data[1]>>
                              /\ step = "verify" => text = info.data

\* What was copied, and what was found absent when the directory was listed,
\* was so at a moment of the import.
Copying ==
    task = "import" => /\ copied \in [Path -> File \cup {Absent}]
                       /\ step = "list" => copied = Empty
                       /\ step # "list" => \A p \in Path : p \in todo \/ copied[p] \in moments[p]

\* A changed path is still to be checked, is a conflict for a reason, or was
\* the baseline's at a moment of the check.
Checking ==
    task = "check" =>
        /\ todo \subseteq Changes /\ conflicts \subseteq Changes
        /\ \A p \in conflicts : moments[p] # {base[p]}
        /\ \A p \in Changes : p \in todo \/ p \in conflicts \/ base[p] \in moments[p]

\* What the last task said.
Reported ==
    /\ ReadsAreMoments
    /\ stage = "conflicts" => \E p \in Changes : moments[p] # {base[p]}
    /\ stage = "error" => \E p \in Path : Two(p)

HInv == HostType /\ TaskShape /\ Remembered /\ Reading /\ Copying /\ Checking /\ Reported

-----------------------------------------------------------------------------
(* Facts about entries, paths and moments.                                 *)

\* What an entry is, by its kind.
LEMMA Entries ==
    /\ \A f \in File : /\ f.kind = "file" /\ f.data \in Data
                       /\ f = Entry(f.kind, f.data, f.exec)
                       /\ Entry(f.kind, f.data, ~f.exec) \in File
    /\ Absent.kind = "absent" /\ Odd.kind = "odd"
    /\ Absent \notin File /\ Odd \notin File /\ Absent # Odd
  BY DEF File, Absent, Odd, Entry

\* Of a set of paths that is not empty, First takes one.
LEMMA FirstIn ==
    ASSUME NEW S \in SUBSET Path, S # {} PROVE First(S) \in S
<1> DEFINE I == {i \in DOMAIN Paths : Paths[i] \in S}
<1>1. I \subseteq Nat /\ I # {} /\ DOMAIN Paths = 1 .. Len(Paths) /\ Len(Paths) \in Nat
  BY HandoffAssumption DEF Path
<1>2. PICK i \in I : \A j \in I : ~ (<<j, i>> \in OpToRel(<, Nat))
  BY <1>1, NatLessThanWellFounded, WFMin
<1>3. \A j \in I : ~ (j < i)
  BY <1>1, <1>2 DEF OpToRel
<1>4. \A j \in 1 .. i - 1 : Paths[j] \notin S
  BY <1>1, <1>3
<1>5. \E p \in S : \E k \in DOMAIN Paths : Paths[k] = p /\ \A j \in 1 .. k - 1 : Paths[j] \notin S
  BY <1>4
<1> QED
  BY <1>5 DEF First

\* Two different moments of a path are more than one.
LEMMA TwoCount ==
    ASSUME HostType, NEW p \in Path, Two(p) PROVE Cardinality(moments[p]) > 1
<1>1. PICK x, y \in moments[p] : x # y
  BY DEF Two
<1>2. IsFiniteSet({x}) /\ Cardinality({x}) = 1
  BY FS_Singleton
<1>3. Cardinality({x} \cup {y}) = 2
  BY <1>1, <1>2, FS_AddElement
<1>4. Cardinality({x} \cup {y}) <= Cardinality(moments[p])
  BY <1>1, FS_Subset DEF HostType
<1>5. Cardinality(moments[p]) \in Nat
  BY FS_CardinalityType DEF HostType
<1> QED
  BY <1>3, <1>4, <1>5

-----------------------------------------------------------------------------
(* Each action preserves the invariant.                                    *)

\* At first nothing has been said.
LEMMA InitHInv == Init => HInv
<1> SUFFICES ASSUME Init PROVE HInv
  OBVIOUS
<1>1. HostType
  BY FS_EmptySet DEF Init, HostType, Thing, Empty
<1>2. TaskShape
  BY DEF Init, TaskShape
<1> QED
  BY <1>1, <1>2 DEF Init, HInv, Remembered, Reading, Copying, Checking, Reported, ReadsAreMoments

\* An entry of the directory becomes e: no more moments than that, and, if the
\* stamp moved, two of them.
HostBecomes(p, e) ==
    /\ e \in Thing /\ host' = [host EXCEPT ![p] = e]
    /\ \/ /\ e # host[p] /\ stamp' = [stamp EXCEPT ![p] = @ + 1]
          /\ rootStamp' \in {rootStamp, rootStamp + 1}
       \/ /\ e.kind = host[p].kind /\ e.data = host[p].data
          /\ UNCHANGED <<stamp, rootStamp>>
    /\ moments' = IF task = "none" THEN moments ELSE [moments EXCEPT ![p] = @ \cup {e}]
    /\ UNCHANGED <<task, step, todo, rootSeen, seen, info, text, copied, conflicts,
                   tree, base, stage>>

\* What somebody does to the directory changes an entry, at most.
LEMMA EditBecomes ==
    ASSUME HInv, NEW p \in Path
    PROVE  /\ \A e \in File \cup {Absent, Odd} : Edit(p, e) => HostBecomes(p, e)
           /\ Chmod(p) => \E e \in Thing : HostBecomes(p, e)
<1> USE DEF HInv
<1>1. ASSUME NEW e \in File \cup {Absent, Odd}, Edit(p, e) PROVE HostBecomes(p, e)
  BY <1>1 DEF Edit, HostBecomes, Thing, taskVars, wsVars
<1>2. ASSUME Chmod(p) PROVE \E e \in Thing : HostBecomes(p, e)
  <2> DEFINE e == Entry(host[p].kind, host[p].data, ~host[p].exec)
  <2>1. host[p] \in File
    BY <1>2, Entries DEF Chmod, HostType, Thing
  <2>2. e \in Thing /\ e.kind = host[p].kind /\ e.data = host[p].data
    BY <2>1, Entries DEF Thing, Entry
  <2>3. HostBecomes(p, e)
    BY <1>2, <2>2 DEF Chmod, HostBecomes, taskVars, wsVars
  <2> QED
    BY <2>2, <2>3
<1> QED
  BY <1>1, <1>2

\* What was remembered stays remembered, and nothing already said changes.
LEMMA HostStep ==
    ASSUME HInv, NEW p \in Path, NEW e \in Thing, HostBecomes(p, e) PROVE HInv'
<1> USE DEF HInv
<1>1. HostType'
  <2>1. IsFiniteSet(moments[p] \cup {e})
    BY FS_AddElement DEF HostType
  <2>2. host' \in [Path -> Thing] /\ stamp' \in [Path -> Nat] /\ rootStamp' \in Nat
    BY DEF HostBecomes, HostType
  <2>3. moments' \in [Path -> SUBSET Thing] /\ \A q \in Path : IsFiniteSet(moments'[q])
    BY <2>1 DEF HostBecomes, HostType
  <2> QED
    BY <2>2, <2>3 DEF HostBecomes, HostType
<1>2. TaskShape'
  BY DEF HostBecomes, TaskShape
<1>3. /\ \A q \in Path : moments[q] \subseteq moments'[q]
      /\ \A q \in Path \ {p} : moments'[q] = moments[q] /\ host'[q] = host[q]
      /\ task = "none" => moments' = moments
      /\ task # "none" => e \in moments'[p] /\ host[p] \in moments'[p]
      /\ host'[p] = e /\ p \in Path
      /\ UNCHANGED <<task, step, todo, rootSeen, seen, info, text, copied, conflicts,
                     tree, base, stage>>
  BY DEF HostBecomes, HostType, Remembered
<1>4. \A q \in Path : Two(q) => Two(q)'
  BY <1>3 DEF Two
<1>5. task # "none" /\ e # host[p] => Two(p)'
  BY <1>3 DEF Two
<1>6. Remembered'
  <2>1. task # "none" => \A q \in Path : host'[q] \in moments'[q]
    BY <1>3 DEF Remembered
  <2>2. rootStamp' # rootStamp => e # host[p]
    BY DEF HostBecomes
  <2> QED
    BY <1>3, <1>4, <1>5, <2>1, <2>2 DEF Remembered
<1>7. Reading'
  <2> SUFFICES ASSUME step \in {"first", "second", "verify"}
               PROVE  LET q == First(todo) IN
                      /\ info \in File /\ info \in moments'[q]
                      /\ seen \in Nat /\ stamp'[q] >= seen
                      /\ stamp'[q] # seen => Two(q)'
                      /\ stamp'[q] = seen => /\ host'[q].kind = "file" /\ host'[q].data = info.data
                                             /\ step = "second" => text = <<info.data[1]>>
                                             /\ step = "verify" => text = info.data
    BY <1>3 DEF Reading
  <2> DEFINE q == First(todo)
  <2>1. q \in Path /\ task # "none"
    BY FirstIn DEF TaskShape
  <2>2. /\ info \in File /\ info \in moments[q] /\ seen \in Nat /\ stamp[q] >= seen
        /\ stamp[q] # seen => Two(q)
        /\ stamp[q] = seen => /\ host[q].kind = "file" /\ host[q].data = info.data
                              /\ step = "second" => text = <<info.data[1]>>
                              /\ step = "verify" => text = info.data
    BY DEF Reading
  <2> HIDE DEF q
  <2>3. CASE q # p
    <3>1. stamp'[q] = stamp[q]
      BY <2>1, <2>3 DEF HostBecomes, HostType
    <3> QED
      BY <1>3, <1>4, <2>1, <2>2, <2>3, <3>1 DEF q
  <2>4. CASE q = p
    <3>1. CASE e # host[p] /\ stamp' = [stamp EXCEPT ![p] = @ + 1]
      <4>1. stamp'[q] = stamp[q] + 1 /\ stamp[q] \in Nat
        BY <2>1, <2>4, <3>1 DEF HostType
      <4>2. stamp'[q] >= seen /\ stamp'[q] # seen
        BY <2>2, <4>1
      <4> QED
        BY <1>3, <1>5, <2>1, <2>2, <2>4, <3>1, <4>2 DEF q
    <3>2. CASE e.kind = host[p].kind /\ e.data = host[p].data /\ stamp' = stamp
      BY <1>3, <1>4, <2>1, <2>2, <2>4, <3>2 DEF q
    <3> QED
      BY <3>1, <3>2 DEF HostBecomes
  <2> QED
    BY <2>3, <2>4
<1>8. Copying'
  BY <1>3 DEF Copying
<1>9. Checking'
  <2> SUFFICES ASSUME task = "check" PROVE Checking'
    BY <1>3 DEF Checking
  <2>1. Changes' = Changes /\ Changes \subseteq Path
    BY <1>3 DEF Changes, Changed
  <2>2. \A q \in Path : host[q] \in moments[q]
    BY DEF Remembered
  <2>3. \A q \in conflicts : moments'[q] # {base[q]}
    BY <1>3, <2>1, <2>2 DEF Checking
  <2> QED
    BY <1>3, <2>1, <2>3 DEF Checking
<1>10. Reported'
  <2>1. Changes' = Changes
    BY <1>3 DEF Changes, Changed
  <2>2. stage \in {"ready", "clean", "conflicts", "error"} => task = "none"
    BY DEF TaskShape
  <2> QED
    BY <1>3, <2>1, <2>2 DEF Reported, ReadsAreMoments, Two
<1> QED
  BY <1>1, <1>2, <1>6, <1>7, <1>8, <1>9, <1>10

\* A task ends: what its report says has to be so.
LEMMA EndStep ==
    ASSUME HInv, NEW s \in {"none", "ready", "error", "clean", "conflicts"}, End(s),
           base' \in [Path -> File \cup {Absent}],
           s = "ready" => \A p \in Path : base'[p] \in moments[p],
           s = "clean" => UNCHANGED <<tree, base>> /\ \A p \in Changes : base[p] \in moments[p],
           s = "conflicts" => UNCHANGED <<tree, base>> /\ \E p \in Changes : moments[p] # {base[p]},
           s = "error" => \E p \in Path : Two(p)
    PROVE  HInv'
<1> USE DEF HInv
<1>1. /\ task' = "none" /\ step' = "none" /\ todo' = {} /\ stage' = s
      /\ UNCHANGED <<host, stamp, rootStamp, moments>>
  BY DEF End, hostVars
<1>2. HostType'
  BY <1>1 DEF HostType
<1>3. TaskShape' /\ Remembered' /\ Reading' /\ Copying' /\ Checking'
  BY <1>1 DEF TaskShape, Remembered, Reading, Copying, Checking
<1>4. s \in {"clean", "conflicts"} => Changes' = Changes
  BY DEF Changes, Changed
<1>5. Reported'
  BY <1>1, <1>4 DEF Reported, ReadsAreMoments, Two
<1> QED
  BY <1>2, <1>3, <1>5

\* The moments of a task begin with what every path is.
LEMMA BeginStep ==
    ASSUME HInv, NEW t, NEW s, NEW paths, Begin(t, s, paths)
    PROVE  /\ task' = t /\ step' = s /\ todo' = paths /\ copied' = Empty /\ conflicts' = {}
           /\ UNCHANGED <<host, stamp, rootStamp>> /\ rootSeen' = rootStamp'
           /\ moments' \in [Path -> SUBSET Thing]
           /\ \A p \in Path : moments'[p] = {host[p]} /\ IsFiniteSet(moments'[p])
<1>1. moments' = [p \in Path |-> {host[p]}]
  BY DEF Begin
<1>2. \A p \in Path : IsFiniteSet({host[p]})
  BY FS_Singleton
<1> QED
  BY <1>1, <1>2 DEF Begin, hostVars, HInv, HostType

\* CreateFromDirectory begins.
LEMMA ImportBeginsStep ==
    ASSUME HInv, ImportBegins PROVE HInv'
<1> USE DEF HInv
<1>1. /\ task' = "import" /\ step' = "list" /\ todo' = {} /\ copied' = Empty
      /\ UNCHANGED <<host, stamp, rootStamp>> /\ rootSeen' = rootStamp'
      /\ moments' \in [Path -> SUBSET Thing]
      /\ \A p \in Path : moments'[p] = {host[p]} /\ IsFiniteSet(moments'[p])
  BY BeginStep DEF ImportBegins
<1>2. UNCHANGED <<tree, base, stage>> /\ stage = "none"
  BY DEF ImportBegins, wsVars
<1>3. HostType'
  BY <1>1, <1>2 DEF HostType
<1>4. TaskShape' /\ Reading' /\ Checking'
  BY <1>1, <1>2 DEF TaskShape, Reading, Checking
<1>5. Remembered'
  BY <1>1 DEF Remembered
<1>6. Copying'
  BY <1>1 DEF Copying, Empty
<1>7. Reported'
  BY <1>1, <1>2 DEF Reported, ReadsAreMoments
<1> QED
  BY <1>3, <1>4, <1>5, <1>6, <1>7

\* CheckDirectoryConflicts begins, with every changed path to do.
LEMMA CheckBeginsStep ==
    ASSUME HInv, CheckBegins PROVE HInv'
<1> USE DEF HInv
<1>1. /\ task' = "check" /\ step' = "stat" /\ todo' = Changes /\ conflicts' = {}
      /\ UNCHANGED <<host, stamp, rootStamp>> /\ rootSeen' = rootStamp'
      /\ moments' \in [Path -> SUBSET Thing]
      /\ \A p \in Path : moments'[p] = {host[p]} /\ IsFiniteSet(moments'[p])
  BY BeginStep DEF CheckBegins
<1>2. UNCHANGED <<tree, base, stage>> /\ stage = "exported"
  BY DEF CheckBegins, wsVars
<1>3. HostType'
  BY <1>1, <1>2 DEF HostType
<1>4. Changes' = Changes /\ Changes \subseteq Path
  BY <1>2 DEF Changes, Changed
<1>5. TaskShape' /\ Reading' /\ Copying'
  BY <1>1, <1>2, <1>4 DEF TaskShape, Reading, Copying
<1>6. Remembered'
  BY <1>1 DEF Remembered
<1>7. Checking'
  BY <1>1, <1>4 DEF Checking
<1>8. Reported'
  BY <1>1, <1>2 DEF Reported, ReadsAreMoments
<1> QED
  BY <1>3, <1>5, <1>6, <1>7, <1>8

\* What the steps inside a task leave alone.
Inside == /\ task # "none"
          /\ UNCHANGED <<task, rootSeen, host, stamp, rootStamp, moments, tree, base, stage>>

\* Inside a task the directory is nobody's business but the editor's.
LEMMA InsideFrame ==
    ASSUME HInv, Inside
    PROVE  /\ HostType' /\ Remembered' /\ Reported'
           /\ Changes' = Changes /\ Changes \subseteq Path
           /\ \A p \in Path : Two(p)' <=> Two(p)
<1> USE DEF HInv
<1>1. Changes' = Changes /\ Changes \subseteq Path
  BY DEF Changes, Changed, Inside
<1>2. \A p \in Path : Two(p)' <=> Two(p)
  BY DEF Two, Inside
<1>3. HostType'
  BY DEF HostType, Inside
<1>4. Remembered'
  BY <1>2 DEF Remembered, Inside
<1>5. Reported'
  BY <1>1, <1>2 DEF Reported, ReadsAreMoments, Inside
<1> QED
  BY <1>1, <1>2, <1>3, <1>4, <1>5

\* copySourceDirectory lists the directory: what is not on the list is absent.
LEMMA ImportListsStep ==
    ASSUME HInv, ImportLists PROVE HInv'
<1> USE DEF HInv
<1>0. task = "import" /\ stage = "none" /\ copied = Empty
  BY DEF ImportLists, TaskShape, Copying
<1>1. Inside /\ UNCHANGED <<copied, conflicts>>
      /\ step' = "stat" /\ todo' = {p \in Path : host[p] # Absent}
  BY <1>0 DEF ImportLists, Inside, wsVars, hostVars
<1>2. TaskShape' /\ Reading' /\ Checking'
  BY <1>0, <1>1 DEF TaskShape, Reading, Checking, Inside
<1>3. Copying'
  <2>1. \A p \in Path : p \in todo' \/ copied'[p] \in moments'[p]
    BY <1>0, <1>1 DEF Remembered, Empty, Inside
  <2> QED
    BY <1>0, <1>1, <2>1 DEF Copying
<1> QED
  BY <1>1, <1>2, <1>3, InsideFrame

\* The Lstat of the next file, in either task.
LEMMA StatStep ==
    ASSUME HInv, task # "none", step = "stat", todo # {}, host[First(todo)].kind = "file",
           info' = host[First(todo)], seen' = stamp[First(todo)], step' = "first",
           UNCHANGED <<task, todo, rootSeen, text, copied, conflicts, wsVars, hostVars, moments>>
    PROVE  HInv'
<1> USE DEF HInv
<1>1. Inside /\ UNCHANGED <<todo, copied, conflicts>>
  BY DEF Inside, wsVars, hostVars
<1>2. First(todo) \in Path
  BY FirstIn DEF TaskShape
<1>3. host[First(todo)] \in File /\ stamp[First(todo)] \in Nat
  BY <1>2, Entries DEF HostType, Thing
<1>4. TaskShape'
  BY <1>1 DEF TaskShape, Inside
<1>5. Reading'
  <2>1. First(todo)' = First(todo)
    BY <1>1
  <2> QED
    BY <1>1, <1>2, <1>3, <2>1 DEF Reading, Inside, Remembered
<1>6. Copying'
  BY <1>1 DEF Copying, Inside
<1>7. Checking'
  BY <1>1, InsideFrame DEF Checking, Inside
<1> QED
  BY <1>1, <1>4, <1>5, <1>6, <1>7, InsideFrame

\* A file that is stable under the two looks was read as it was at the first.
LEMMA StableRead ==
    ASSUME HInv, step = "verify", stamp[First(todo)] = seen
    PROVE  Entry(info.kind, text, info.exec) = info
  BY Entries DEF HInv, Reading

\* On to the next path.
LEMMA NextPathFrame ==
    ASSUME HInv, task # "none", NextPath
    PROVE  /\ Inside /\ step' = "stat" /\ todo' = todo \ {First(todo)}
           /\ TaskShape' /\ Reading'
<1> USE DEF HInv
<1>1. Inside /\ step' = "stat" /\ todo' = todo \ {First(todo)}
  BY DEF NextPath, Inside, wsVars, hostVars
<1>2. TaskShape'
  BY <1>1 DEF TaskShape, Inside
<1> QED
  BY <1>1, <1>2 DEF Reading

\* Lstat of the next entry of an import, or the refusal of what it is.
LEMMA ImportStatsStep ==
    ASSUME HInv, ImportStats PROVE HInv'
<1> USE DEF HInv
<1>1. CASE End("none") /\ UNCHANGED <<tree, base>>
  BY <1>1, EndStep DEF HostType
<1>2. CASE ~ (End("none") /\ UNCHANGED <<tree, base>>)
  BY <1>2, StatStep DEF ImportStats
<1> QED
  BY <1>1, <1>2

\* The first half of a file; a file that is no file any more has changed.
LEMMA ReadFirstStep ==
    ASSUME HInv, ReadFirst PROVE HInv'
<1> USE DEF HInv
<1>f. PICK p \in Path : p = First(todo) /\ p \in todo
  BY FirstIn DEF ReadFirst, TaskShape
<1>0. task \in {"import", "check"} /\ step = "first"
  BY DEF ReadFirst, TaskShape
<1>a. /\ info \in File /\ info \in moments[p] /\ seen \in Nat /\ stamp[p] >= seen
      /\ stamp[p] # seen => Two(p)
      /\ stamp[p] = seen => host[p].kind = "file" /\ host[p].data = info.data
  BY <1>0, <1>f DEF Reading
<1>1. CASE host[p].kind = "file"
  <2>1. /\ Inside /\ UNCHANGED <<todo, copied, conflicts, seen, info>>
        /\ text' = <<host[p].data[1]>> /\ step' = "second"
    BY <1>0, <1>f, <1>1 DEF ReadFirst, Inside, wsVars, hostVars
  <2>2. First(todo)' = p /\ (Two(p)' <=> Two(p))
    BY <1>f, <2>1 DEF Two, Inside
  <2>3. TaskShape'
    BY <1>0, <1>f, <2>1 DEF TaskShape, Inside
  <2>4. Reading'
    BY <1>a, <2>1, <2>2 DEF Reading, Inside
  <2>5. Copying'
    BY <1>0, <2>1 DEF Copying, Inside
  <2>6. Checking'
    BY <2>1, InsideFrame DEF Checking, Inside
  <2> QED
    BY <2>1, <2>3, <2>4, <2>5, <2>6, InsideFrame
<1>2. CASE host[p].kind # "file"
  <2>1. UNCHANGED <<tree, base>> /\ End(IF task = "import" THEN "none" ELSE "error")
    BY <1>f, <1>2 DEF ReadFirst
  <2>2. Two(p)
    BY <1>0, <1>a, <1>2, Entries DEF Two, Remembered
  <2> QED
    BY <1>0, <2>1, <2>2, EndStep DEF HostType
<1> QED
  BY <1>1, <1>2

\* The second half: with the same stamp it belongs to the first.
LEMMA ReadSecondStep ==
    ASSUME HInv, ReadSecond PROVE HInv'
<1> USE DEF HInv
<1>f. PICK p \in Path : p = First(todo) /\ p \in todo
  BY FirstIn DEF ReadSecond, TaskShape
<1>0. task \in {"import", "check"} /\ step = "second"
  BY DEF ReadSecond, TaskShape
<1>a. /\ info \in File /\ info \in moments[p] /\ seen \in Nat /\ stamp[p] >= seen
      /\ stamp[p] # seen => Two(p)
      /\ stamp[p] = seen => /\ host[p].kind = "file" /\ host[p].data = info.data
                            /\ text = <<info.data[1]>>
  BY <1>0, <1>f DEF Reading
<1>1. /\ Inside /\ UNCHANGED <<todo, copied, conflicts, seen, info>> /\ step' = "verify"
      /\ text' = Append(text, IF host[p].kind = "file" THEN host[p].data[2] ELSE info.data[2])
  BY <1>0, <1>f DEF ReadSecond, Inside, wsVars, hostVars
<1>2. First(todo)' = p /\ (Two(p)' <=> Two(p))
  BY <1>f, <1>1 DEF Two, Inside
<1>3. stamp[p] = seen => text' = info.data
  <2>1. info.data = <<info.data[1], info.data[2]>>
    BY <1>a, Entries, HandoffAssumption
  <2>2. stamp[p] = seen => text' = Append(<<info.data[1]>>, info.data[2])
    BY <1>a, <1>1
  <2>3. ASSUME NEW x, NEW y PROVE Append(<<x>>, y) = <<x, y>>
    <3>1. <<x>> \in Seq({x, y}) /\ Len(<<x>>) = 1
      OBVIOUS
    <3>2. /\ Append(<<x>>, y) \in Seq({x, y}) /\ Len(Append(<<x>>, y)) = 2
          /\ Append(<<x>>, y)[1] = x /\ Append(<<x>>, y)[2] = y
      BY <3>1
    <3>3. <<x, y>> \in Seq({x, y}) /\ Len(<<x, y>>) = 2 /\ <<x, y>>[1] = x /\ <<x, y>>[2] = y
      OBVIOUS
    <3>4. \A i \in 1 .. Len(Append(<<x>>, y)) : Append(<<x>>, y)[i] = <<x, y>>[i]
      BY <3>2, <3>3
    <3> QED
      BY <3>2, <3>3, <3>4, SeqEqual
  <2> QED
    BY <2>1, <2>2, <2>3, Zenon
<1>4. TaskShape'
  BY <1>0, <1>f, <1>1 DEF TaskShape, Inside
<1>5. Reading'
  <2>1. /\ info' = info /\ seen' = seen /\ moments' = moments /\ stamp' = stamp
        /\ host' = host /\ step' = "verify"
    BY <1>1 DEF Inside
  <2> QED
    BY <1>a, <1>2, <1>3, <2>1 DEF Reading
<1>6. Copying'
  BY <1>0, <1>1 DEF Copying, Inside
<1>7. Checking'
  BY <1>1, InsideFrame DEF Checking, Inside
<1> QED
  BY <1>1, <1>4, <1>5, <1>6, <1>7, InsideFrame

\* copySourceFile keeps a file that was stable, and gives the import up otherwise.
LEMMA ImportCopiesStep ==
    ASSUME HInv, ImportCopies PROVE HInv'
<1> USE DEF HInv
<1> DEFINE p == First(todo)
<1>0. /\ p \in Path /\ p \in todo /\ task = "import" /\ step = "verify"
      /\ info \in File /\ info \in moments[p]
  BY FirstIn DEF ImportCopies, TaskShape, Reading
<1>1. CASE ImportVerifies(p)
  <2>1. copied' = [copied EXCEPT ![p] = info] /\ NextPath
    BY <1>0, <1>1, StableRead DEF ImportCopies, ImportVerifies
  <2>2. Inside /\ step' = "stat" /\ todo' = todo \ {p} /\ TaskShape' /\ Reading'
    BY <1>0, <2>1, NextPathFrame
  <2> HIDE DEF p
  <2>3. Copying'
    BY <1>0, <2>1, <2>2 DEF Copying, Inside
  <2>4. Checking'
    BY <1>0, <2>2 DEF Checking, Inside
  <2> QED
    BY <2>2, <2>3, <2>4, InsideFrame
<1>2. CASE ~ImportVerifies(p)
  BY <1>2, EndStep DEF ImportCopies, HostType
<1> QED
  BY <1>1, <1>2

\* The import ends with a workspace whose files were all there.
LEMMA ImportEndsStep ==
    ASSUME HInv, ImportEnds PROVE HInv'
<1> USE DEF HInv
<1>1. CASE rootStamp = rootSeen
  <2>1. base' = copied /\ End("ready")
    BY <1>1 DEF ImportEnds
  <2>2. copied \in [Path -> File \cup {Absent}] /\ \A p \in Path : copied[p] \in moments[p]
    BY DEF ImportEnds, Copying
  <2> QED
    BY <2>1, <2>2, EndStep
<1>2. CASE rootStamp # rootSeen
  BY <1>2, EndStep DEF ImportEnds, HostType
<1> QED
  BY <1>1, <1>2

\* A Guest's run and an export touch no task and no report.
LEMMA WorkspaceSteps ==
    ASSUME HInv, (\E t \in Tree : GuestRuns(t)) \/ Export PROVE HInv'
<1> USE DEF HInv
<1>1. /\ task = "none" /\ stage = "ready" /\ stage' \in {"ready", "exported", "refused"}
      /\ UNCHANGED <<host, stamp, rootStamp, task, step, todo, moments, base>>
  BY DEF GuestRuns, Export, taskVars, hostVars
<1>2. HostType' /\ TaskShape'
  BY <1>1 DEF HostType, TaskShape
<1>3. Remembered' /\ Reading' /\ Copying' /\ Checking'
  BY <1>1 DEF Remembered, Reading, Copying, Checking, TaskShape
<1>4. Reported'
  BY <1>1 DEF Reported, ReadsAreMoments
<1> QED
  BY <1>2, <1>3, <1>4

\* One changed path is decided: a conflict with a reason, or the baseline's.
LEMMA DecidedStep ==
    ASSUME HInv, task = "check", todo # {}, NextPath, UNCHANGED copied,
           NEW p \in Path, p = First(todo),
           \/ conflicts' = conflicts /\ base[p] \in moments[p]
           \/ conflicts' = conflicts \cup {p} /\ moments[p] # {base[p]}
    PROVE  HInv'
<1> USE DEF HInv
<1>1. Inside /\ step' = "stat" /\ todo' = todo \ {p} /\ TaskShape' /\ Reading'
  BY NextPathFrame
<1>2. p \in todo /\ p \in Changes
  BY FirstIn DEF TaskShape, Checking
<1>3. Checking'
  BY <1>1, <1>2, InsideFrame DEF Checking, Inside
<1>4. Copying'
  BY <1>1 DEF Copying, Inside
<1> QED
  BY <1>1, <1>3, <1>4, InsideFrame

\* checkTargetPath, up to the read.
LEMMA CheckStatsStep ==
    ASSUME HInv, CheckStats PROVE HInv'
<1> USE DEF HInv
<1> DEFINE p == First(todo)
<1>0. p \in Path /\ p \in todo /\ task = "check" /\ step = "stat" /\ todo # {}
  BY FirstIn DEF CheckStats, TaskShape
<1>1. CASE host[p].kind = "file" /\ ChangeKind(p) # "added"
  BY <1>0, <1>1, StatStep DEF CheckStats
<1>2. CASE ~ (host[p].kind = "file" /\ ChangeKind(p) # "added")
  <2>1. /\ conflicts' = IF host[p] = Absent /\ ChangeKind(p) = "added"
                        THEN conflicts ELSE conflicts \cup {p}
        /\ NextPath /\ UNCHANGED copied
    BY <1>2 DEF CheckStats
  <2>2. host[p] \in moments[p] /\ host[p] \in Thing /\ base[p] \in File \cup {Absent}
    BY <1>0 DEF Remembered, HostType
  <2>3. CASE host[p] = Absent /\ ChangeKind(p) = "added"
    <3>1. base[p] = Absent
      BY <2>3 DEF ChangeKind
    <3> QED
      BY <1>0, <2>1, <2>2, <2>3, <3>1, DecidedStep
  <2>4. CASE ~ (host[p] = Absent /\ ChangeKind(p) = "added")
    <3>1. base[p] # host[p]
      BY <1>2, <2>2, <2>4, Entries DEF ChangeKind, Thing
    <3>2. moments[p] # {base[p]}
      BY <2>2, <3>1
    <3> QED
      BY <1>0, <2>1, <2>4, <3>2, DecidedStep
  <2> QED
    BY <2>3, <2>4
<1> QED
  BY <1>1, <1>2

\* readStableTargetFile decides a path that was read, or finds it gone.
LEMMA CheckVerifiesStep ==
    ASSUME HInv, CheckVerifies PROVE HInv'
<1> USE DEF HInv
<1>f. PICK p \in Path : p = First(todo) /\ p \in todo
  BY FirstIn DEF CheckVerifies, TaskShape
<1>0. /\ task = "check" /\ step = "verify"
      /\ info \in File /\ info \in moments[p] /\ host[p] \in moments[p]
      /\ stamp[p] # seen => Two(p)
      /\ stamp[p] = seen => Entry(info.kind, text, info.exec) = info
  BY <1>f, StableRead DEF CheckVerifies, Reading, Remembered
<1>1. CASE host[p] = Absent
  <2>1. End("error") /\ UNCHANGED <<tree, base>>
    BY <1>f, <1>1 DEF CheckVerifies
  <2>2. Two(p)
    BY <1>0, <1>1, Entries DEF Two
  <2> QED
    BY <2>1, <2>2, EndStep DEF HostType
<1>2. CASE host[p] # Absent
  <2>1. /\ conflicts' = IF Unchanged(p) THEN conflicts ELSE conflicts \cup {p}
        /\ NextPath /\ UNCHANGED copied
    BY <1>f, <1>2 DEF CheckVerifies
  <2>2. Unchanged(p) => base[p] \in moments[p]
    BY <1>0 DEF Unchanged
  <2>3. ~Unchanged(p) => moments[p] # {base[p]}
    BY <1>0 DEF Unchanged, Two
  <2> QED
    BY <1>f, <1>0, <2>1, <2>2, <2>3, DecidedStep
<1> QED
  BY <1>1, <1>2

\* The check ends with what it has found, if the directory kept its names.
LEMMA CheckEndsStep ==
    ASSUME HInv, CheckEnds PROVE HInv'
<1> USE DEF HInv
<1>1. /\ task = "check" /\ todo = {} /\ UNCHANGED <<tree, base>>
      /\ End(IF rootStamp # rootSeen THEN "error" ELSE IF conflicts = {} THEN "clean" ELSE "conflicts")
  BY DEF CheckEnds
<1>2. base' \in [Path -> File \cup {Absent}]
  BY <1>1 DEF HostType
<1>3. CASE rootStamp # rootSeen
  BY <1>1, <1>2, <1>3, EndStep DEF Remembered
<1>4. CASE rootStamp = rootSeen /\ conflicts = {}
  BY <1>1, <1>2, <1>4, EndStep DEF Checking
<1>5. CASE rootStamp = rootSeen /\ conflicts # {}
  BY <1>1, <1>2, <1>5, EndStep DEF Checking
<1> QED
  BY <1>3, <1>4, <1>5

\* Every step, whoever takes it, preserves the invariant.
LEMMA NextHInv == HInv /\ [Next]_vars => HInv'
<1> SUFFICES ASSUME HInv, [Next]_vars PROVE HInv'
  OBVIOUS
<1>1. CASE UNCHANGED vars
  <2>1. UNCHANGED <<host, stamp, rootStamp, task, step, todo, rootSeen, seen, info, text,
                    copied, conflicts, tree, base, stage, moments>>
    BY <1>1 DEF vars, hostVars, taskVars, wsVars
  <2>2. Changes' = Changes /\ \A p \in Path : Two(p)' <=> Two(p)
    BY <2>1 DEF Changes, Changed, Two
  <2>3. First(todo)' = First(todo)
    BY <2>1
  <2>4. HostType' /\ TaskShape' /\ Copying'
    BY <2>1 DEF HInv, HostType, TaskShape, Copying
  <2>5. Remembered' /\ Checking'
    BY <2>1, <2>2 DEF HInv, Remembered, Checking
  <2>6. Reported'
    BY <2>1, <2>2 DEF HInv, Reported, ReadsAreMoments
  <2>7. Reading'
    BY <2>1, <2>3 DEF HInv, Reading, Two
  <2> QED
    BY <2>4, <2>5, <2>6, <2>7 DEF HInv
<1>2. ASSUME NEW p \in Path, Chmod(p) \/ \E e \in File \cup {Absent, Odd} : Edit(p, e)
      PROVE  HInv'
  <2>1. \E e \in Thing : HostBecomes(p, e)
    BY <1>2, EditBecomes DEF Thing
  <2> QED
    BY <2>1, HostStep
<1> QED
  BY <1>1, <1>2, ImportBeginsStep, ImportListsStep, ImportStatsStep, ImportCopiesStep,
     ImportEndsStep, ReadFirstStep, ReadSecondStep, WorkspaceSteps, CheckBeginsStep,
     CheckStatsStep, CheckVerifiesStep, CheckEndsStep DEF Next

\* The invariant holds in every reachable state.
THEOREM HandoffInvariant == Spec => []HInv
<1>1. Init => HInv
  BY InitHInv
<1>2. HInv /\ [Next]_vars => HInv'
  BY NextHInv
<1> QED
  BY <1>1, <1>2, PTL DEF Spec

\* What an import copied and what a clean check confirms was there, however
\* often the directory was edited meanwhile.
THEOREM HandoffReadsAreMoments == Spec => []ReadsAreMoments
<1>1. HInv => ReadsAreMoments
  BY DEF HInv, Reported
<1> QED
  BY <1>1, HandoffInvariant, PTL

\* A conflict has a reason in a path that the Guest changed, and a check that
\* fails has met an edit.
THEOREM HandoffConflictsAreReal == Spec => []ConflictsAreReal
<1>1. HInv => ConflictsAreReal
  BY TwoCount DEF HInv, Reported, ConflictsAreReal
<1> QED
  BY <1>1, HandoffInvariant, PTL
===============================================================================
