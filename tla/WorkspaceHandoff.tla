--------------------------- MODULE WorkspaceHandoff ---------------------------
(***************************************************************************)
(* A Host directory on its way into a private workspace and the changes on *)
(* their way back: CreateFromDirectory (ingress.go), Snapshot and Diff     *)
(* (snapshot.go), ExportChanges and CheckDirectoryConflicts (export.go),   *)
(* while somebody edits the Host directory.                                *)
(*                                                                         *)
(* A file is read in two halves, so that an edit in between gives a text   *)
(* which no version of the file had.  The code defends itself by comparing *)
(* the file's identity and modification time, and the directory's, before  *)
(* and after; here both are one stamp, which every write of the file       *)
(* changes (an assumption on the Host's clock) and a chmod does not.  The  *)
(* directory is flat and each file is one byte of the limits; a path whose *)
(* entry or parent is no ordinary file is "odd".                           *)
(***************************************************************************)
EXTENDS Naturals, Sequences, FiniteSets

CONSTANTS
    Paths,      \* the paths in their order
    Data,       \* contents of files, as pairs of halves
    MaxFiles,   \* Limits.MaxFiles
    MaxBytes,   \* the cap of ExportChanges
    MaxEdits    \* bound: changes of the Host directory

ASSUME HandoffAssumption ==
    /\ Paths \in Seq(STRING) /\ \A d \in Data : d = <<d[1], d[2]>>
    /\ MaxFiles \in Nat /\ MaxBytes \in Nat /\ MaxEdits \in Nat

VARIABLES
    host, stamp,       \* each path of the Host directory and its stamp
    rootStamp, edits,  \* the directory's own stamp; how many edits so far
    task,              \* "none", "import" or "check"
    step, todo,        \* its progress: "list", "stat", "first", "second", "verify"; paths left
    rootSeen, seen,    \* the stamps it compares with
    info, text,        \* the file's entry at Lstat; what was read of it
    copied,            \* the workspace under construction
    conflicts,         \* the conflicts found so far
    tree, base,        \* the workspace; its snapshot when it was made
    stage,             \* "none", "ready", "exported", "refused"; then the report
    moments            \* what each path has been since the task began

hostVars == <<host, stamp, rootStamp, edits>>
taskVars == <<task, step, todo, rootSeen, seen, info, text, copied, conflicts>>
wsVars   == <<tree, base, stage>>
vars     == <<hostVars, taskVars, wsVars, moments>>

-----------------------------------------------------------------------------
Path   == {Paths[i] : i \in DOMAIN Paths}
NoData == <<>>
Entry(k, d, x) == [kind |-> k, data |-> d, exec |-> x]
Absent == Entry("absent", NoData, FALSE)
Odd    == Entry("odd", NoData, FALSE)
File   == [kind : {"file"}, data : Data, exec : BOOLEAN]
Tree   == {t \in [Path -> File \cup {Absent}] : Cardinality({p \in Path : t[p] # Absent}) <= MaxFiles}
Empty  == [p \in Path |-> Absent]
\* The first of a set of paths in their order.
First(S) == CHOOSE p \in S : \E i \in DOMAIN Paths : Paths[i] = p /\ \A j \in 1 .. i - 1 : Paths[j] \notin S

Init ==
    /\ host \in [Path -> {f \in File : ~f.exec} \cup {Absent}]
    /\ stamp = [p \in Path |-> 0] /\ rootStamp = 0 /\ edits = 0
    /\ task = "none" /\ step = "none" /\ todo = {} /\ rootSeen = 0 /\ seen = 0
    /\ info = Absent /\ text = NoData /\ copied = Empty /\ conflicts = {}
    /\ tree = Empty /\ base = Empty /\ stage = "none"
    /\ moments = [p \in Path |-> {}]

\* Somebody writes, creates, replaces or removes an entry of the directory.
Edit(p, e) ==
    /\ edits < MaxEdits /\ e # host[p]
    /\ host' = [host EXCEPT ![p] = e] /\ stamp' = [stamp EXCEPT ![p] = @ + 1]
    /\ rootStamp' = IF (e = Absent) # (host[p] = Absent) THEN rootStamp + 1 ELSE rootStamp
    /\ edits' = edits + 1
    /\ moments' = IF task = "none" THEN moments ELSE [moments EXCEPT ![p] = @ \cup {e}]
    /\ UNCHANGED <<taskVars, wsVars>>

\* A chmod leaves the modification times alone.
Chmod(p) ==
    LET e == Entry(host[p].kind, host[p].data, ~host[p].exec) IN
    /\ edits < MaxEdits /\ host[p].kind = "file"
    /\ host' = [host EXCEPT ![p] = e] /\ edits' = edits + 1
    /\ moments' = IF task = "none" THEN moments ELSE [moments EXCEPT ![p] = @ \cup {e}]
    /\ UNCHANGED <<stamp, rootStamp, taskVars, wsVars>>

-----------------------------------------------------------------------------
Begin(t, s, paths) ==
    /\ task' = t /\ step' = s /\ todo' = paths
    /\ rootSeen' = rootStamp /\ copied' = Empty /\ conflicts' = {}
    /\ moments' = [p \in Path |-> {host[p]}]
    /\ UNCHANGED <<seen, info, text, hostVars>>

End(s) ==
    /\ task' = "none" /\ step' = "none" /\ todo' = {} /\ stage' = s
    /\ rootSeen' = 0 /\ seen' = 0 /\ info' = Absent /\ text' = NoData
    /\ copied' = Empty /\ conflicts' = {}
    /\ UNCHANGED <<hostVars, moments>>

\* The next path, without the file's own variables.
NextPath ==
    /\ step' = "stat" /\ todo' = todo \ {First(todo)}
    /\ seen' = 0 /\ info' = Absent /\ text' = NoData
    /\ UNCHANGED <<task, rootSeen, wsVars, hostVars, moments>>

\* CreateFromDirectory: the root's first Lstat.
ImportBegins ==
    /\ task = "none" /\ stage = "none"
    /\ Begin("import", "list", {})
    /\ UNCHANGED wsVars

\* copySourceDirectory: ReadDir.
ImportLists ==
    /\ step = "list"
    /\ step' = "stat" /\ todo' = {p \in Path : host[p] # Absent}
    /\ UNCHANGED <<task, rootSeen, seen, info, text, copied, conflicts, wsVars, hostVars, moments>>

\* Lstat of the next entry, and what it excludes.
ImportStats ==
    /\ task = "import" /\ step = "stat" /\ todo # {}
    /\ LET p == First(todo) IN
       IF host[p].kind # "file" \/ Cardinality({q \in Path : copied[q] # Absent}) >= MaxFiles
       THEN End("none") /\ UNCHANGED <<tree, base>>
       ELSE /\ info' = host[p] /\ seen' = stamp[p] /\ step' = "first"
            /\ UNCHANGED <<task, todo, rootSeen, text, copied, conflicts, wsVars, hostVars, moments>>

\* Variant: only the name is looked up again.
ImportVerifiesName(p) == host[p].kind = "file"

\* copySourceFile: the entry is compared before the destination gets its mode.
ImportVerifies(p) == host[p].kind = "file" /\ stamp[p] = seen

ImportCopies ==
    /\ task = "import" /\ step = "verify"
    /\ LET p == First(todo) IN
       IF ImportVerifies(p)
       THEN /\ copied' = [copied EXCEPT ![p] = Entry(info.kind, text, info.exec)]
            /\ NextPath /\ UNCHANGED conflicts
       ELSE End("none") /\ UNCHANGED <<tree, base>>

\* The directory's last Lstat, and the workspace with its first snapshot.
ImportEnds ==
    /\ task = "import" /\ step = "stat" /\ todo = {}
    /\ IF rootStamp = rootSeen
       THEN tree' = copied /\ base' = copied /\ End("ready")
       ELSE UNCHANGED <<tree, base>> /\ End("none")

\* Reading a file, here and in the conflict check: it is opened by its name;
\* an open file that was removed can still be read.
ReadFirst ==
    /\ step = "first"
    /\ LET p == First(todo) IN
       IF host[p].kind = "file"
       THEN /\ text' = <<host[p].data[1]>> /\ step' = "second"
            /\ UNCHANGED <<task, todo, rootSeen, seen, info, copied, conflicts, wsVars, hostVars, moments>>
       ELSE UNCHANGED <<tree, base>> /\ End(IF task = "import" THEN "none" ELSE "error")

ReadSecond ==
    /\ step = "second"
    /\ LET p == First(todo) IN
       text' = Append(text, IF host[p].kind = "file" THEN host[p].data[2] ELSE info.data[2])
    /\ step' = "verify"
    /\ UNCHANGED <<task, todo, rootSeen, seen, info, copied, conflicts, wsVars, hostVars, moments>>

-----------------------------------------------------------------------------
\* A Guest's run: any tree within the limits.
GuestRuns(t) ==
    /\ task = "none" /\ stage = "ready" /\ tree = base /\ t # base
    /\ tree' = t
    /\ UNCHANGED <<base, stage, taskVars, hostVars, moments>>

\* Diff of the two snapshots.
Changed(p) == base[p] # tree[p]

ChangeKind(p) == IF base[p] = Absent THEN "added" ELSE IF tree[p] = Absent THEN "deleted" ELSE "modified"

Changes == {p \in Path : Changed(p)}

\* ExportChanges: the byte cap, and the number of changes that Validate allows.
Export ==
    /\ task = "none" /\ stage = "ready"
    /\ stage' = IF /\ Cardinality({p \in Changes : ChangeKind(p) # "deleted"}) <= MaxBytes
                   /\ Cardinality(Changes) <= MaxFiles
                THEN "exported" ELSE "refused"
    /\ UNCHANGED <<tree, base, taskVars, hostVars, moments>>

\* CheckDirectoryConflicts against the directory the workspace came from.
CheckBegins ==
    /\ task = "none" /\ stage = "exported"
    /\ Begin("check", "stat", Changes)
    /\ UNCHANGED wsVars

\* checkTargetPath, up to the read.
CheckStats ==
    /\ task = "check" /\ step = "stat" /\ todo # {}
    /\ LET p == First(todo) IN
       IF host[p].kind = "file" /\ ChangeKind(p) # "added"
       THEN /\ info' = host[p] /\ seen' = stamp[p] /\ step' = "first"
            /\ UNCHANGED <<task, todo, rootSeen, text, copied, conflicts, wsVars, hostVars, moments>>
       ELSE /\ conflicts' = IF host[p] = Absent /\ ChangeKind(p) = "added"
                            THEN conflicts ELSE conflicts \cup {p}
            /\ NextPath /\ UNCHANGED copied

\* Variant: the target is compared with the Guest's result.
UnchangedAfter(p) == stamp[p] = seen /\ Entry(info.kind, text, info.exec) = tree[p]

\* readStableTargetFile: unstable or different is a conflict, gone an error.
Unchanged(p) == stamp[p] = seen /\ Entry(info.kind, text, info.exec) = base[p]

CheckVerifies ==
    /\ task = "check" /\ step = "verify"
    /\ LET p == First(todo) IN
       IF host[p] = Absent THEN UNCHANGED <<tree, base>> /\ End("error")
       ELSE /\ conflicts' = IF Unchanged(p) THEN conflicts ELSE conflicts \cup {p}
            /\ NextPath /\ UNCHANGED copied

CheckEnds ==
    /\ task = "check" /\ step = "stat" /\ todo = {}
    /\ End(IF rootStamp # rootSeen THEN "error" ELSE IF conflicts = {} THEN "clean" ELSE "conflicts")
    /\ UNCHANGED <<tree, base>>

Next ==
    \/ \E p \in Path : Chmod(p) \/ \E e \in File \cup {Absent, Odd} : Edit(p, e)
    \/ ImportBegins \/ ImportLists \/ ImportStats \/ ImportCopies \/ ImportEnds
    \/ ReadFirst \/ ReadSecond
    \/ \E t \in Tree : GuestRuns(t)
    \/ Export
    \/ CheckBegins \/ CheckStats \/ CheckVerifies \/ CheckEnds

Spec == Init /\ [][Next]_vars

-----------------------------------------------------------------------------
\* What the Host directory is said to be, it was.  Each file of a workspace
\* that was made from it, and each baseline that a clean report confirms, is
\* what the path really held at a moment of the copy or of the check: no text
\* made of two versions, no file that came or went meanwhile.
ReadsAreMoments ==
    /\ task = "none" /\ stage = "ready" => \A p \in Path : base[p] \in moments[p]
    /\ stage = "clean" => \A p \in Changes : base[p] \in moments[p]

\* A conflict is never a false alarm: a path that the Guest changed was not, or
\* did not stay, what the baseline says.  What happens to other paths, and what
\* the Guest did to this one, is no reason.  A check that fails outright has at
\* least met an edit of the directory: not one of its own paths, for the
\* modification time of the root changes with every name in it.
ConflictsAreReal ==
    /\ stage = "conflicts" => \E p \in Changes : moments[p] # {base[p]}
    /\ stage = "error" => \E p \in Path : Cardinality(moments[p]) > 1
===============================================================================
