---------------------------- MODULE WorkspaceQuota ----------------------------
(***************************************************************************)
(* The file system a Guest has at /workspace (runtime/workspace/fs.go):    *)
(* rootedFS keeps, beside the tree on disk, an account of its entries,     *)
(* sizes, file count and bytes, and refuses what would pass the limits.    *)
(*                                                                         *)
(* Every operation runs under rootedFS.mu, so each is one step.  A path    *)
(* is the sequence of its components; "." is Root.  An operation that      *)
(* returns an errno and changes nothing is no step.  The operations of     *)
(* delegate, the Host's file system, are external: they fail without an    *)
(* effect, except that a write may stop after any number of bytes.         *)
(***************************************************************************)
EXTENDS Integers, Sequences, FiniteSets, SequencesExt, FiniteSetsExt, Functions, Sums

CONSTANTS
    Name,                                      \* path components
    Handle,                                    \* the Guest's open files
    MaxFiles, MaxBytes, MaxFileBytes, MaxDepth,  \* Limits
    DirSize,                                   \* the size Stat gives a directory
    StatMayFail,                               \* the Host's Stat may fail after a write
    MaxLen                                     \* bound: longest buffer of a write

ASSUME QuotaAssumption ==
    /\ MaxFiles \in Nat \ {0} /\ MaxBytes \in Nat \ {0}
    /\ MaxFileBytes \in Nat \ {0} /\ MaxDepth \in Nat \ {0}
    /\ MaxFileBytes <= MaxBytes
    /\ DirSize \in Nat /\ StatMayFail \in BOOLEAN /\ MaxLen \in Nat

VARIABLES
    dirs, data,                     \* on disk: directories, and the size of each file
    entries, sizes, files, bytes,   \* rootedFS.usage
    open,                           \* rootedFS.open: handles per path
    handle,                         \* the quotaFiles that are not closed
    closed,                         \* rootedFS.closed
    dirWritten                      \* history: a write went to a directory's handle

diskVars  == <<dirs, data>>
usageVars == <<entries, sizes, files, bytes>>
openVars  == <<open, handle>>
vars == <<diskVars, usageVars, openVars, closed, dirWritten>>

-----------------------------------------------------------------------------
Root == <<>>
\* The names cleanGuestPath accepts.
Path == UNION {[1..n -> Name] : n \in 1..MaxDepth}

Put(f, k, v) == [x \in DOMAIN f \cup {k} |-> IF x = k THEN v ELSE f[x]]
Drop(f, k)   == Restrict(f, DOMAIN f \ {k})
Lookup(f, k) == IF k \in DOMAIN f THEN f[k] ELSE 0

OnDisk == {Root} \cup dirs \cup DOMAIN data

\* validateComponents: every component but the last is a directory on disk,
\* and the last is there, unless it may be missing.
ValidComponents(p, allowMissingFinal) ==
    /\ \A q \in Prefixes(p) \ {p, Root} : q \in dirs
    /\ p \in OnDisk \/ allowMissingFinal

\* The account has a directory for the path to be made in.
ParentKnown(p) ==
    LET parent == Front(p)
    IN  parent = Root \/ (parent \in DOMAIN entries /\ entries[parent] = "dir")

\* hasOpenAtOrBelow.
OpenAtOrBelow(p) == \E q \in DOMAIN open : open[q] > 0 /\ IsPrefix(p, q)

-----------------------------------------------------------------------------
(* scanOrdinaryTree: what an account made from the disk would be.           *)

ScanEntries == [p \in dirs \cup DOMAIN data |-> IF p \in dirs THEN "dir" ELSE "file"]

\* Acquire, Files, ReadFile and Snapshot fail if the scan finds a name that
\* cleanGuestPath refuses, or more than the limits.  (rootedFS makes no links or
\* special files, so every entry is ordinary.)
ScanAccepts ==
    /\ dirs \cup DOMAIN data \subseteq Path
    /\ Cardinality(dirs \cup DOMAIN data) <= MaxFiles
    /\ \A p \in DOMAIN data : data[p] <= MaxFileBytes
    /\ Total(data) <= MaxBytes

\* newRootedFS with the scan's account.
Scanned ==
    /\ entries' = ScanEntries /\ sizes' = data
    /\ files' = Cardinality(dirs \cup DOMAIN data) /\ bytes' = Total(data)

\* A new workspace; Create may also start it with files within the limits,
\* which the Guest can write as well.
Init ==
    /\ dirs = {} /\ data = <<>>
    /\ entries = <<>> /\ sizes = <<>> /\ files = 0 /\ bytes = 0
    /\ open = <<>> /\ handle = <<>>
    /\ closed = FALSE /\ dirWritten = FALSE

\* Release closes the file system.  The Guest is gone by then, and with it its
\* open files.
Release ==
    /\ ~closed /\ handle = <<>>
    /\ closed' = TRUE
    /\ UNCHANGED <<diskVars, usageVars, openVars, dirWritten>>

\* A later Acquire scans the tree and starts a new account.
Acquire ==
    /\ closed /\ ScanAccepts
    /\ Scanned
    /\ open' = <<>> /\ closed' = FALSE /\ dirWritten' = FALSE
    /\ UNCHANGED <<diskVars, handle>>

-----------------------------------------------------------------------------
(* Operations on paths.  Rename, Unlink and Rmdir do not look at closed, but  *)
(* validateComponents finds the root closed.                                 *)

\* O_TRUNC in the account.
TruncateAccount(p, exists) ==
    /\ bytes' = bytes - (IF exists THEN Lookup(sizes, p) ELSE 0)
    /\ sizes' = Put(sizes, p, 0)

\* OpenFile.  The Host opens a directory neither to create nor to truncate.
OpenFile(h, p, creating, trunc, append) ==
    LET exists == p = Root \/ p \in DOMAIN entries
    IN  /\ h \notin DOMAIN handle /\ ~closed
        /\ ValidComponents(p, creating)
        /\ exists <=> p \in OnDisk
        /\ ~exists => files < MaxFiles /\ ParentKnown(p)
        /\ creating \/ trunc => p \notin dirs \cup {Root}
        /\ data' = IF ~exists \/ trunc THEN Put(data, p, 0) ELSE data
        /\ entries' = IF exists THEN entries ELSE Put(entries, p, "file")
        /\ files' = IF exists THEN files ELSE files + 1
        /\ IF trunc
           THEN TruncateAccount(p, exists)
           ELSE /\ sizes' = IF exists THEN sizes ELSE Put(sizes, p, 0)
                /\ UNCHANGED bytes
        /\ open' = Put(open, p, Lookup(open, p) + 1)
        /\ handle' = Put(handle, h, [name |-> p, append |-> append])
        /\ UNCHANGED <<dirs, closed, dirWritten>>

Mkdir(p) ==
    /\ ~closed /\ ValidComponents(p, TRUE)
    /\ p \notin DOMAIN entries /\ files < MaxFiles /\ ParentKnown(p)
    /\ p \notin OnDisk
    /\ dirs' = dirs \cup {p}
    /\ entries' = Put(entries, p, "dir")
    /\ files' = files + 1
    /\ UNCHANGED <<data, sizes, bytes, openVars, closed, dirWritten>>

\* The keys of f in moved, which are below from, get their new names.
Rekey(f, moved, from, to) ==
    LET new == [p \in moved \cap DOMAIN f |-> to \o SubSeq(p, Len(from) + 1, Len(p))]
        old == [n \in Range(new) |-> CHOOSE p \in DOMAIN new : new[p] = n]
    IN  [n \in (DOMAIN f \ moved) \cup DOMAIN old |->
             IF n \in DOMAIN old THEN f[old[n]] ELSE f[n]]

\* Variant: the sizes of renamed files stay under their old names.
RekeyEntriesOnly(moved, from, to) ==
    entries' = Rekey(entries, moved, from, to) /\ UNCHANGED sizes

\* The loop over updates.
RekeyAccount(moved, from, to) ==
    entries' = Rekey(entries, moved, from, to) /\ sizes' = Rekey(sizes, moved, from, to)

\* Variant: only the new name itself is checked, not those below it.
OwnNameClean(moved, from, to) == Len(to) <= MaxDepth

\* cleanGuestPath of every replacement.
ReplacementsClean(moved, from, to) ==
    \A p \in moved : Len(to) + Len(p) - Len(from) <= MaxDepth

\* Rename.  The Host refuses to move a directory into itself.
Rename(from, to) ==
    LET Below(S) == {p \in S : IsPrefix(from, p)}
        moved    == Below(DOMAIN entries)
        subdirs  == [p \in dirs |-> TRUE]
    IN  /\ ~closed
        /\ ValidComponents(from, FALSE) /\ ValidComponents(to, TRUE)
        /\ to \notin DOMAIN entries
        /\ ~OpenAtOrBelow(from) /\ ~OpenAtOrBelow(to)
        /\ ParentKnown(to)
        /\ ReplacementsClean(moved, from, to)
        /\ moved # {}
        /\ ~IsPrefix(from, to)
        /\ dirs' = DOMAIN Rekey(subdirs, Below(dirs), from, to)
        /\ data' = Rekey(data, Below(DOMAIN data), from, to)
        /\ RekeyAccount(moved, from, to)
        /\ UNCHANGED <<files, bytes, openVars, closed, dirWritten>>

Unlink(p) ==
    /\ ~closed /\ ValidComponents(p, FALSE)
    /\ p \in DOMAIN entries /\ entries[p] = "file" /\ Lookup(open, p) = 0
    /\ data' = Drop(data, p)
    /\ files' = files - 1 /\ bytes' = bytes - Lookup(sizes, p)
    /\ entries' = Drop(entries, p) /\ sizes' = Drop(sizes, p)
    /\ UNCHANGED <<dirs, openVars, closed, dirWritten>>

\* Rmdir.  The Host refuses a directory that is not empty.
Rmdir(p) ==
    /\ ~closed /\ ValidComponents(p, FALSE)
    /\ p \in DOMAIN entries /\ entries[p] = "dir" /\ ~OpenAtOrBelow(p)
    /\ \A q \in OnDisk : ~IsStrictPrefix(p, q)
    /\ dirs' = dirs \ {p}
    /\ files' = files - 1
    /\ entries' = Drop(entries, p)
    /\ UNCHANGED <<data, sizes, bytes, openVars, closed, dirWritten>>

-----------------------------------------------------------------------------
(* Operations on handles.                                                   *)

\* Variant: the last byte of the quota is given out twice.
ReservableOffByOne(p, end) ==
    LET current == Lookup(sizes, p)
    IN  \/ end <= current
        \/ /\ end <= MaxFileBytes /\ bytes <= MaxBytes
           /\ end - current <= MaxBytes - bytes + 1

\* reserveSize: the file may grow to end.
Reservable(p, end) ==
    LET current == Lookup(sizes, p)
    IN  \/ end <= current
        \/ /\ end <= MaxFileBytes /\ bytes <= MaxBytes
           /\ end - current <= MaxBytes - bytes

\* reconcileSize: the account gets the size that Stat reports, or the one it had
\* before if Stat fails, whatever was reserved for the write.
Reconcile(p, reserved, actual) ==
    /\ sizes' = Put(sizes, p, actual)
    /\ bytes' = (bytes + reserved - Lookup(sizes, p)) + actual - reserved

\* The common part of Write and Pwrite: room for len bytes at offset, and n bytes
\* that arrive, at the position at.  A write to a directory fails, and Stat
\* reports the directory's own size.
WriteBytes(h, offset, at, len, n) ==
    LET p       == handle[h].name
        current == Lookup(sizes, p)
        end     == offset + len
    IN  /\ offset <= current /\ Reservable(p, end)
        /\ n > 0 => p \in DOMAIN data
        /\ data' = IF n > 0 THEN [data EXCEPT ![p] = Max({@, at + n})] ELSE data
        /\ LET stat == IF p \in DOMAIN data THEN data'[p] ELSE DirSize
           IN  \E actual \in {stat} \cup (IF StatMayFail THEN {current} ELSE {}) :
                   Reconcile(p, Max({current, end}), actual)
        /\ dirWritten' = (dirWritten \/ p \notin DOMAIN data)
        /\ UNCHANGED <<dirs, entries, files, openVars, closed>>

\* Write at the position the Guest has sought.  In append mode the Host writes at
\* the end of the file, and the room is taken at the end of the account's.
Write(h, position, len, n) ==
    /\ h \in DOMAIN handle /\ ~closed
    /\ LET p == handle[h].name
       IN  IF handle[h].append
           THEN WriteBytes(h, Lookup(sizes, p), Lookup(data, p), len, n)
           ELSE WriteBytes(h, position, position, len, n)

\* Pwrite, which the Host refuses for a file opened in append mode.
Pwrite(h, offset, len, n) ==
    /\ h \in DOMAIN handle /\ ~closed
    /\ handle[h].append => n = 0
    /\ WriteBytes(h, offset, offset, len, n)

\* Truncate only makes a file shorter; the Host refuses it for a directory.
Truncate(h, size) ==
    LET p == handle[h].name
    IN  /\ h \in DOMAIN handle /\ ~closed
        /\ size <= Lookup(sizes, p)
        /\ p \in DOMAIN data
        /\ data' = [data EXCEPT ![p] = size]
        /\ bytes' = bytes - (Lookup(sizes, p) - size)
        /\ sizes' = Put(sizes, p, size)
        /\ UNCHANGED <<dirs, entries, files, openVars, closed, dirWritten>>

SetAppend(h, enabled) ==
    /\ h \in DOMAIN handle
    /\ handle' = [handle EXCEPT ![h] = [name |-> @.name, append |-> enabled]]
    /\ UNCHANGED <<diskVars, usageVars, open, closed, dirWritten>>

\* quotaFile.Close.
Close(h) ==
    LET p == handle[h].name
    IN  /\ h \in DOMAIN handle
        /\ open' = IF Lookup(open, p) <= 1 THEN Drop(open, p) ELSE [open EXCEPT ![p] = @ - 1]
        /\ handle' = Drop(handle, h)
        /\ UNCHANGED <<diskVars, usageVars, closed, dirWritten>>

-----------------------------------------------------------------------------
Next ==
    \/ Release \/ Acquire
    \/ \E p \in Path : Mkdir(p) \/ Unlink(p) \/ Rmdir(p)
    \/ \E from, to \in Path : Rename(from, to)
    \/ \E h \in Handle, p \in Path \cup {Root}, creating, trunc, append \in BOOLEAN :
           OpenFile(h, p, creating, trunc, append)
    \/ \E h \in Handle, offset \in 0..MaxFileBytes, len \in 1..MaxLen : \E n \in 0..len :
           Write(h, offset, len, n) \/ Pwrite(h, offset, len, n)
    \/ \E h \in Handle :
           \/ \E size \in 0..MaxFileBytes : Truncate(h, size)
           \/ \E enabled \in BOOLEAN : SetAppend(h, enabled)
           \/ Close(h)

Spec == Init /\ [][Next]_vars

-----------------------------------------------------------------------------
(* Properties.                                                              *)

\* The tree never passes a limit, the path depth included, so no scan of it is
\* ever refused: a Guest cannot make its workspace unreadable to Snapshot or to
\* the next Acquire, neither by writes nor by moving a directory deeper.
WithinLimits == ScanAccepts

\* The account knows every entry of the tree, its kind, and the size of every
\* file, through renames of whole directories, partial writes and truncation.
UsageCovers ==
    /\ entries = ScanEntries
    /\ files = Cardinality(DOMAIN entries)
    /\ \A p \in DOMAIN data : p \in DOMAIN sizes /\ sizes[p] = data[p]

\* What a failed or partial write reserved comes back, so the account does not
\* drift from the disk, unless the Guest wrote to a directory's handle, which
\* charges it with the directory's own size.
BytesExact == bytes >= Total(data) /\ (~dirWritten => bytes = Total(data))

\* A path with an open handle keeps its entry, so that a write through the
\* handle is charged to the file it goes to.
HandlesNameFiles ==
    /\ \A h \in DOMAIN handle : handle[h].name \in OnDisk
    /\ \A p \in Path \cup {Root} :
           Lookup(open, p) = Cardinality({h \in DOMAIN handle : handle[h].name = p})

\* The account that every limit is enforced with is true of the tree, after any
\* sequence of calls through any handles: no entry, size or byte is missed,
\* charged twice, given back twice or charged to another file.
AccountExact == UsageCovers /\ BytesExact /\ HandlesNameFiles
=============================================================================
