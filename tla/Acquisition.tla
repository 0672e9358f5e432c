------------------------------ MODULE Acquisition ------------------------------
(***************************************************************************)
(* The acquisition of a live Source (core/src/acquisition.ts) while the    *)
(* browser goes on writing it, and what the verification of the Case       *)
(* (core/src/verify.ts) makes of the result.                               *)
(*                                                                         *)
(* The Source is a tree of named files and directories.  All that a stat   *)
(* tells of a node is its version: it is new after a write, and for a      *)
(* directory after an entry was made or removed in it.  A version also     *)
(* stands for the bytes of the file.                                       *)
(***************************************************************************)
EXTENDS Naturals, Sequences, SequencesExt

CONSTANTS
    Root,
    Files, Dirs,    \* the paths that are files, and directories, when there
    Parent,         \* the directory of each path
    Order,          \* sortNames
    Profiles,       \* the top-level directories named like a Profile
    Expected,       \* the Tier 1 paths of which the Manifest has an entry
    Copyable,       \* the files that the Selection Policy copies
    Faulty,         \* where system calls may fail
    MaxChanges      \* bound on what the browser does

Paths == Files \cup Dirs
Nodes == Paths \cup {Root}
Attempts == 2       \* ROOT_SCAN_ATTEMPTS
NoNode == [path |-> Root, ver |-> 0]

ASSUME TreeAssumption ==
    /\ Root \notin Paths /\ Files \cap Dirs = {}
    /\ Parent \in [Paths -> Dirs \cup {Root}] /\ Order \in [Paths -> Nat]
    /\ Profiles \subseteq {d \in Dirs : Parent[d] = Root}
    /\ Expected \subseteq Files /\ Copyable \subseteq Files /\ Faulty \subseteq Paths
    /\ MaxChanges \in Nat

VARIABLES
    src,       \* the paths that exist in the Source
    ver,       \* the version of each node, from 1
    changes,
    attempt,   \* of acquireDirectory
    stack,     \* the directories being walked, from the root down
    look,      \* the lstat of the node to inspect next, or NoNode
    entries,   \* the entries so far, by path
    profiles,  \* profilePaths: the Profiles met
    copies,    \* Working Copy: the version of each file in it
    dirs,      \* Working Copy: its directories
    result,
    start      \* history: src and ver when the attempt began

sourceVars == <<src, ver, changes>>
vars == <<src, ver, changes, attempt, stack, look, entries, profiles, copies, dirs,
          result, start>>

Children(S, d) == {p \in S : Parent[p] = d}

\* The directories above p: the least set with its own, and with that of each
\* directory in it.
ClosedUp(S)  == \A d \in S : Parent[d] \in S \cup {Root}
Ancestors(p) == {d \in Dirs : \A S \in SUBSET Dirs :
                     ClosedUp(S) /\ Parent[p] \in S \cup {Root} => d \in S}

\* Each path is somewhere below the root.
ASSUME RootAssumption == \A p \in Paths : \E q \in {p} \cup Ancestors(p) : Parent[q] = Root

Within(d)    == {p \in Paths : p = d \/ d \in Ancestors(p)}
Without(f, S) == [p \in DOMAIN f \ S |-> f[p]]
With(f, p, x) == [q \in DOMAIN f \cup {p} |-> IF q = p THEN x ELSE f[q]]

Empty == [p \in {} |-> 0]
Entry(state, type, copied, v) ==
    [state |-> state, type |-> type, copied |-> copied, ver |-> v]
Unavailable(type) == Entry("unavailable", type, FALSE, 0)

Init ==
    /\ src \in {S \in SUBSET Paths : \A p \in S : Ancestors(p) \subseteq S}
    /\ ver = [n \in Nodes |-> 1] /\ changes = 0
    /\ attempt = 1 /\ result = "scanning"
    /\ stack = << >> /\ look = [path |-> Root, ver |-> ver[Root]]
    /\ entries = Empty /\ profiles = {} /\ copies = Empty /\ dirs = {}
    /\ start = [src |-> src, ver |-> ver]

--------------------------------------------------------------------------------
(* The browser.                                                            *)

Change(S, touched) ==
    /\ result = "scanning" /\ changes < MaxChanges
    /\ src' = S /\ ver' = [n \in Nodes |-> IF n \in touched THEN ver[n] + 1 ELSE ver[n]]
    /\ changes' = changes + 1
    /\ UNCHANGED <<attempt, stack, look, entries, profiles, copies, dirs, result, start>>

WriteFile(p)  == p \in src \cap Files /\ Change(src, {p})
CreateNode(p) == /\ p \in Paths \ src /\ Ancestors(p) \subseteq src
                 /\ Change(src \cup {p}, {p, Parent[p]})
RemoveNode(p) == /\ p \in src /\ Children(src, p) = {}
                 /\ Change(src \ {p}, {p, Parent[p]})

Browser == \E p \in Paths : WriteFile(p) \/ CreateNode(p) \/ RemoveNode(p)

--------------------------------------------------------------------------------
(* The walk.                                                               *)

Top == Last(stack)
NextName(p) == p \in Top.todo /\ \A q \in Top.todo : Order[p] <= Order[q]
Took(p) == [stack EXCEPT ![Len(stack)].todo = @ \ {p}]

\* inspectNode: lstat of the next name.
Lstat(p) ==
    /\ look = NoNode /\ stack # << >> /\ NextName(p)
    /\ p \in src
    /\ look' = [path |-> p, ver |-> ver[p]]
    /\ stack' = Took(p)
    /\ UNCHANGED <<sourceVars, attempt, entries, profiles, copies, dirs, result, start>>

\* When it fails, the entry says `file`, whatever the node is.
LstatFails(p) ==
    /\ look = NoNode /\ stack # << >> /\ NextName(p)
    /\ p \notin src \/ p \in Faulty
    /\ entries' = With(entries, p, Unavailable("file"))
    /\ stack' = Took(p)
    /\ UNCHANGED <<sourceVars, attempt, look, profiles, copies, dirs, result, start>>

Stable_OpenOnly(p) == p \in src

\* readStableRegularFile: opened and read to the end under one version.
Stable(p) == p \in src /\ ver[p] = look.ver

EmptyParents_All(p) == Ancestors(p)

EmptyParents_None(p) == {}

\* The directories that a failed copy made, and any of its parents that are
\* empty, are removed again.
EmptyParents(p) ==
    {d \in Ancestors(p) : \A q \in DOMAIN copies \cup (dirs \ Ancestors(p)) : d \notin Ancestors(q)}

\* inspectFile, for a file that is not copied digests it only.
ReadFile(p) ==
    /\ look.path = p /\ p \in Files /\ Stable(p)
    /\ entries' = With(entries, p, Entry("value", "file", p \in Copyable, look.ver))
    /\ IF p \in Copyable
       THEN copies' = With(copies, p, ver[p]) /\ dirs' = dirs \cup Ancestors(p)
       ELSE UNCHANGED <<copies, dirs>>
    /\ look' = NoNode
    /\ UNCHANGED <<sourceVars, attempt, stack, profiles, result, start>>

ReadFileFails(p) ==
    /\ look.path = p /\ p \in Files /\ (~Stable(p) \/ p \in Faulty)
    /\ entries' = With(entries, p, Unavailable("file"))
    /\ dirs' = IF p \in Copyable THEN (dirs \cup Ancestors(p)) \ EmptyParents(p) ELSE dirs
    /\ look' = NoNode
    /\ UNCHANGED <<sourceVars, attempt, stack, profiles, copies, result, start>>

Discard_FromStart(d) ==
    /\ entries' = With(Empty, d, Unavailable("dir"))
    /\ copies' = Without(copies, Within(d))
    /\ dirs' = dirs \ Within(d)

Discard_EntryOnly(d) ==
    /\ entries' = With(entries, d, Unavailable("dir"))
    /\ copies' = Without(copies, Within(d))
    /\ dirs' = dirs \ Within(d)

\* discardDirectoryObservation forgets what was seen in d and removes its copy,
\* but not the directories above it.
Discard(d) ==
    /\ entries' = With(Without(entries, Within(d)), d, Unavailable("dir"))
    /\ copies' = Without(copies, Within(d))
    /\ dirs' = dirs \ Within(d)

Push(d) ==
    stack' = Append(stack, [dir |-> d, ver |-> look.ver,
                            names |-> Children(src, d), todo |-> Children(src, d)])

\* scanOnce lists the root,
ReadRoot ==
    /\ look # NoNode /\ look.path = Root
    /\ Push(Root) /\ look' = NoNode
    /\ UNCHANGED <<sourceVars, attempt, entries, profiles, copies, dirs, result, start>>

\* inspectDirectory a directory.
ReadDirectory(d) ==
    /\ look.path = d /\ d \in Dirs \cap src
    /\ entries' = With(entries, d, Entry("value", "dir", FALSE, look.ver))
    /\ profiles' = profiles \cup ({d} \cap Profiles)
    /\ Push(d) /\ look' = NoNode
    /\ UNCHANGED <<sourceVars, attempt, copies, dirs, result, start>>

ReadDirectoryFails(d) ==
    /\ look.path = d /\ d \in Dirs /\ (d \notin src \/ d \in Faulty)
    /\ profiles' = profiles \cup ({d} \cap Profiles)
    /\ Discard(d) /\ look' = NoNode
    /\ UNCHANGED <<sourceVars, attempt, stack, result, start>>

Unchanged_Unchecked(frame) == frame.dir \in src \cup {Root}

\* The second lstat and readdir find what the first did.
Unchanged(frame) ==
    /\ frame.dir \in src \cup {Root}
    /\ ver[frame.dir] = frame.ver /\ Children(src, frame.dir) = frame.names

FinishDirectory ==
    /\ look = NoNode /\ Len(stack) > 1 /\ Top.todo = {}
    /\ \/ Unchanged(Top) /\ UNCHANGED <<entries, copies, dirs>>
       \/ (~Unchanged(Top) \/ Top.dir \in Faulty) /\ Discard(Top.dir)
    /\ stack' = Front(stack)
    /\ UNCHANGED <<sourceVars, attempt, look, profiles, result, start>>

--------------------------------------------------------------------------------
\* hasUnavailableParent asks for an entry of a directory.
HasUnavailableParent(p) ==
    \E d \in Ancestors(p) \cap DOMAIN entries :
        entries[d].state = "unavailable" /\ entries[d].type = "dir"

\* addExpectedEntries: browser-level paths, and those of each Profile met.
ExpectedNow == {p \in Expected : Parent[p] = Root \/ Ancestors(p) \cap profiles # {}}

WithExpected ==
    [p \in DOMAIN entries \cup ExpectedNow |->
        IF p \in DOMAIN entries THEN entries[p]
        ELSE IF HasUnavailableParent(p) THEN Unavailable("file")
        ELSE Entry("absent", "absent", FALSE, 0)]

RootWalked == look = NoNode /\ Len(stack) = 1 /\ Top.todo = {}

FinishScan ==
    /\ RootWalked /\ result = "scanning" /\ Unchanged(Top)
    /\ entries' = WithExpected
    /\ result' = "acquired"
    /\ UNCHANGED <<sourceVars, attempt, stack, look, profiles, copies, dirs, start>>

\* SourceRootChanged: once more, with an empty Working Copy,
Retry ==
    /\ RootWalked /\ result = "scanning" /\ ~Unchanged(Top) /\ attempt < Attempts
    /\ attempt' = attempt + 1
    /\ stack' = << >> /\ look' = [path |-> Root, ver |-> ver[Root]]
    /\ entries' = Empty /\ profiles' = {} /\ copies' = Empty /\ dirs' = {}
    /\ start' = [src |-> src, ver |-> ver]
    /\ UNCHANGED <<sourceVars, result>>

\* then INGEST_FAILED.
GiveUp ==
    /\ RootWalked /\ result = "scanning" /\ ~Unchanged(Top) /\ attempt = Attempts
    /\ result' = "failed"
    /\ UNCHANGED <<sourceVars, attempt, stack, look, entries, profiles, copies, dirs, start>>

\* What the Manifest cannot express, or an error in the Working Copy, ends it at
\* once.
Abort ==
    /\ result = "scanning"
    /\ result' = "failed" /\ stack' = << >> /\ look' = NoNode
    /\ UNCHANGED <<sourceVars, attempt, entries, profiles, copies, dirs, start>>

Scan ==
    \/ Abort
    \/ ReadRoot \/ FinishDirectory \/ FinishScan \/ Retry \/ GiveUp
    \/ \E p \in Paths : \/ Lstat(p) \/ LstatFails(p) \/ ReadFile(p) \/ ReadFileFails(p)
                        \/ ReadDirectory(p) \/ ReadDirectoryFails(p)

Done == result # "scanning" /\ UNCHANGED vars

Next == Browser \/ Scan \/ Done

Spec == Init /\ [][Next]_vars

--------------------------------------------------------------------------------
(* verify.ts: what verifySource finds wrong with the Working Copy.         *)

CopiedEntries == {p \in DOMAIN entries : entries[p].copied}

AllowedWorkingDirectories == UNION {Ancestors(p) : p \in CopiedEntries}

EntryIssues ==
    {p \in CopiedEntries : p \notin DOMAIN copies \/ copies[p] # entries[p].ver}

\* findUnexpectedEntries does not go below the directory it reports first.
UnexpectedEntries ==
    (DOMAIN copies \ CopiedEntries) \cup (dirs \ AllowedWorkingDirectories)

Issues == EntryIssues \cup UnexpectedEntries

--------------------------------------------------------------------------------
Versions == 0..(MaxChanges + 1)
EntryType == [state : {"value", "absent", "unavailable"}, type : {"file", "dir", "absent"},
              copied : BOOLEAN, ver : Versions]
Frame == [dir : Dirs \cup {Root}, ver : Versions, names : SUBSET Paths, todo : SUBSET Paths]

\* Every variable has its type, the frames are a path from the root down, and
\* every file in the Working Copy is in a directory of it.
TypeOK ==
    /\ src \subseteq Paths /\ ver \in [Nodes -> Versions] /\ changes \in 0..MaxChanges
    /\ attempt \in 1..Attempts /\ result \in {"scanning", "acquired", "failed"}
    /\ \A i \in DOMAIN stack : stack[i] \in Frame
    /\ \A i \in 2..Len(stack) : Parent[stack[i].dir] = stack[i - 1].dir
    /\ look \in [path : Nodes, ver : Versions]
    /\ \A p \in DOMAIN entries : p \in Paths /\ entries[p] \in EntryType
    /\ profiles \subseteq Profiles /\ dirs \subseteq Dirs
    /\ DOMAIN copies \subseteq Copyable
    /\ \A p \in DOMAIN copies : copies[p] \in Versions /\ Ancestors(p) \subseteq dirs

\* Every copied entry has its file, with the bytes of the version that the entry
\* gives the size and time of, and every file its entry, whatever changed, was
\* discarded or was retried on the way.
CopiedAsRecorded ==
    result = "acquired" => EntryIssues = {} /\ DOMAIN copies = CopiedEntries

\* A Case whose Manifest has lost no directory passes verification.
VerifiesUnlessLost ==
    result = "acquired" /\ (\A d \in DOMAIN entries \cap Dirs : entries[d].state = "value")
        => Issues = {}

\* Evidence is never kept from a directory that could not be read as a whole.
NoValueUnderLost ==
    \A p \in DOMAIN entries : entries[p].state = "value" =>
        \A d \in Ancestors(p) : d \in DOMAIN entries /\ entries[d].state = "value"

\* What nobody touched and nothing hindered is acquired: if neither a file nor
\* a directory above it has changed since the attempt began, it has its value,
\* and its copy if the policy copies it, whatever happened elsewhere.
Untouched(p) ==
    \A q \in {p} \cup Ancestors(p) : q \notin Faulty /\ ver[q] = start.ver[q]

StillIsAcquired ==
    result = "acquired" =>
        \A p \in Files \cap start.src : Untouched(p) =>
            /\ p \in DOMAIN entries /\ entries[p].state = "value"
            /\ p \in Copyable => p \in DOMAIN copies /\ copies[p] = start.ver[p]

\* The Manifest is whole where it says it is: when the scan of a directory ends
\* and keeps it, and when that of the root does, it has an entry for each name
\* that is there and for no other, but for those it calls absent.
Listed(d) == {p \in DOMAIN entries : Parent[p] = d /\ entries[p].state # "absent"}

Keeps(d) ==
    \/ d = Root /\ result = "scanning" /\ result' = "acquired"
    \/ /\ Len(stack) > 1 /\ Top.dir = d /\ stack' = Front(stack)
       /\ d \in DOMAIN entries' /\ entries'[d].state = "value"

ListsWhatIsThere ==
    [][\A d \in Dirs \cup {Root} : Keeps(d) => Listed(d)' = Children(src, d)]_vars

\* "The Working Copy must hold only the directories of copied entries:
\* verification refuses any other directory" (acquisition.ts:138-139).
OnlyCopiedDirectories ==
    result = "acquired" => dirs \subseteq AllowedWorkingDirectories

\* "A failed read is not an absent entry" (contracts/manifest/README.md:56): what
\* is below a node that could not be read is not known to be absent.
AbsentIsKnown ==
    result = "acquired" =>
        \A p \in DOMAIN entries : entries[p].state = "absent" =>
            \A d \in Ancestors(p) \cap DOMAIN entries : entries[d].state # "unavailable"
================================================================================
