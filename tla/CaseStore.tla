------------------------------- MODULE CaseStore -------------------------------
(***************************************************************************)
(* One Case, and the processes that use it at the same time: analyse and   *)
(* serve, which take the Case lock, and the query, export and report       *)
(* commands, which take none.  The model covers                            *)
(*                                                                         *)
(*   - the Case lock and the holder note beside it (core/src/case-lock.ts);*)
(*   - an Analysis Run from the first verification of the Working Copy to  *)
(*     the release of the lock (core/src/analyse-case.ts);                 *)
(*   - its transaction, the commit and the checkpoint that makes it        *)
(*     visible (storeAnalysisWrites, core/src/case-findings.ts);           *)
(*   - readers, which open the database immutable and see its main file    *)
(*     only, never the write-ahead log (core/src/case.ts);                 *)
(*   - the death of any process at any step, and changes an outsider makes *)
(*     to the Working Copy.                                                *)
(*                                                                         *)
(* SQLite is modelled by what this code relies on.  `committed` is the     *)
(* content of main file plus log, `main` that of the main file alone; a    *)
(* checkpoint brings one up to the other a page at a time, in any order,   *)
(* and a reader takes the main file a page at a time, in any order.  The   *)
(* pages of the model are the result rows of an artifact, its record rows, *)
(* and the run rows; where SQLite needs several for one of them, more torn *)
(* states exist, of which no property below says that they do not.         *)
(***************************************************************************)
EXTENDS Naturals, Sequences, FiniteSets

CONSTANTS
    Analyses, Serves, Readers,  \* processes: analyse, serve, lock-free readers
    NoProc,
    Keys,         \* artifacts read from Working Copy files
    Primary,      \* those of Keys that decide the exit state: the SQLite stores
    Direct,       \* those of Keys that are parsed in place: the cache
    Absences,     \* the sets of Keys that a Manifest may record as absent
    Derived,      \* the Candidates artifacts, one per (Source, Profile)
    Feeds,        \* Feeds[d]: the artifacts that Candidates artifact d reads
    Runs,         \* the page of the Analysis Runs
    Order,        \* the order in which an analysis handles artifacts
    MaxRuns,      \* bound on the stored runs
    CrashPhases,  \* the phases in which a process may be killed
    OutsiderHolds,  \* whether another program may hold the database open
    Tamperable    \* the Working Copy files that an outsider changes

Results == Keys \cup Derived
RecordsOf(t) == <<t, "records">>
Records == {RecordsOf(t) : t \in Results}
Pages   == Results \cup Records \cup {Runs}
Lockers == Analyses \cup Serves
Viewers == Serves \cup Readers
Procs   == Analyses \cup Serves \cup Readers

Status     == {"complete", "absent", "unavailable"}
Stock      == {"stored", "none"}
ExitStates == {"complete", "partial", "failed"}

AnalysePhases == {"verify", "read", "reverify", "store", "stored",
                  "checkpoint", "close", "closing", "done"}
ServePhases   == {"bind", "serving"}
ReaderPhases  == {"reading"}
Holding == AnalysePhases \cup ServePhases \cup {"noting", "release"}
Phases  == Holding \cup ReaderPhases \cup {"idle", "contending", "refusing"}

ASSUME ProcsAssumption ==
    /\ NoProc \notin Procs
    /\ Analyses \cap Serves = {} /\ Analyses \cap Readers = {}
    /\ Serves \cap Readers = {}
ASSUME PagesAssumption ==
    /\ Runs \notin Results \cup Records /\ Results \cap Records = {}
    /\ Keys \cap Derived = {}
    /\ Primary \subseteq Keys /\ Direct \subseteq Keys
    /\ Absences \subseteq SUBSET Keys
    /\ Feeds \in [Derived -> SUBSET Keys] /\ Order \in [Results -> Nat]
ASSUME BoundsAssumption ==
    /\ MaxRuns \in Nat /\ CrashPhases \subseteq Phases
    /\ OutsiderHolds \in BOOLEAN /\ Tamperable \subseteq Keys

VARIABLES
    lock,       \* owner of the exclusive transaction on the lock database
    note,       \* whose holder note is in <lock>.holder.json
    blocker,    \* blocker[p]: who held the lock when p found it busy
    phase,      \* phase[p]: where p is
    todo,       \* todo[p]: what is left to do in that phase
    missing,    \* artifacts that the Manifest records as absent
    altered,    \* Working Copy files that differ from the Manifest now
    outcome,    \* outcome[a][t]: what analysis a found for artifact t
    snapshot,   \* snapshot[a]: the private copy a parses next, or NoSnapshot
    tainted,    \* tainted[a]: artifacts that a parsed from altered bytes
    txn,        \* the image that the open transaction has built
    committed,  \* main file and write-ahead log together
    main,       \* the main file alone: all that immutable readers see
    view        \* view[v]: the pages reader v has read in this request

lockVars  == <<lock, note, blocker>>
storeVars == <<txn, committed, main>>
readVars  == <<missing, altered, outcome, snapshot, tainted>>
vars == <<lock, note, blocker, phase, todo, missing, altered, outcome, snapshot,
          tainted, txn, committed, main, view>>

EmptyPage == [rows |-> << >>, active |-> {}]
EmptyImage == [t \in Pages |-> EmptyPage]
RunPage(rows) == [rows |-> rows, active |-> {}]
Unread     == [t \in Results |-> "unavailable"]
NoView     == [t \in {} |-> EmptyPage]
NoSnapshot == << >>

Stored(image) == Len(image[Runs].rows)
Behind(a, b)  == {t \in Pages : a[t] # b[t]}

Init ==
    /\ lock = NoProc /\ note = NoProc
    /\ blocker = [p \in Procs |-> NoProc]
    /\ phase = [p \in Procs |-> "idle"]
    /\ todo = [p \in Procs |-> {}]
    /\ missing \in Absences /\ altered = {}
    /\ outcome = [a \in Analyses |-> Unread]
    /\ snapshot = [a \in Analyses |-> NoSnapshot]
    /\ tainted = [a \in Analyses |-> {}]
    /\ txn = EmptyImage /\ committed = EmptyImage /\ main = EmptyImage
    /\ view = [v \in Viewers |-> NoView]

Enter(p, ph, work) ==
    /\ phase' = [phase EXCEPT ![p] = ph]
    /\ todo' = [todo EXCEPT ![p] = work]

\* What an analysis keeps in memory goes when it has stored or given up.
Forget(p) ==
    /\ outcome' = [a \in Analyses |-> IF a = p THEN Unread ELSE outcome[a]]
    /\ snapshot' = [a \in Analyses |-> IF a = p THEN NoSnapshot ELSE snapshot[a]]
    /\ tainted' = [a \in Analyses |-> IF a = p THEN {} ELSE tainted[a]]
    /\ UNCHANGED <<missing, altered>>

GiveUp(a) == Enter(a, "release", {}) /\ Forget(a)

Did(p, t) ==
    /\ t \in todo[p]
    /\ todo' = [todo EXCEPT ![p] = @ \ {t}]
    /\ UNCHANGED phase

\* The loops over artifacts run in a fixed order.
IsNext(p, t) == t \in todo[p] /\ \A u \in todo[p] : Order[t] <= Order[u]

DidNext(p, t) == IsNext(p, t) /\ Did(p, t)

--------------------------------------------------------------------------------
(* The Case lock.                                                          *)

(* Definitions named <Operation>_<fault> are seeded faults: the checks replace *)
(* the operation by each of them to show that a property notices.          *)

Contend_ServeUnlocked(p) ==
    /\ phase[p] = "idle"
    /\ IF p \in Serves THEN Enter(p, "bind", {}) ELSE Enter(p, "contending", {})
    /\ UNCHANGED <<lockVars, readVars, storeVars, view>>

\* acquireCaseLock opens the lock database.
Contend(p) ==
    /\ phase[p] = "idle"
    /\ Enter(p, "contending", {})
    /\ UNCHANGED <<lockVars, readVars, storeVars, view>>

BeginExclusive_Deferred(p) ==
    /\ phase[p] = "contending"
    /\ lock' = p
    /\ Enter(p, "noting", {})
    /\ UNCHANGED <<note, blocker, readVars, storeVars, view>>

\* BEGIN EXCLUSIVE succeeds, at once or within the busy timeout.
BeginExclusive(p) ==
    /\ phase[p] = "contending"
    /\ lock = NoProc
    /\ lock' = p
    /\ Enter(p, "noting", {})
    /\ UNCHANGED <<note, blocker, readVars, storeVars, view>>

LockBusy_NoTimeout(p) == FALSE

\* The timeout ends with the lock still held: SQLITE_BUSY.
LockBusy(p) ==
    /\ phase[p] = "contending"
    /\ lock # NoProc
    /\ blocker' = [blocker EXCEPT ![p] = lock]
    /\ Enter(p, "refusing", {})
    /\ UNCHANGED <<lock, note, readVars, storeVars, view>>

\* The refused process then reads the holder note, which the CASE_IN_USE error
\* repeats, and stops.
ReadHolder(p) ==
    /\ phase[p] = "refusing"
    /\ blocker' = [blocker EXCEPT ![p] = NoProc]
    /\ Enter(p, "idle", {})
    /\ UNCHANGED <<lock, note, readVars, storeVars, view>>

\* The new owner writes its note only after it has the lock.  (A note that
\* cannot be written ends the process with the lock held: see Crash.)
WriteHolder(p) ==
    /\ phase[p] = "noting"
    /\ note' = p
    /\ IF p \in Analyses THEN Enter(p, "verify", Keys) ELSE Enter(p, "bind", {})
    /\ UNCHANGED <<lock, blocker, readVars, storeVars, view>>

Release_OnSuccessOnly(p) ==
    /\ phase[p] = "done"
    /\ lock' = NoProc
    /\ Enter(p, "idle", {})
    /\ UNCHANGED <<note, blocker, readVars, storeVars, view>>

\* release(): the note stays behind.
Release(p) ==
    /\ phase[p] \in {"release", "done"}
    /\ lock' = NoProc
    /\ Enter(p, "idle", {})
    /\ UNCHANGED <<note, blocker, readVars, storeVars, view>>

--------------------------------------------------------------------------------
(* An Analysis Run up to its transaction.                                  *)

\* verifyWorkingCopy compares one copied file with the Manifest.
VerifyFile(a, k) ==
    /\ phase[a] \in {"verify", "reverify"}
    /\ k \notin altered
    /\ DidNext(a, k)
    /\ UNCHANGED <<lockVars, readVars, storeVars, view>>

\* Verification finds a file that differs: a WorkingCopyIntegrityRefusal ends
\* the analysis before anything is stored.  (The code first lists every other
\* difference too, which changes nothing here.)
IntegrityRefusal(a, k) ==
    /\ phase[a] \in {"verify", "reverify"}
    /\ IsNext(a, k) /\ k \in altered
    /\ GiveUp(a)
    /\ UNCHANGED <<lockVars, storeVars, view>>

StartReading(a) ==
    /\ phase[a] = "verify" /\ todo[a] = {}
    /\ Enter(a, "read", Keys)
    /\ UNCHANGED <<lockVars, readVars, storeVars, view>>

\* An artifact is settled without its bytes: the Manifest has it as absent, or
\* as unavailable, or the content is of a kind that is not parsed.
SkipArtifact(a, k) ==
    /\ phase[a] = "read" /\ snapshot[a] = NoSnapshot
    /\ outcome' = [outcome EXCEPT ![a][k] =
                      IF k \in missing THEN "absent" ELSE "unavailable"]
    /\ DidNext(a, k)
    /\ UNCHANGED <<lockVars, missing, altered, snapshot, tainted, storeVars, view>>

\* snapshotVerifiedFile, readVerifiedJsonFile: the file is copied and hashed in
\* one pass,
Bytes(k) == IF k \in altered THEN "altered" ELSE "manifest"

SnapshotFile(a, k) ==
    /\ phase[a] = "read" /\ snapshot[a] = NoSnapshot
    /\ IsNext(a, k) /\ k \notin missing \cup Direct
    /\ snapshot' = [snapshot EXCEPT ![a] = <<k, Bytes(k)>>]
    /\ UNCHANGED <<lockVars, phase, todo, missing, altered, outcome, tainted,
                   storeVars, view>>

\* a copy that is not what the Manifest records ends the analysis,
SnapshotDrifted(a) == snapshot[a] # NoSnapshot /\ snapshot[a][2] # "manifest"

SnapshotRefused(a) ==
    /\ phase[a] = "read" /\ SnapshotDrifted(a)
    /\ GiveUp(a)
    /\ UNCHANGED <<lockVars, storeVars, view>>

ParsedBytes_OfFile(a, k) == Bytes(k)

\* and the copy, not the file, is parsed.
ParsedBytes(a, k) == snapshot[a][2]

Parse(a, k, bytes) ==
    /\ \E s \in {"complete", "unavailable"} :
           outcome' = [outcome EXCEPT ![a][k] = s]
    /\ tainted' = [tainted EXCEPT ![a] = IF bytes = "altered" THEN @ \cup {k} ELSE @]
    /\ DidNext(a, k)

AnalyseArtifact(a, k) ==
    /\ phase[a] = "read"
    /\ snapshot[a] # NoSnapshot /\ snapshot[a][1] = k /\ ~SnapshotDrifted(a)
    /\ Parse(a, k, ParsedBytes(a, k))
    /\ snapshot' = [snapshot EXCEPT ![a] = NoSnapshot]
    /\ UNCHANGED <<lockVars, missing, altered, storeVars, view>>

\* readHead and readWhole of the cache: the Working Copy file itself is parsed,
\* as it is at that moment, with neither copy nor digest.
ParseInPlace(a, k) ==
    /\ phase[a] = "read" /\ snapshot[a] = NoSnapshot
    /\ k \in Direct \ missing
    /\ Parse(a, k, Bytes(k))
    /\ UNCHANGED <<lockVars, missing, altered, snapshot, storeVars, view>>

DescribeInputs_All(d, found) ==
    IF \A k \in Feeds[d] : found[k] = "complete" THEN "complete" ELSE "unavailable"

DescribeInputs_NotApplicable(d, found) ==
    IF \E k \in Feeds[d] : found[k] = "complete" THEN "complete" ELSE "not_applicable"

\* describeInputs: complete when an input was produced; otherwise unavailable
\* when one failed, and absent when none is there.
DescribeInputs(d, found) ==
    LET inputs == {found[k] : k \in Feeds[d]}
    IN  IF "complete" \in inputs THEN "complete"
        ELSE IF "unavailable" \in inputs THEN "unavailable" ELSE "absent"

\* generateCaseCandidates works on the artifacts of this run, in memory; then
\* the Working Copy is verified a second time.
GenerateCaseCandidates(a) ==
    /\ phase[a] = "read" /\ todo[a] = {}
    /\ outcome' = [outcome EXCEPT ![a] =
           [t \in Results |-> IF t \in Derived
                              THEN DescribeInputs(t, outcome[a])
                              ELSE outcome[a][t]]]
    /\ Enter(a, "reverify", Keys)
    /\ UNCHANGED <<lockVars, missing, altered, snapshot, tainted, storeVars, view>>

\* Any other error (an option, key material, input or output) before the
\* transaction is open.
AnalysisFails(a) ==
    /\ phase[a] \in {"verify", "read", "reverify"}
    /\ GiveUp(a)
    /\ UNCHANGED <<lockVars, storeVars, view>>

--------------------------------------------------------------------------------
(* storeAnalysisWrites.                                                    *)

\* BEGIN IMMEDIATE and the insert of the run row.
BeginStore(a) ==
    /\ phase[a] = "reverify" /\ todo[a] = {}
    /\ Stored(committed) < MaxRuns
    /\ txn' = [committed EXCEPT ![Runs] = RunPage(Append(@.rows, "running"))]
    /\ Enter(a, "store", Results)
    /\ UNCHANGED <<lockVars, readVars, committed, main, view>>

WithResult_ActivatesAny(results, run, status) ==
    [rows |-> Append(results.rows, status), active |-> {run}]

WithResult_Replaces(results, run, status) ==
    [rows |-> [i \in 1..run |-> status], active |-> {run}]

\* The row of a result goes in inactive; a complete one then takes over from
\* the active one of the same artifact.
WithResult(results, run, status) ==
    [rows   |-> Append(results.rows, status),
     active |-> IF status = "complete" THEN {run} ELSE results.active]

\* The records of a complete result go in with it; those of earlier runs stay.
WithRecords(records, status) ==
    [rows   |-> Append(records.rows, IF status = "complete" THEN "stored" ELSE "none"),
     active |-> records.active]

PersistArtifact(a, t) ==
    /\ phase[a] = "store"
    /\ txn' = [txn EXCEPT ![t] = WithResult(@, Stored(txn), outcome[a][t]),
                          ![RecordsOf(t)] = WithRecords(@, outcome[a][t])]
    /\ DidNext(a, t)
    /\ UNCHANGED <<lockVars, readVars, committed, main, view>>

RunStatus_FailedFirst(found) ==
    LET statuses == {found[k] : k \in Primary}
    IN  IF "complete" \notin statuses THEN "failed"
        ELSE IF "unavailable" \in statuses THEN "partial" ELSE "complete"

RunStatus_NotUpdated(found) == "running"

RunStatus(found) ==
    LET statuses == {found[k] : k \in Primary}
    IN  IF "unavailable" \notin statuses THEN "complete"
        ELSE IF "complete" \notin statuses THEN "failed" ELSE "partial"

\* The run row gets its exit state and the transaction commits into the log.
CommitStore(a) ==
    /\ phase[a] = "store" /\ todo[a] = {}
    /\ committed' = [txn EXCEPT ![Runs] =
           RunPage([@.rows EXCEPT ![Stored(txn)] = RunStatus(outcome[a])])]
    /\ txn' = EmptyImage
    /\ Enter(a, "stored", {})
    /\ Forget(a)
    /\ UNCHANGED <<lockVars, main, view>>

\* An error inside the transaction rolls it back and closes the connection.
RollbackStore(a) ==
    /\ phase[a] = "store"
    /\ txn' = EmptyImage
    /\ Enter(a, "close", {})
    /\ Forget(a)
    /\ UNCHANGED <<lockVars, committed, main, view>>

\* A checkpoint: wal_checkpoint(TRUNCATE) after the commit, or the one SQLite
\* makes when the last connection closes.  It copies the log over the main file,
StartCheckpoint(a) ==
    /\ \/ phase[a] = "stored" /\ Enter(a, "checkpoint", Behind(main, committed))
       \/ phase[a] = "close" /\ Enter(a, "closing", Behind(main, committed))
    /\ UNCHANGED <<lockVars, readVars, storeVars, view>>

\* one page after the other.
CopyPage(a, t) ==
    /\ phase[a] \in {"checkpoint", "closing"}
    /\ main' = [main EXCEPT ![t] = committed[t]]
    /\ Did(a, t)
    /\ UNCHANGED <<lockVars, readVars, txn, committed, view>>

CheckpointDone_Unchecked(a) ==
    /\ phase[a] \in {"stored", "checkpoint"} /\ todo[a] = {}
    /\ Enter(a, "done", {})
    /\ UNCHANGED <<lockVars, readVars, storeVars, view>>

\* wal_checkpoint reports that it was not busy: storeAnalysisWrites returns.
CheckpointDone(a) ==
    /\ phase[a] = "checkpoint" /\ todo[a] = {}
    /\ Enter(a, "done", {})
    /\ UNCHANGED <<lockVars, readVars, storeVars, view>>

\* Another program's connection kept the checkpoint from starting, or from
\* emptying the log once all is copied; ANALYSIS_FAILED says the run is stored.
CheckpointBusy(a) ==
    /\ OutsiderHolds
    /\ phase[a] \in {"stored", "checkpoint"} /\ todo[a] = {}
    /\ Enter(a, "close", {})
    /\ UNCHANGED <<lockVars, readVars, storeVars, view>>

\* The connection closes: with the log emptied, or, while the outsider still has
\* the database open, with the log as it is.
CloseStore(a) ==
    /\ \/ phase[a] = "closing" /\ todo[a] = {}
       \/ phase[a] = "close" /\ OutsiderHolds
    /\ Enter(a, "release", {})
    /\ UNCHANGED <<lockVars, readVars, storeVars, view>>

--------------------------------------------------------------------------------
(* serve, and the commands that only read.                                 *)

Listen(s) ==
    /\ phase[s] = "bind"
    /\ Enter(s, "serving", {})
    /\ UNCHANGED <<lockVars, readVars, storeVars, view>>

ListenFails(s) ==
    /\ phase[s] = "bind"
    /\ Enter(s, "release", {})
    /\ UNCHANGED <<lockVars, readVars, storeVars, view>>

\* close(): no request is in progress any more, and the lock is released.
CloseServer(s) ==
    /\ phase[s] = "serving" /\ todo[s] = {}
    /\ Enter(s, "release", {})
    /\ view' = [view EXCEPT ![s] = NoView]
    /\ UNCHANGED <<lockVars, readVars, storeVars>>

\* A request, or a command, opens the Case immutable.
OpenCaseReadOnly(v) ==
    /\ todo[v] = {}
    /\ phase[v] = IF v \in Serves THEN "serving" ELSE "idle"
    /\ Enter(v, IF v \in Serves THEN "serving" ELSE "reading", Pages)
    /\ view' = [view EXCEPT ![v] = NoView]
    /\ UNCHANGED <<lockVars, readVars, storeVars>>

\* A page of the main file, as a checkpoint has left it so far.
ReadPage(v, t) ==
    /\ phase[v] \in {"serving", "reading"}
    /\ view' = [view EXCEPT ![v] = [u \in DOMAIN @ \cup {t} |->
                                       IF u = t THEN main[t] ELSE @[u]]]
    /\ Did(v, t)
    /\ UNCHANGED <<lockVars, readVars, storeVars>>

CloseCase(r) ==
    /\ phase[r] = "reading" /\ todo[r] = {}
    /\ view' = [view EXCEPT ![r] = NoView]
    /\ Enter(r, "idle", {})
    /\ UNCHANGED <<lockVars, readVars, storeVars>>

--------------------------------------------------------------------------------
(* The environment.                                                        *)

\* A process dies: the operating system frees its lock, the transaction is
\* gone, and what it wrote stays.
Crash(p) ==
    /\ phase[p] \in CrashPhases \ {"idle"}
    /\ lock' = IF lock = p THEN NoProc ELSE lock
    /\ blocker' = [blocker EXCEPT ![p] = NoProc]
    /\ txn' = IF phase[p] = "store" THEN EmptyImage ELSE txn
    /\ view' = [v \in Viewers |-> IF v = p THEN NoView ELSE view[v]]
    /\ Enter(p, "idle", {})
    /\ Forget(p)
    /\ UNCHANGED <<note, committed, main>>

Tamper(k) ==
    /\ altered' = IF k \in altered THEN altered \ {k} ELSE altered \cup {k}
    /\ UNCHANGED <<lockVars, phase, todo, missing, outcome, snapshot, tainted, storeVars,
                   view>>

--------------------------------------------------------------------------------
LockStep(p) ==
    \/ BeginExclusive(p) \/ LockBusy(p) \/ ReadHolder(p)
    \/ WriteHolder(p) \/ Release(p)

AnalyseStep(a) ==
    \/ \E k \in Keys :
          \/ VerifyFile(a, k) \/ IntegrityRefusal(a, k)
          \/ SkipArtifact(a, k) \/ SnapshotFile(a, k) \/ AnalyseArtifact(a, k)
          \/ ParseInPlace(a, k)
    \/ SnapshotRefused(a)
    \/ StartReading(a) \/ GenerateCaseCandidates(a) \/ AnalysisFails(a)
    \/ BeginStore(a) \/ CommitStore(a) \/ RollbackStore(a)
    \/ \E t \in Results : PersistArtifact(a, t)
    \/ \E t \in Pages : CopyPage(a, t)
    \/ StartCheckpoint(a) \/ CheckpointDone(a) \/ CheckpointBusy(a) \/ CloseStore(a)

Next ==
    \/ \E p \in Lockers : Contend(p) \/ LockStep(p)
    \/ \E a \in Analyses : AnalyseStep(a)
    \/ \E s \in Serves : Listen(s) \/ ListenFails(s) \/ CloseServer(s)
    \/ \E v \in Viewers : OpenCaseReadOnly(v) \/ \E t \in Pages : ReadPage(v, t)
    \/ \E r \in Readers : CloseCase(r)
    \/ \E p \in Procs : Crash(p)
    \/ \E k \in Tamperable : Tamper(k)

Spec == Init /\ [][Next]_vars

\* A process that has started goes on by itself until it is killed: every
\* phase is a run of calls that return, and the lock wait has a timeout.
\* Nothing makes a user start a command, stop a server, or kill a process.
Fairness ==
    /\ \A p \in Lockers : WF_vars(LockStep(p))
    /\ \A a \in Analyses : WF_vars(AnalyseStep(a))

FairSpec == Spec /\ Fairness

--------------------------------------------------------------------------------
(* Properties.                                                             *)

Page(S) == [rows : Seq(S), active : SUBSET Nat]
RowValues == Status \cup ExitStates \cup Stock \cup {"running"}
AnyPage == Page(RowValues)
Image == {i \in [Pages -> AnyPage] : /\ \A t \in Results : i[t] \in Page(Status)
                                    /\ \A t \in Records : i[t] \in Page(Stock)}

LockTypeOK ==
    /\ lock \in Lockers \cup {NoProc} /\ note \in Lockers \cup {NoProc}
    /\ blocker \in [Procs -> Lockers \cup {NoProc}]
ControlTypeOK ==
    /\ phase \in [Procs -> Phases] /\ todo \in [Procs -> SUBSET Pages]
    /\ \A p \in Procs : phase[p] \in AnalysePhases => p \in Analyses
    /\ \A p \in Procs : phase[p] \in ServePhases => p \in Serves
    /\ \A p \in Procs : phase[p] \in ReaderPhases => p \in Readers
MemoryTypeOK ==
    /\ missing \in Absences /\ altered \subseteq Keys
    /\ outcome \in [Analyses -> [Results -> Status]]
    /\ snapshot \in [Analyses -> (Keys \X {"manifest", "altered"}) \cup {NoSnapshot}]
    /\ tainted \in [Analyses -> SUBSET Keys]
ImageTypeOK == txn \in Image /\ committed \in Image /\ main \in Image
ViewTypeOK ==
    /\ view = [v \in Viewers |-> view[v]]
    /\ \A v \in Viewers : /\ DOMAIN view[v] \subseteq Pages
                          /\ view[v] \in [DOMAIN view[v] -> AnyPage]

\* Every variable has its type, and only an analysis, a dashboard or a reader
\* is in a phase of its kind.
TypeOK == LockTypeOK /\ ControlTypeOK /\ MemoryTypeOK /\ ImageTypeOK /\ ViewTypeOK

LastComplete(rows) ==
    {i \in 1..Len(rows) : /\ rows[i] = "complete"
                          /\ \A j \in (i+1)..Len(rows) : rows[j] # "complete"}

\* Between BEGIN EXCLUSIVE and release a process owns the Case: no two
\* processes are past acquireCaseLock at once, whatever is killed in between.
OneHolder == \A p \in Procs : phase[p] \in Holding => lock = p

\* Supersede semantics: the active result of an artifact is the one of the
\* last run in which it was complete; a run in which it failed or was absent
\* replaces nothing.
ActiveIsLastComplete ==
    \A t \in Results : committed[t].active = LastComplete(committed[t].rows)

\* Readers may be behind the store but are never ahead of it: what a page of the
\* main file holds was committed, so no row of a rolled-back or killed
\* transaction and no run that is still `running` can be read.
FileOnlyCommitted ==
    \A t \in Pages :
        /\ Len(main[t].rows) <= Len(committed[t].rows)
        /\ \A i \in 1..Len(main[t].rows) :
              /\ main[t].rows[i] = committed[t].rows[i]
              /\ main[t].rows[i] # "running"

\* Every row that a dashboard or a lock-free command reads, and whenever, also in
\* the middle of a checkpoint or after one that was killed, is a row that was
\* committed.  (That the rows of two pages belong together is not said here: for
\* a dashboard see ServeSeesWholeRuns, for the others it is false.)
ReadsAreCommitted ==
    \A v \in Viewers : \A t \in DOMAIN view[v] :
        /\ Len(view[v][t].rows) <= Len(committed[t].rows)
        /\ \A i \in 1..Len(view[v][t].rows) :
              /\ view[v][t].rows[i] = committed[t].rows[i]
              /\ view[v][t].rows[i] # "running"

\* A committed run is whole: every page has one row for each run.
RunsAreWhole ==
    \A t \in Pages : Len(committed[t].rows) = Stored(committed)

\* An analysis that reports success has published: the main file is the whole
\* store, also when an earlier run was killed before its checkpoint.
SuccessIsVisible == \A a \in Analyses : phase[a] = "done" => main = committed

\* Candidates are derived from one run, and stay usable next to results of
\* others; they are never older than the active result of an artifact they are
\* derived from.
CandidatesNotOlder ==
    \A d \in Derived : \A k \in Feeds[d] :
        \A i \in committed[k].active : \E j \in committed[d].active : i <= j

\* The exit state that is stored with a run is what the stored results of the
\* SQLite stores say, at any later time: `complete` if none of them failed, also
\* when all are absent; otherwise `partial` if one is complete, and `failed` if
\* none is.
ExitStateIsOfTheRun ==
    \A i \in 1..Stored(committed) :
        LET exit  == committed[Runs].rows[i]
            found == {committed[k].rows[i] : k \in Primary}
        IN  /\ exit = "complete" <=> "unavailable" \notin found
            /\ exit = "partial" => "complete" \in found
            /\ exit = "failed" => "complete" \notin found
            /\ exit \in ExitStates

\* No result comes from bytes other than the ones the Manifest records, even
\* if a file is changed after the first verification and put back before the
\* second; except those of the cache, which is parsed in place, so that of it the
\* promise of README.md:44-45 ("Analysis runs on a verified copy") is not kept.
StoredFromManifestBytes == \A a \in Analyses : tainted[a] \subseteq Direct

\* What a reader has seen in one request is the store as one and the same run
\* left it: every result with its records and with the run it is of, and the last
\* complete result of an artifact as the active one.
SeesWholeRuns(v) ==
    \E n \in 0..Stored(committed) : \A t \in DOMAIN view[v] :
        /\ view[v][t].rows = [i \in 1..n |-> committed[t].rows[i]]
        /\ t \in Results => view[v][t].active = LastComplete(view[v][t].rows)

ServeSeesWholeRuns == \A s \in Serves : SeesWholeRuns(s)

\* "Every read path opens the Case immutable and ignores the WAL, so the run is
\* visible only after a full checkpoint" (core/src/case-findings.ts:2007).
VisibleOnlyAfterFullCheckpoint == \A v \in Viewers : SeesWholeRuns(v)

\* The file a dashboard reads does not move under it while it serves.
ServedFileIsStill ==
    [][\A s \in Serves : phase[s] = "serving" => main' = main]_vars

\* Stored rows are never lost, changed or reordered, only added to, a whole run
\* at a time, and queries answer from the last complete one: a crash, a rollback
\* or a refused run leaves the lineage as it was.
StoredRuns == [i \in 1..Stored(committed) |-> [t \in Results |-> committed[t].rows[i]]]
ActiveRuns == [t \in Results |-> committed[t].active]
Lineage == INSTANCE AnalysisLineage WITH
    Artifacts <- Results, Status <- Status, log <- StoredRuns, answer <- ActiveRuns
LineageSpec == Lineage!Spec

\* The lock does not stay with an analysis for ever, and a contender gets it
\* or an answer.
AnalysisEnds == \A a \in Analyses : (lock = a) ~> (lock # a)
ContenderAnswered ==
    \A p \in Lockers : (phase[p] \in {"contending", "refusing"})
                        ~> (phase[p] \notin {"contending", "refusing"})
================================================================================
