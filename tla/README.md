# ForensiX: a TLA+ model of the evidence pipeline

ForensiX acquires Chrome profile data (`collector/`, Go), turns an acquisition or
a live directory into a *Case* (`core/src/ingest.ts`), analyses the Case
(`core/src/analyse-case.ts`) and answers questions about it (`cli/`, `server/`,
`client/`).  The specifications here are translated from that source.  They are
about its control: who may do what when, what a failure or a kill leaves behind,
and what a reader can see of it.  Paths below are relative to the repository.

## 1. Inventory

| Component | State it keeps | Operations | Talks to |
| --- | --- | --- | --- |
| Case lock (`core/src/case-lock.ts`) | an exclusive SQLite transaction on a file in the temporary directory; a holder note beside it | acquire, refuse with `CASE_IN_USE`, release | analyse, serve; the operating system on a kill |
| Analysis Run (`core/src/analyse-case.ts`, the artifact modules) | artifacts in memory; private snapshots | verify, read each artifact, derive Candidates, verify again, store | Working Copy, Finding store |
| Finding store (`core/src/case-findings.ts`) | `case.fxdb` and its write-ahead log | one transaction per run; exit state; checkpoint | readers, through the main file only |
| Case read path (`core/src/case.ts`) | none; opens `immutable=1`, no lock | load sources, read rows | Finding store |
| Finding query (`core/src/finding-query.ts`, `timeline-query.ts`, `sites-query.ts`, `record-queries.ts`) | none; a cursor carries the position | one page of a route, counts, one record | Case read path; cursors travel through clients |
| Verification (`core/src/verify.ts`) | none | compare Working Copy with Manifest: missing, changed and unexpected entries | Case directory |
| Ingest (`core/src/ingest.ts`) | a staging directory beside the output, an owner marker | sweep stale staging, acquire or copy a bundle, create the Case, publish by rename | Acquisition, bundle |
| Live acquisition (`core/src/acquisition.ts`) | entries of one scan | walk, copy, retry or discard what moved | file system under change |
| Acquisition bundle (`core/src/acquisition-bundle.ts`) | manifest and digests | decode, verify, materialise | Collector output |
| Collector (`collector/internal/collector`) | `<out>.partial` with an owner file | plan, copy, seal keys, publish by rename; strip keys | file system, key stores |
| Key material and OSCrypt (`core/src/key-material.ts`, `oscrypt.ts`) | keys in memory | authorise, resolve, choose a route, decrypt or say why not | analysis of Cookies, Login Data |
| SQLite passes (`core/src/sqlite-artifact.ts`) | snapshot directories in the temporary directory | committed and sidecar pass, removal, sweep of stale snapshots | Analysis Run |
| Payload store (`core/src/payload-files.ts`, `cache.ts`) | `payloads/` in the Case directory | one call of `writePayloadFiles` per Profile, read back | Analysis Run, server, export |
| Export and report (`core/src/export.ts`, `report.ts`) | a staging directory; the Extract | read the Case twice, write, publish by rename, give an empty directory back; read an Extract, recompute its digest, render | Case read path, the examiner's output directory |
| Dashboard server (`server/src/index.ts`) | a token, a port, the Case lock | gate a request, answer it, close | Case read path |
| Selection policy (`core/src/selection-policy.ts`) | none | classify a path, list expected paths | both acquisitions |
| Dashboard client (`client/src/use-paginated-list.ts`, `use-commit-state-lists.ts`, `count-reads.ts`, `row-lookup.ts` and the pages) | React state: rows, cursor, loading, error of each list; a generation and a flag beside it | first page, further pages, retries, totals, the lookup of a linked row | Dashboard server, over HTTP |
| Command line (`cli/`) | the cursor of `--page-all` | parse, loop over pages, print | the above |
| Contracts, scripts | none | schemas, fixtures, releases | the above |

What is hard here, by kind:

* *Concurrency.* Processes of several users start at any time; only analyse and
  serve exclude each other.  Readers take no lock at all.
* *Failure.* Every process can be killed at every step.  Cases, exports and
  bundles are published by one rename, analysis results by a checkpoint.
* *Change under the reader.* The browser may write a profile that is being
  copied; a Working Copy file may be changed while it is analysed; a bundle may
  be damaged while it is ingested, an Extract replaced while it is reported.
* *Answers out of date.* A page of the dashboard asks, is changed, and is
  answered; a cursor is used after the results it was made from were replaced.
* *Long histories.* Runs supersede each other artifact by artifact, and
  everything ever stored has to stay.

`PROJECT.json` lists each hazard at its line with the properties that cover it.

## 2. Plan

Done: `CaseStore` with `AnalysisLineage` and its proofs (lock, run, store,
readers: the most important behaviour of the system); `IngestStaging` with
`AtomicPublish` and its proofs; `CollectorStaging`; `Acquisition` with what
`verify.ts` makes of its result; `BundleTransfer`, and `SourceToCase`, which has
it and `Acquisition` as the two ways into a Case; `FindingQuery` and
`CaseServer` with the five kinds of users of a Case, `DashboardLists`,
`PageLoops`, `ExtractPublish`, `PayloadFiles` and `SqlitePasses`, composed in
`CaseUsers`.

What composes what:

    SourceToCase  = Acquisition + BundleTransfer
    CaseUsers     = FindingQuery <- CaseServer <- { DashboardLists, PageLoops,
                    ExtractPublish } + PayloadFiles + SqlitePasses
    CaseStore      implements AnalysisLineage
    IngestStaging, CollectorStaging implement AtomicPublish

Proved (section 6): every invariant and every action property of the passing runs,
in eight proof modules, from `CaseStore` outwards.

Next, in this order:

1. Two links between components that section 3 argues and no theorem states: that
   the one step by which `CaseServer` stores a run is what `CaseStore` shows to
   readers while no process is killed in mid-copy, and that the bundle which
   `BundleTransfer` starts from is the one `CollectorStaging` publishes.
2. What the counterexamples of section 7 leave true, such as what a Report says of
   an Extract that was replaced while it was read.
3. Modules that would follow: `SnapshotSweep` (private snapshots and the removal
   of stale ones), `DecryptionRoutes`, `RequestGate`, `SelectionPolicy`; the
   last three as pure operators against a reference definition.

## 3. Modules and code

### CaseStore

One Case and every process that uses it. State and code:

| Variables | Code |
| --- | --- |
| `lock`, `note`, `blocker` | the exclusive transaction of `acquireCaseLock`, `<lock>.holder.json`, and what a contender makes of it |
| `phase`, `todo` | where a process is: the calls of `analyseCase` and `runAnalysis` in order, `startDashboardServer`, or a read command |
| `missing` | what the Manifest records as absent |
| `outcome`, `snapshot`, `tainted`, `altered` | the artifacts in memory, the private copy that is parsed next, and whether the bytes are those of the Manifest |
| `txn`, `committed`, `main` | `storeAnalysisWrites`: the open transaction, the database with its write-ahead log, and the main file alone |
| `view` | the pages that a request has read so far |

The `committed`/`main` pair is the heart of it. Readers open the database with
`immutable=1` (`case.ts:576`), which ignores the log, so a commit is not visible
before a checkpoint has copied it, page by page, into the main file. What SQLite
guarantees about the copy is marked external in the map: pages are copied in any
order, each of them whole, and a close by the last connection copies too. A
reader, too, takes the main file a page at a time and in any order (`CopyPage`,
`ReadPage`). The model has a page for the result rows of each artifact, one for
its records, and one for the runs, so that a run can be in the main file without
its results and a result without its records. Where SQLite needs several pages for
one of these, more torn states exist. The passing properties do not depend on that:
`ServeSeesWholeRuns` holds because no copy is under way while a dashboard serves,
`SuccessIsVisible` because the copy has ended, and `ReadsAreCommitted` says of each
row by itself that it was committed, not that rows belong together; that they
do not is the finding `case_torn`.

An artifact is parsed from a private copy whose digest was compared
(`SnapshotFile`, `AnalyseArtifact`), except the cache: `readHead` and `readWhole` of
`cache.ts` read the Working Copy file itself (`ParseInPlace`, for the Keys in
`Direct`). `StoredFromManifestBytes` therefore leaves the cache out: of it the claim
is false (section 7).

Every phase may end in a kill (`Crash`), which releases the lock as SQLite does
and loses what was in memory; the log and the note stay. `Tamper` changes a
Working Copy file and changes it back.

### AnalysisLineage

What the Finding store promises: a log of runs that only grows, and as the
answer for an artifact its last complete result. `CaseStore` implements it: a
`CommitStore` is one `StoreRun` and every other step a stutter.

### IngestStaging

Processes that create the same Case Directory. `phase` follows `ingestSource`;
`there`, `parts` and `used` are the staging directories beside the Case, what
each holds, and the names given out; an owner marker is represented by the PID
it names, as a member of `parts`. A process is its PID, so one that is killed
and started again shows what a PID that is used again does to the sweep.
Removal is by path and entry by entry, as `rm` is. `Fail` is the catch block,
which also runs when the command fails after the rename.

### CollectorStaging

Runs of the Collector for one output, which share `<out>.partial`. `held` has
each file with the run that wrote it, so that a mixture can be told; `listed` is
what the manifest says; `Collect` makes directories that are missing, as
`os.MkdirAll` does, and every other write needs the directory to be there and
its file not to be (`O_EXCL`). `MayOverlap` says whether a run may start while
another one is on.

### Acquisition

The scan of a User Data Dir (`acquisition.ts`) beside the browser that writes it,
and the comparison of its result with the Manifest (`verify.ts`).

| Variables | Code |
| --- | --- |
| `src`, `ver` | the Source: which paths exist, and what a stat tells of each (size, mtime and ctime, here one version), which also stands for its bytes |
| `attempt`, `stack`, `look` | the recursion: a frame per `inspectDirectory`, with its first lstat and names and the names still to do; the lstat of `inspectNode` |
| `entries`, `profiles` | `ScanContext` |
| `copies`, `dirs` | the Working Copy |
| `start` | history only: the Source when the attempt began |

Between any two calls on the file system the browser may act; a copy is one
step, at its end, because a version that is the same at both ends was the same
in between. `Faulty` names the paths where a call may fail although the node is
there. `Issues` is what `verifySource` would report.

### BundleTransfer, SourceToCase

The way of a file through a Collector and an Acquisition Bundle into a Case. A
content is the version that was written; size, time and digest tell versions
apart, which is what the code relies on too.

| Variables | Code |
| --- | --- |
| `source` | the User Data Dir, with one directory of a Profile that may be unreadable |
| `plan` | `acquisitionPlan` of `acquisition.go`: the names of `walk`, the entries, and the file that is under way between its `Lstat` and its digest, or between its `Lstat` and its copy |
| `bundle` | `working_copy` in the bundle, what `bundleFiles` listed, the manifests, and whether the keys are still in it |
| `ingest` | `acquisition-bundle.ts`: the stats of `enumerateTree`, what remains to be digested or observed, the entries and copies of the Case, and whether anything diverged |

The Collector takes a file in two passes, and the browser may write between any
two calls of either. `copyPlannedFile` copies from a file it has opened: what it
reads is the file it opened, when the browser replaced it by a rename, or the
new content, when it was written in place. `StripKeys` is one step: it copies
only what it verifies again while copying, or publishes nothing. The ingest
reads each file three times (digest, observation, copy), and each time checks
the stats of the first enumeration; `DamageBundle` may come before, between and
after.

The keys themselves are left out, as are symlinks and sockets, and a bundle has
one Source. `SourceToCase` lets a behaviour take either way, the live one of
`Acquisition` or the bundle.

### FindingQuery, CaseServer

`FindingQuery` has no state: `RunFindingQuery` is one page of a route on one
state of a Case, given by its number of runs and the run whose result is active
for each Profile. The conditions of a route, its order, its cursor condition,
its fingerprint and its limit are an operator each. All list routes have this
shape, the refusal of a Case without an analysis included (`hostRows` of
`sites-query.ts` is where that route refuses): those of `runFindingQuery`, the merged order of `timeline-query.ts`, and
the in-memory order of `sites-query.ts`. `Route` is what a route would return at
once; it is what pages are compared with.

`CaseServer` has the published Case and the dashboard server. What `CaseStore`
shows in detail (the lock excludes, a run is published whole unless a process is
killed in the middle of a checkpoint) is used here as one step: a run is stored
only while no server runs.

### DashboardLists

One evidence page of the dashboard.

| Variables | Code |
| --- | --- |
| `tab` | the bearer token in the page (`run`, by the server it belongs to) and the profile pick of the lens |
| `lists[l].next`, `.view` | the `useState` of `usePaginatedList`: what has been set, and what the last render committed and handlers close over |
| `lists[l].ran` | the dependencies the effect last ran with, so that a render with others runs it again |
| `lists[l].inFlight` | the ref of that name; the generation of a read is represented by its being in `wire` at all, as the cleanup aborts it and bumps the generation in one |
| `count` | `useCount`: a figure with the key of its query |
| `wire` | fetches without an answer |

Answers come in any order and may come before or after a render; the server may
be stopped and started on another state of the Case, which every page then
hears as an error, for its token is of the earlier run. `Recovered` joins the
lists of the two sidecars as `useCommitStateLists` does.

One assumption is about React and not about this code: what an effect sets is
rendered before the read it starts is answered, and what a click sets before the
next event. Both follow from React's scheduling (effects flush synchronously
before the next render, discrete events at once) and the time a fetch takes.
`WalDrainedFirst` depends on it: an answer that came between an effect and its
render would let a click act on rows of the filter before.

### PageLoops

`loop` is `--page-all` of the command line, which reads the Case file without a
lock, or `findRowByRef` of the dashboard, which asks the server and stops at a
cap. `base` is history: the Case at the first page. A lookup filters by the Profile
and the Commit State of the row as far as its route can (`LookupQueries`), in
either direction. The fixed parameters by which a page leaves out rows (a
Timeline's range, a Sites host) are not modelled: the page of the model lists every
row, and only then must the lookup find it.

### ExtractPublish

Exports to one output directory, a Report of it, and the examiner, who may edit,
empty or remove it. `exports[x]` follows `exportCase`, one step per call on the
file system; a file's content is the Case it was made from, so that two Extracts
of one Case are equal, as the code intends. `report` follows `renderReport`,
which reads each file to show it and then the covered ones again.

### PayloadFiles

One of the two payload directories. `file` is what a name has, `synced` what it
will have after a loss of power. One run at a time, as the Case lock holds; a run
makes a call of `writePayloadFiles` for each Profile (`BeginCall`), and a call
that fails ends the run for the cache, and only that Profile's favicons otherwise
(`FailCall`). `left` and `kept` are history: names that a stopped call renamed
without a sync, and those that a later call, of the same run or another, then
found and kept; both end when somebody syncs the directory.

### SqlitePasses

One database of the browser, from its transactions to the rows of an Analysis Run.

| Variables | Code |
| --- | --- |
| `db`, `version` | SQLite in the browser, external: main file, log or journal on the disk, and the open transaction in memory |
| `saved`, `committed` | history: the image of the last commit, the rows of all |
| `entry`, `copy`, `changed` | the Manifest entries of the files, the Working Copy, and what changed in it since |
| `pass` | `readSnapshotPasses`: where it is, and the rows and Commit State it returns |

The browser may be killed at any step: a transaction that has written some of its
pages, a checkpoint that has copied some. `Immutable` and `ReadWrite` are the two
views of the code, `CommittedIsReadWrite` which of them is the committed one. Rows
are added, changed and deleted, and a page stands for the row in it, so that a
main file whose pages are of two commits still has rows to read; the real one may
fail to be read, which is one of the outcomes of either pass. The three files are
copied at one moment, when the browser does not run: between the copies of a live
browser a checkpoint or a commit may move rows from one file to the next, about
which no file alone tells anything.

### CaseUsers

The composition: a behaviour has one kind of user, because beside the Case they
share nothing, and a run may be stored between any two steps.

### AtomicPublish

What both promise: the output is not there, or it is there whole and of one
run, and it is never replaced.

## 4. Runs

| Run | Instance | Question |
| --- | --- | --- |
| `case_core` | an analysis with a SQLite store, two stored runs, a dashboard, a query; kills in every phase; an outsider that holds the database | do lock, store and publication keep their promises through every failure, does everyone get an answer, and is every row that is read committed? |
| `case_serve` | an analysis with two SQLite stores, either of which may be absent, their Candidates and the cache, two stored runs; a dashboard; a file that changes; no kill in mid-copy | does a dashboard see whole runs of Manifest bytes, and are exit state, active results and Candidates those of the results? |
| `case_torn` | an analysis with a store and its Candidates, one stored run, a query | finding: a query during a checkpoint |
| `ingest` | three ingests, two staging names, kills in every phase | can a sweep or a race hurt a Case? |
| `collector` | three PIDs, one run at a time | does a bundle of a run hold anything of an earlier one? |
| `collector_overlap` | the same PIDs, at the same time | finding: check and removal of the stale directory are two steps |
| `acquisition` | live: Local State, a Profile with History and a nested Cookies, in every combination of presence; three changes; two paths that may fail. Bundle: Local State, and two files in a directory that may be unreadable, one of them copied; two writes, one damage | do the Manifest and the Working Copy agree, and is only lost what moved or failed? Does a Case made of a bundle say what the Collector saw? |
| `acquisition_leftover` | one change | finding: a directory that verification refuses |
| `acquisition_absent` | no change, one failing directory | finding: absence that nobody saw |
| `case_users` | two Profiles, two stored runs, seven rows of all Commit States with equal keys, pages of one row; two servers, two filter changes, failures or retries; a cap of two pages; two exports, one touch; two payloads, two analyses and two Profiles that write them; a database of two pages and two transactions, with a log or a journal | is what users see of one state of the Case, and whole where it says so? |
| `report_verified` | the same instance | finding: a verified Report of other rows |
| `lost_journal` | the database of `case_users`, alone | finding: rows called committed that never were |

Why the bounds are enough. The lock treats all processes alike, and every hazard
of the store is between a run and its predecessor: two runs show a run that
supersedes, one that does not, one killed before its checkpoint and the next one
that publishes both; whether one process or another starts the second makes no
difference, because nothing of a process outlives its run. An analysis and a
dashboard are the two contenders. The exit state is decided by two counts, of
stores that are complete and of stores that are unavailable: in `case_serve` each of
two stores is complete, unavailable, or, when the Manifest has no file of it,
absent, so that each count is zero or not in each combination, both zero included;
two runs show that the first one's exit state is not touched by the second, and
let a dashboard read superseded results beside active ones, and the records of
both. In
`ingest`, a dead PID takes one process and one name, two sweeps that meet at its
directory two more; the second name is for the builder that runs meanwhile. In
`collector` the third PID is there because the owner that is read, the run that
read it and the run that comes next may all differ. In `acquisition`, losses act
through one directory and what is above and beside it: the nested directory, its
parent and a file beside each give all four, two changes use up both attempts,
and a third makes a loss besides a retry. On the way through a bundle a file meets
the browser at most twice that matters (between inventory and copy, and during
the copy), and one damage is told or not told by each of the three reads.

In `case_users` a page of one row makes every list a sequence of pages: the
write-ahead log list has two with one key, so that a page ends between rows that
only their id orders, the journal list two, so that the order of the two sidecars
can go wrong. The second run replaces both results, the case in which an old
cursor is most wrong. Two of the bounded actions are a change and a change back,
or a failure and its retry; two servers are one before and one after a stored
run. Two exports meet at each of the six steps of each other, and one touch is
what makes the directory other than the exports left it. A lookup that cannot be
filtered meets the cap of two pages with rows unread, and one that can finds its row on
the second. A payload needs two calls, one that stops and one that finds its file,
in one run (favicons) or in two (favicons and cache), and a second payload for the
sync that comes later. Two pages are one that a stopped
transaction or checkpoint has written and one that it has not; two transactions
are one that commits and one that does not. All bounds are CONSTANTS
(`MaxRuns`, the sets of processes and names, `CrashPhases`, `KillPhases`) and
the theorems of section 6 do without them.

`CHECK_DEADLOCK FALSE` is set in the runs of `IngestStaging` and
`CollectorStaging`: once the output is there, a new run is refused at its first
step, and the system rightly stops. It is set in those of `CaseUsers`: a page
on which nobody clicks any more, an ended command and an ended export stop too.

Some claims are restricted on purpose; what each restriction leaves out is a finding
or a listed hazard.

- `case_serve` excludes a kill in the middle of a checkpoint (`NotMidCopy`): the main
  file is then a mixture until the next analysis opens the database and recovers, and
  immutable readers see that mixture. The hazard is listed in `PROJECT.json`, and
  with all phases in `CrashPhases` TLC refutes `ServeSeesWholeRuns`.
- `StoredFromManifestBytes` claims nothing of the cache, whose files are parsed in
  place: with the cache in `Tamperable` and without the exception TLC refutes it.
- `collector` excludes overlapping runs: with them TLC refutes `PublishesBundle` as
  well as `RemovesOnlyDead`, which is the finding `collector_overlap`.
- `CitedPayloadsKept` leaves out names that a call kept while a stopped one had left
  them without a sync (`kept`): without the exception TLC refutes it.
- `BundleBecomesCase` claims nothing of absence below a directory whose `Lstat`
  failed: finding `acquisition_absent`.
- `CommitStatesAreTrue` claims nothing when a file of the database is unavailable:
  finding `lost_journal`.

Each property of a passing run has a mutant in `PROJECT.json`: an operator with
the suffix `_<Fault>` beside the operation it replaces.

## 5. Fairness

`FairSpec` of `CaseStore` assumes weak fairness of the lock steps of each process
and of the steps of each analysis. An analysis is one thread of calls that
return, and the wait for the lock is bounded by SQLite's busy timeout, so a
process that can take its next step does so unless it is killed. Nothing is
assumed about users: no command is ever started, no server ever stopped, and no
process killed, unless the run happens to do so. `AnalysisEnds` and
`ContenderAnswered` hold without assuming that a dashboard ends, because a
contender times out.

`FairSpec` of `CaseUsers` assumes weak fairness of the browser as one
(`BrowserMoves`): React renders what is queued, runs the effects of a commit, and
every fetch is answered or fails. One condition is enough for the four kinds of
steps because each of them uses something up (a queued update, a due effect, a
read under way) and what makes new ones, a click, a retry or a changed filter, is
bounded or ends with the cursor. Nothing is assumed of the examiner, of the
analyst or of the server, which may be gone for good: a read of it then fails,
which is why `LoadsEnd` holds. The last server of the bound is not stopped, which
restricts no list: a read of a stopped server is like one of an earlier run.

`IngestStaging`, `CollectorStaging` and `SourceToCase` claim safety only and have
no fairness.

## 6. Proofs

The theorems hold for all values of the constants that the `ASSUME`s of the
modules admit; TLC evaluates these on every run. They say that sets of names
that the code keeps apart are apart, that bounds are numbers, that a value that
stands for "none" is not one of the others, that the parents of the paths of a
User Data Dir make a tree (`TreeAssumption`, `RootAssumption`), and that rows are
finitely many with an id each (`RowsAssumption`). Nothing is assumed of how many
processes, files, pages, rows, runs or changes there are. Two theorems have a
hypothesis besides, and each of them is a restriction of its run too:
`PublishesWholeBundles` is about Collectors that do not overlap,
`DashboardSeesWholeRuns` about processes that are not killed while they copy the
log over the main file. Without it both are false, which is why there is a
finding and a hazard for each.

| Module | Theorems | Inductive invariant |
| --- | --- | --- |
| `CaseStore_proofs` | `TypeCorrect`, `Exclusion`, `Supersede`, `SuccessPublishes`, `ImplementsLineage`, `ReadsCommitted`, `ServedFileStill`, `OnlyManifestBytes`, `CandidatesKeepUp`, `ExitStateTrue`, `DashboardSeesWholeRuns` | `TypeOK`, `OneHolder`, `StoreInv`; on top of them `DerivedFound`, `MainIsWhole`, `ServedIsMain` |
| `IngestStaging_proofs` | `TypeCorrect`, `SuccessReportsOwn`, `BuilderUndisturbed`, `ImplementsAtomicPublish` | `StagingInv` |
| `CollectorStaging_proofs` | `TypeCorrect`, `OnlyKillsLeaveIt`, `PublishesWholeBundles` | `StagingInv`, `AloneInv` |
| `Acquisition_proofs` | `AcquisitionTypes`, `CopiesMatchEntries`, `UnlessLostVerifies`, `NothingKeptUnderLost`, `UntouchedIsAcquired`, `KeepsWhatIsThere` | `AcquisitionInv` |
| `SourceToCase_proofs` | `BundlesBecomeCases`, `WaysHaveTypes`, `EachWayBecomesCase`, `LiveSourceBecomesCase` | `TransferInv` |
| `SqlitePasses_proofs` | `CommitStatesHold` | `PassInv` |
| `ExtractPublish_proofs` | `ExportsPublishWhole`, `DirectoryGivenBack`, `UndisturbedReportHolds` | `ExtractInv` |
| `CaseUsers_proofs` | `CitedOnDisk`; `UsersHaveTypes`, `ListsArePrefixes`, `WholeListsAreWhole`, `WalComesFirst`, `TotalsAgree`, `PagesAreOfOneState`, `LookupIsHonest`, `PartsHold` | `PayloadInv`, `LoopInv`, `TabInv` |

**The Case store.**

* `TypeCorrect` is the type invariant, one lemma per group of variables.
* `Exclusion` (`OneHolder`) is inductive with the types.
* `Supersede` (`ActiveIsLastComplete`) and `SuccessPublishes` are not inductive:
  that a commit keeps the active result right needs to know what the open
  transaction holds, and that readers see it needs to know where the copy of
  each page came from. `StoreInv` adds `StoreShape` (a page of the transaction
  that is done has exactly one row more than the committed one, with its active
  result recomputed, the others are as committed), `CopyShape` (a page that is
  still to be copied is the only kind that differs between main file and store),
  `FileOnlyCommitted`, `FileActive`, `RunsAreWhole` and `NoneRunning`. The one lemma about
  data is `LastCompleteAppend`; `CommitEffect` says what a commit changes, and all
  that is about stored runs is proved from it.
* `ImplementsLineage` maps the store to `AnalysisLineage`; `ReadsCommitted` and
  `ServedFileStill` follow from `StoreInv` and `Exclusion`. `ReadsCommitted` is about
  rows, for any order of copies and reads, and does not say that the pages of one
  read belong together.
* `CandidatesKeepUp` needs `DerivedFound`: from the second verification to the
  commit, the Candidates an analysis has in memory are those that `describeInputs`
  makes of the artifacts it has in memory. So a complete input makes complete
  Candidates in the same run. `ExitStateTrue` needs no more than `CommitEffect`;
  `OnlyManifestBytes` is inductive, because a snapshot that differs is never parsed,
  and is about all artifacts but the cache, which is parsed without one.
* `DashboardSeesWholeRuns` needs that the main file has the same runs in each page
  when no copy is under way (`MainIsWhole`: a copy that ends has copied all), that a
  dashboard has read the file as it still is (`ServedIsMain`), and the lock.

**Publication.** `StagingInv` of `IngestStaging` is one of ownership: the directory
a process builds is the target of no other process and holds exactly what the
builder has put there. A sweep condemns only what holds a marker of a process
that does not run, and a directory in the making holds no marker but that of its
builder, who runs. Collectors share one directory, so what holds of them without
a condition is little: a directory has a run that builds in it or cleans up, or
one was killed. With one run at a time (`OneRun`), `Progress` says what the
directory and the list hold at each step, and the rename publishes that.

**Acquisition.** `AcquisitionInv` ties the frames of the walk to the entries. A
frame's names that are done have an entry, those still to do have none, nor has
anything below them (`ListingInv`); each frame is of a directory its
parent names and has an entry for, and of an unchanged directory it has all the
names (`FramesInv`). Versions only grow (`VersionsInv`), so that equal stats at
both ends of a read mean that nothing was between them. `CopyInv` keeps entries
and copies together through `Discard`, and `SeenInv` says where an untouched file
is: not yet reached, ahead on the stack, or acquired.

**The way by bundle.** `TransferInv` follows a file from the walk to the Case:
before it is sent a copy is of the content its entry was digested from, an
unharmed bundle has what its manifest lists, and a file that the ingest has
settled agrees with its entry whatever was done to the bundle between two of its
three reads. `WaysAreParts` shows that the composition does what either way does.

**SQLite.** `PassInv` rests on one idea: whatever moment the browser is at, the
main file with its log or its journal laid over it is the image of the last commit
(`LogInv`, `JournalInv`), and beyond it the main file has committed rows with a log,
and with a journal rows of the transaction that is open. The copies are those of
one such moment, or changed since and then refused.

**Exports and Reports.** In `ExtractInv`, an export that is ready to rename has a
staging directory that it wrote to the end from one Case, and an output directory
that is gone has somebody who owes it back: an export before its catch block, or
one that was killed.

**Pages, loops and lists.** Of `FindingQuery` it is proved that the order of a
route is total, that a route is the sorted sequence of what is selected, and that
what comes after a cursor is what the route has after the cursor's row
(`RestIsSorted`); from these, that a page read with the cursor of a page continues
it (`ReadsOn`), and that a cursor is refused unless the active results and the
query are those it was made from (`SameResults`, `SamePrint`). Since a sorted
sequence of a finite set is taken by `CHOOSE`, its existence is
proved too (`SortedExists`). `LoopInv` and `TabInv` say of a loop, a list
and an answer under way that each has read its route up to its cursor. `TabInv` needs
more than the properties say: the answers in `wire` are for the state
the list is in or are dropped when they come (`ReadOf`), what has been set and what
was rendered differ only until the next render (`Rendered`), and a count has the key
of its query (`Counted`). `UsersAreParts` shows that a behaviour of `CaseUsers` is one of
`PayloadFiles`, `SqlitePasses` and `ExtractPublish`, whose theorems therefore hold of it
(`PartsHold`).

**Payloads.** `PayloadInv`: a payload that a loss of power would take was renamed
by the call under way, or was left by a stopped one; so what a call has dealt with is
safe, or made safe by its sync, or kept, and what the calls of a run that returned
have dealt with, and the run cites, is safe or kept.

Only model-checked are the liveness properties `AnalysisEnds`, `ContenderAnswered`
and `LoadsEnd`: liveness under fairness and ENABLED are out of the prover's reach.
So is induction over data and anything about RECURSIVE operators; the modules have
none of the latter, the ancestors of a path are defined as the least set closed
under parents. The properties of the runs that expect a violation are
false, and nothing is proved of them.

## 7. Findings

Each is a run that violates what a comment or the documentation says; the
quotations are in `PROJECT.json`.

* A query, export or report that runs while an analysis checkpoints can read a
  run on one page and miss it on another: a run without results, a result without
  its records (`case_torn`).
* A Collector may remove the staging directory of a live one (`collector_overlap`).
* A nested directory that is lost after a file in it was copied leaves an empty
  directory in the Working Copy, and the Case can never be analysed
  (`acquisition_leftover`).
* Below a directory whose lstat fails, expected files are recorded as absent
  (`acquisition_absent`); the Collector's `addExpectedAbsent` has the same flaw.
* A Report reads the files it shows and the files it verifies at different times;
  replaced in between, an Extract is reported as verified with rows that are not
  its own, or none (`report_verified`).
* A database whose rollback journal could not be acquired is read as if it had
  none, and the rows of a transaction that never committed become committed
  Findings (`lost_journal`).

Seen while modelling, and without a run of its own:

* The cache is parsed from the Working Copy itself (`cache.ts:96-112`), with neither
  the private copy nor the digest that every other artifact gets, so that a cache
  file that changes after the first verification and changes back before the
  second is parsed as changed and its entries are stored; `README.md:44-45` says that
  analysis runs on a verified copy.
* A payload whose call stopped between its rename and the sync of the directory is
  kept by the next call, of the next Profile (`favicons.ts:547-549`) or of the next
  run, which renames nothing and so syncs nothing (`payload-files.ts:55-56`): after a
  loss of power a committed record cites a file that is gone, where
  `payload-files.ts:40-41` says that the new names survive a crash.

Smaller ones: an ingest that stops before its owner
marker is written (`ingest.ts:651`), or between the removal of the marker and the
rename (`ingest.ts:692`), leaves a staging directory that no sweep removes, where
`docs/reference.md:104` says that `ingest` removes those of a stopped one; of two
sweeps that remove one stale directory the slower one fails, and its ingest with
it; with a write-ahead log that was copied in the middle of a checkpoint, the main
file has pages of two commits, where `sqlite-artifact.ts:799-800` calls it the committed
image; the note beside the Case lock is
written after the lock is taken and stays after it is released, so a process that
is refused in between reads the note of an earlier owner, where
`docs/reference.md:132` says that the error names the holder; when the filter of a
page changes, one render still has the rows of before, because the effect that
empties them runs after it (`use-paginated-list.ts:68-72`); an entry that the
Collector does not copy may have the size and time of one version and the digest
of the next, as only copied files are compared again.

## 8. Not modelled

The components listed as `not_modelled` in `PROJECT.json`, with the reason or the
place in the plan. Within the modelled ones: the contents of artifacts, which
are reduced to their status and to whether their bytes are those of the
Manifest; the preparation of a Source, one step of an ingest in `IngestStaging`
and the subject of `SourceToCase`; the copying of a User Data Dir, one step of a
Collector in `CollectorStaging`; symlinks, sockets and a Profile Dir as the root
of an acquisition; text search, time bounds and host indexes of queries, which
select rows like a filter does; redaction, formats and HTML; file system errors,
which are a step that may happen wherever the code handles one; Windows, where a
rename or an owner probe differs. The model takes all processes of a Case to
resolve the same lock path, though it depends on the temporary directory of each
(`case-lock.ts:25`).

The map covers a small share of the repository's lines. More than half of them
are the dashboard's user interface (`client/src/components`, its pages and
styles): layout without a state that outlives a render. Of the rest most decode
formats (SQLite records, cache entries, LevelDB, protocol buffers, key blobs),
define tables and schemas, validate options, or word results. They are functions
of their input that the tests of the repository check with fixtures, and a model
would repeat them line by line. What is modelled is where processes, files,
locks, renders and reads meet.
