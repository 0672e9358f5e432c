---------------------------- MODULE CaseStore_proofs ----------------------------
(***************************************************************************)
(* Proofs about CaseStore, for any sets of processes and artifacts and any *)
(* bounds: type correctness, the exclusion of analyse and serve, that the  *)
(* active result of an artifact is the one of its last complete run, what  *)
(* a run and its Candidates are made of, that what readers read was        *)
(* committed, and what a dashboard sees.                                   *)
(***************************************************************************)
EXTENDS CaseStore, TLAPS

(* The two ways in which control moves.                                    *)

LEMMA EnterType ==
    ASSUME ControlTypeOK, NEW p \in Procs, NEW ph \in Phases,
           NEW work \in SUBSET Pages, Enter(p, ph, work),
           ph \in AnalysePhases => p \in Analyses,
           ph \in ServePhases => p \in Serves,
           ph \in ReaderPhases => p \in Readers
    PROVE  ControlTypeOK'
BY DEF ControlTypeOK, Enter

LEMMA DidType ==
    ASSUME ControlTypeOK, NEW p \in Procs, NEW t, Did(p, t)
    PROVE  ControlTypeOK'
BY DEF ControlTypeOK, Did

LEMMA ForgetType ==
    ASSUME MemoryTypeOK, NEW p, Forget(p)
    PROVE  MemoryTypeOK'
BY DEF MemoryTypeOK, Forget, Unread, NoSnapshot, Status

LEMMA ControlTypeNext ==
    ASSUME TypeOK, [Next]_vars
    PROVE  ControlTypeOK'
<1> USE DEF TypeOK
<1>1. ASSUME NEW p \in Lockers, Contend(p) \/ LockStep(p) PROVE ControlTypeOK'
  BY <1>1, EnterType DEF Contend, LockStep, BeginExclusive, LockBusy, ReadHolder,
     WriteHolder, Release, Lockers, Procs, Phases, Holding, AnalysePhases, ServePhases,
     ReaderPhases, Pages, Results
<1>2. ASSUME NEW a \in Analyses, AnalyseStep(a) PROVE ControlTypeOK'
  <2>1. a \in Procs
    BY DEF Procs
  <2>2. ASSUME NEW k \in Keys,
               \/ VerifyFile(a, k) \/ SkipArtifact(a, k) \/ AnalyseArtifact(a, k)
               \/ ParseInPlace(a, k)
        PROVE  ControlTypeOK'
    BY <2>1, <2>2, DidType DEF VerifyFile, SkipArtifact, AnalyseArtifact, ParseInPlace,
       Parse, DidNext
  <2>3. ASSUME NEW k \in Keys, SnapshotFile(a, k) PROVE ControlTypeOK'
    BY <2>3 DEF SnapshotFile, ControlTypeOK
  <2>4. ASSUME NEW t, PersistArtifact(a, t) \/ CopyPage(a, t) PROVE ControlTypeOK'
    BY <2>1, <2>4, DidType DEF PersistArtifact, CopyPage, DidNext
  <2>5. ASSUME NEW k \in Keys,
               IntegrityRefusal(a, k) \/ SnapshotRefused(a) \/ AnalysisFails(a)
        PROVE  ControlTypeOK'
    BY <2>1, <2>5, EnterType DEF IntegrityRefusal, SnapshotRefused, AnalysisFails,
       GiveUp, Phases, Holding, AnalysePhases, ServePhases, ReaderPhases
  <2>6. ASSUME \/ StartReading(a) \/ GenerateCaseCandidates(a) \/ BeginStore(a)
               \/ CommitStore(a) \/ RollbackStore(a) \/ StartCheckpoint(a)
               \/ CheckpointDone(a) \/ CheckpointBusy(a) \/ CloseStore(a)
               \/ SnapshotRefused(a) \/ AnalysisFails(a)
        PROVE  ControlTypeOK'
    BY <2>1, <2>6, EnterType DEF StartReading, GenerateCaseCandidates, BeginStore,
       CommitStore, RollbackStore, StartCheckpoint, CheckpointDone, CheckpointBusy,
       CloseStore, SnapshotRefused, AnalysisFails, GiveUp, Behind, Pages, Results,
       Phases, Holding, AnalysePhases, ServePhases, ReaderPhases
  <2>7. QED
    BY <1>2, <2>2, <2>3, <2>4, <2>5, <2>6 DEF AnalyseStep
<1>3. ASSUME NEW s \in Serves, Listen(s) \/ ListenFails(s) \/ CloseServer(s)
      PROVE  ControlTypeOK'
  BY <1>3, EnterType DEF Listen, ListenFails, CloseServer, Procs, Phases, Holding,
     AnalysePhases, ServePhases, ReaderPhases
<1>4. ASSUME NEW v \in Viewers, OpenCaseReadOnly(v) PROVE ControlTypeOK'
  BY <1>4, EnterType DEF OpenCaseReadOnly, Viewers, Procs, Phases, Holding,
     AnalysePhases, ServePhases, ReaderPhases
<1>5. ASSUME NEW v \in Viewers, NEW t \in Pages, ReadPage(v, t) PROVE ControlTypeOK'
  BY <1>5, DidType DEF ReadPage, Viewers, Procs
<1>6. ASSUME NEW r \in Readers, CloseCase(r) PROVE ControlTypeOK'
  BY <1>6, EnterType DEF CloseCase, Procs, Phases, Holding, AnalysePhases, ServePhases,
     ReaderPhases
<1>7. ASSUME NEW p \in Procs, Crash(p) PROVE ControlTypeOK'
  BY <1>7, EnterType DEF Crash, Phases, Holding, AnalysePhases, ServePhases, ReaderPhases
<1>8. CASE (\E k \in Tamperable : Tamper(k)) \/ UNCHANGED vars
  BY <1>8 DEF Tamper, vars, ControlTypeOK
<1>9. QED
  BY <1>1, <1>2, <1>3, <1>4, <1>5, <1>6, <1>7, <1>8 DEF Next

LEMMA LockTypeNext ==
    ASSUME TypeOK, [Next]_vars
    PROVE  LockTypeOK'
<1> USE DEF TypeOK
<1>1. ASSUME NEW p \in Lockers, Contend(p) \/ LockStep(p) PROVE LockTypeOK'
  BY <1>1 DEF Contend, LockStep, BeginExclusive, LockBusy, ReadHolder, WriteHolder,
     Release, LockTypeOK, lockVars
<1>2. ASSUME NEW a \in Analyses, AnalyseStep(a) PROVE UNCHANGED lockVars
  BY <1>2 DEF AnalyseStep, VerifyFile, IntegrityRefusal, SkipArtifact, SnapshotFile,
     AnalyseArtifact, ParseInPlace, Parse, SnapshotRefused, StartReading,
     GenerateCaseCandidates,
     AnalysisFails, BeginStore, CommitStore, RollbackStore, PersistArtifact, CopyPage,
     StartCheckpoint, CheckpointDone, CheckpointBusy, CloseStore
<1>3. ASSUME NEW s \in Serves, Listen(s) \/ ListenFails(s) \/ CloseServer(s)
      PROVE  UNCHANGED lockVars
  BY <1>3 DEF Listen, ListenFails, CloseServer
<1>4. ASSUME NEW v \in Viewers, OpenCaseReadOnly(v) \/ \E t \in Pages : ReadPage(v, t)
      PROVE  UNCHANGED lockVars
  BY <1>4 DEF OpenCaseReadOnly, ReadPage
<1>5. ASSUME NEW r \in Readers, CloseCase(r) PROVE UNCHANGED lockVars
  BY <1>5 DEF CloseCase
<1>6. ASSUME NEW p \in Procs, Crash(p) PROVE LockTypeOK'
  BY <1>6 DEF Crash, LockTypeOK
<1>7. CASE (\E k \in Tamperable : Tamper(k)) \/ UNCHANGED vars
  BY <1>7 DEF Tamper, vars, lockVars, LockTypeOK
<1>8. UNCHANGED lockVars => LockTypeOK'
  BY DEF lockVars, LockTypeOK
<1>9. QED
  BY <1>1, <1>2, <1>3, <1>4, <1>5, <1>6, <1>7, <1>8 DEF Next

(* The image of the store and its parts.                                   *)

LEMMA PageSubset == Page(Status) \subseteq AnyPage /\ Page(Stock) \subseteq AnyPage
<1>1. Seq(Status) \subseteq Seq(RowValues) /\ Seq(Stock) \subseteq Seq(RowValues)
  BY DEF RowValues
<1>2. QED
  BY <1>1 DEF Page, AnyPage

\* The pages are of three kinds, and the records page of an artifact is its own.
LEMMA PageKinds ==
    /\ Results \subseteq Pages /\ Records \subseteq Pages /\ Runs \in Pages
    /\ Runs \notin Results /\ Runs \notin Records
    /\ \A t \in Results : RecordsOf(t) \in Records /\ t \notin Records
    /\ \A t \in Records : t \notin Results
    /\ \A t, u \in Results : RecordsOf(t) = RecordsOf(u) => t = u
    /\ \A t \in Records : \E u \in Results : t = RecordsOf(u)
BY PagesAssumption DEF Pages, Records, RecordsOf

LEMMA ReplaceInSeq ==
    ASSUME NEW S, NEW rows \in Seq(S), NEW i, NEW e \in S
    PROVE  [rows EXCEPT ![i] = e] \in Seq(S)
<1>1. rows \in [1..Len(rows) -> S] /\ Len(rows) \in Nat
  OBVIOUS
<1>2. [rows EXCEPT ![i] = e] \in [1..Len(rows) -> S]
  BY <1>1
<1>3. QED
  BY <1>1, <1>2

LEMMA EmptyImageType == EmptyImage \in Image
<1>1. EmptyPage \in Page(Status) /\ EmptyPage \in Page(Stock)
  BY DEF EmptyPage, Page
<1>2. EmptyImage \in [Pages -> AnyPage]
  BY <1>1, PageSubset DEF EmptyImage
<1>3. /\ \A t \in Results : EmptyImage[t] \in Page(Status)
      /\ \A t \in Records : EmptyImage[t] \in Page(Stock)
  BY <1>1 DEF EmptyImage, Pages
<1>4. QED
  BY <1>2, <1>3 DEF Image

LEMMA ImageParts ==
    ASSUME NEW i \in Image
    PROVE  /\ i \in [Pages -> AnyPage] /\ Stored(i) \in Nat
           /\ \A t \in Results : i[t] \in Page(Status)
           /\ \A t \in Records : i[t] \in Page(Stock)
BY DEF Image, Stored, Pages, AnyPage, Page

LEMMA PutPage ==
    ASSUME NEW i \in Image, NEW t \in Pages, NEW x \in AnyPage,
           t \in Results => x \in Page(Status), t \in Records => x \in Page(Stock)
    PROVE  [i EXCEPT ![t] = x] \in Image
<1>1. /\ i \in [Pages -> AnyPage] /\ \A u \in Results : i[u] \in Page(Status)
      /\ \A u \in Records : i[u] \in Page(Stock)
  BY ImageParts
<1>2. [i EXCEPT ![t] = x] \in [Pages -> AnyPage]
  BY <1>1
<1>3. /\ \A u \in Results : [i EXCEPT ![t] = x][u] \in Page(Status)
      /\ \A u \in Records : [i EXCEPT ![t] = x][u] \in Page(Stock)
  BY <1>1 DEF Pages
<1>4. QED
  BY <1>2, <1>3 DEF Image

LEMMA WithResultType ==
    ASSUME NEW results \in Page(Status), NEW run \in Nat, NEW status \in Status
    PROVE  WithResult(results, run, status) \in Page(Status)
BY DEF WithResult, Page

LEMMA WithRecordsType ==
    ASSUME NEW records \in Page(Stock), NEW status
    PROVE  WithRecords(records, status) \in Page(Stock)
BY DEF WithRecords, Page, Stock

\* What storing a result does to the image.
LEMMA PersistEffect ==
    ASSUME TypeOK, NEW a \in Analyses, NEW t \in Results, PersistArtifact(a, t)
    PROVE  /\ txn' \in Image
           /\ txn'[t] = WithResult(txn[t], Stored(txn), outcome[a][t])
           /\ txn'[RecordsOf(t)] = WithRecords(txn[RecordsOf(t)], outcome[a][t])
           /\ \A u \in Pages \ {t, RecordsOf(t)} : txn'[u] = txn[u]
<1> DEFINE x == WithResult(txn[t], Stored(txn), outcome[a][t])
           y == WithRecords(txn[RecordsOf(t)], outcome[a][t])
           half == [txn EXCEPT ![t] = x]
<1>1. /\ outcome[a][t] \in Status /\ Stored(txn) \in Nat /\ txn \in [Pages -> AnyPage]
      /\ txn[t] \in Page(Status) /\ txn[RecordsOf(t)] \in Page(Stock) /\ txn \in Image
  BY ImageParts, PageKinds DEF TypeOK, MemoryTypeOK, ImageTypeOK
<1>2. x \in Page(Status) /\ y \in Page(Stock)
  BY <1>1, WithResultType, WithRecordsType
<1>3. x \in AnyPage /\ y \in AnyPage
  BY <1>2, PageSubset
<1>4. txn' = [half EXCEPT ![RecordsOf(t)] = y]
  BY <1>1, PageKinds DEF PersistArtifact
<1> HIDE DEF x, y, half
<1>5. half \in Image
  <2>1. half = [txn EXCEPT ![t] = x]
    BY DEF half
  <2>2. QED
    BY <1>1, <1>2, <1>3, <2>1, PageKinds, PutPage
<1>6. txn' \in Image
  BY <1>2, <1>3, <1>4, <1>5, PageKinds, PutPage
<1>7. half \in [Pages -> AnyPage] /\ half[t] = x
      /\ \A u \in Pages \ {t} : half[u] = txn[u]
  BY <1>1, <1>5, ImageParts, PageKinds DEF half
<1>8. QED
  BY <1>4, <1>6, <1>7, PageKinds DEF x, y

LEMMA ImageTypeNext ==
    ASSUME TypeOK, [Next]_vars
    PROVE  ImageTypeOK'
<1> USE DEF TypeOK
<1>1. UNCHANGED storeVars => ImageTypeOK'
  BY DEF storeVars, ImageTypeOK
<1>2. ASSUME NEW p \in Lockers, Contend(p) \/ LockStep(p) PROVE UNCHANGED storeVars
  BY <1>2 DEF Contend, LockStep, BeginExclusive, LockBusy, ReadHolder, WriteHolder,
     Release
<1>3. ASSUME NEW a \in Analyses, AnalyseStep(a) PROVE ImageTypeOK'
  <2>1. EmptyImage \in Image
    BY EmptyImageType
  <2>2. CASE BeginStore(a)
    <3> DEFINE x == RunPage(Append(committed[Runs].rows, "running"))
    <3>1. committed[Runs] \in AnyPage /\ committed \in Image
      BY ImageParts DEF ImageTypeOK, Pages
    <3>2. x \in AnyPage
      BY <3>1 DEF AnyPage, Page, RunPage, RowValues
    <3>3. txn' = [committed EXCEPT ![Runs] = x]
      BY <2>2 DEF BeginStore
    <3>4. txn' \in Image
      <4> HIDE DEF x
      <4> QED
        BY <3>1, <3>2, <3>3, PutPage, PageKinds
    <3>5. QED
      BY <2>2, <3>4 DEF BeginStore, ImageTypeOK
  <2>3. ASSUME NEW t \in Results, PersistArtifact(a, t) PROVE ImageTypeOK'
    BY <2>3, PersistEffect DEF PersistArtifact, ImageTypeOK
  <2>4. CASE CommitStore(a)
    <3> DEFINE x == RunPage([txn[Runs].rows EXCEPT ![Stored(txn)] =
                                 RunStatus(outcome[a])])
    <3>1. RunStatus(outcome[a]) \in ExitStates
      BY DEF RunStatus, ExitStates
    <3>2. txn[Runs] \in AnyPage /\ txn \in Image
      BY ImageParts DEF ImageTypeOK, Pages
    <3>3. x \in AnyPage
      BY <3>1, <3>2, ReplaceInSeq DEF AnyPage, Page, RunPage, RowValues
    <3>4. committed' = [txn EXCEPT ![Runs] = x]
      BY <2>4 DEF CommitStore
    <3>5. committed' \in Image
      <4> HIDE DEF x
      <4> QED
        BY <3>2, <3>3, <3>4, PutPage, PageKinds
    <3>6. QED
      BY <2>1, <2>4, <3>5 DEF CommitStore, ImageTypeOK
  <2>5. CASE RollbackStore(a)
    BY <2>1, <2>5 DEF RollbackStore, ImageTypeOK
  <2>6. ASSUME NEW t \in Pages, CopyPage(a, t) PROVE ImageTypeOK'
    <3>1. /\ committed[t] \in AnyPage /\ main \in Image
          /\ t \in Results => committed[t] \in Page(Status)
          /\ t \in Records => committed[t] \in Page(Stock)
      BY ImageParts DEF ImageTypeOK
    <3>2. main' \in Image
      BY <2>6, <3>1, PutPage DEF CopyPage
    <3>3. QED
      BY <2>6, <3>2 DEF CopyPage, ImageTypeOK
  <2>7. CASE \/ \E k \in Keys : \/ VerifyFile(a, k) \/ IntegrityRefusal(a, k)
                                \/ SkipArtifact(a, k) \/ SnapshotFile(a, k)
                                \/ AnalyseArtifact(a, k) \/ ParseInPlace(a, k)
             \/ SnapshotRefused(a) \/ StartReading(a) \/ GenerateCaseCandidates(a)
             \/ AnalysisFails(a) \/ StartCheckpoint(a) \/ CheckpointDone(a)
             \/ CheckpointBusy(a) \/ CloseStore(a)
    BY <1>1, <2>7 DEF VerifyFile, IntegrityRefusal, SkipArtifact, SnapshotFile,
       AnalyseArtifact, ParseInPlace, Parse, SnapshotRefused, StartReading,
     GenerateCaseCandidates,
       AnalysisFails, StartCheckpoint, CheckpointDone, CheckpointBusy, CloseStore
  <2>8. QED
    BY <1>3, <2>2, <2>3, <2>4, <2>5, <2>6, <2>7 DEF AnalyseStep
<1>4. ASSUME NEW s \in Serves, Listen(s) \/ ListenFails(s) \/ CloseServer(s)
      PROVE  UNCHANGED storeVars
  BY <1>4 DEF Listen, ListenFails, CloseServer
<1>5. ASSUME NEW v \in Viewers, OpenCaseReadOnly(v) \/ \E t \in Pages : ReadPage(v, t)
      PROVE  UNCHANGED storeVars
  BY <1>5 DEF OpenCaseReadOnly, ReadPage
<1>6. ASSUME NEW r \in Readers, CloseCase(r) PROVE UNCHANGED storeVars
  BY <1>6 DEF CloseCase
<1>7. ASSUME NEW p \in Procs, Crash(p) PROVE ImageTypeOK'
  BY <1>7, EmptyImageType DEF Crash, ImageTypeOK
<1>8. CASE (\E k \in Tamperable : Tamper(k)) \/ UNCHANGED vars
  BY <1>1, <1>8 DEF Tamper, vars, storeVars
<1>9. QED
  BY <1>1, <1>2, <1>3, <1>4, <1>5, <1>6, <1>7, <1>8 DEF Next

LEMMA MemoryTypeNext ==
    ASSUME TypeOK, [Next]_vars
    PROVE  MemoryTypeOK'
<1> USE DEF TypeOK
<1>1. UNCHANGED readVars => MemoryTypeOK'
  BY DEF readVars, MemoryTypeOK
<1>2. ASSUME NEW p \in Lockers, Contend(p) \/ LockStep(p) PROVE UNCHANGED readVars
  BY <1>2 DEF Contend, LockStep, BeginExclusive, LockBusy, ReadHolder, WriteHolder,
     Release
<1>3. ASSUME NEW a \in Analyses, AnalyseStep(a) PROVE MemoryTypeOK'
  <2>1. ASSUME NEW k \in Keys, SkipArtifact(a, k) PROVE MemoryTypeOK'
    BY <2>1 DEF SkipArtifact, MemoryTypeOK, Results, Status
  <2>2. ASSUME NEW k \in Keys, SnapshotFile(a, k) PROVE MemoryTypeOK'
    BY <2>2 DEF SnapshotFile, MemoryTypeOK, Bytes
  <2>3. ASSUME NEW k \in Keys, AnalyseArtifact(a, k) \/ ParseInPlace(a, k)
        PROVE  MemoryTypeOK'
    <3>1. PICK s \in {"complete", "unavailable"} : outcome' = [outcome EXCEPT ![a][k] = s]
      BY <2>3 DEF AnalyseArtifact, ParseInPlace, Parse
    <3>2. outcome' \in [Analyses -> [Results -> Status]]
      BY <3>1 DEF MemoryTypeOK, Results, Status
    <3>3. UNCHANGED <<missing, altered>> /\ tainted' \in [Analyses -> SUBSET Keys]
      <4>1. /\ UNCHANGED <<missing, altered>>
            /\ tainted' = tainted \/ tainted' = [tainted EXCEPT ![a] = @ \cup {k}]
        BY <2>3 DEF AnalyseArtifact, ParseInPlace, Parse, MemoryTypeOK
      <4>2. QED
        BY <4>1 DEF MemoryTypeOK
    <3>4. snapshot' = snapshot \/ snapshot' = [snapshot EXCEPT ![a] = NoSnapshot]
      BY <2>3 DEF AnalyseArtifact, ParseInPlace
    <3>5. QED
      BY <3>2, <3>3, <3>4 DEF MemoryTypeOK
  <2>4. CASE GenerateCaseCandidates(a)
    <3>1. \A d \in Derived : DescribeInputs(d, outcome[a]) \in Status
      BY DEF DescribeInputs, Status
    <3>2. QED
      BY <2>4, <3>1 DEF GenerateCaseCandidates, MemoryTypeOK, Results
  <2>5. ASSUME NEW k \in Keys,
               \/ IntegrityRefusal(a, k) \/ SnapshotRefused(a) \/ AnalysisFails(a)
               \/ CommitStore(a) \/ RollbackStore(a)
        PROVE  MemoryTypeOK'
    BY <2>5, ForgetType DEF IntegrityRefusal, SnapshotRefused, AnalysisFails,
       CommitStore, RollbackStore, GiveUp
  <2>6. CASE \/ SnapshotRefused(a) \/ AnalysisFails(a) \/ CommitStore(a)
             \/ RollbackStore(a)
    BY <2>6, ForgetType DEF SnapshotRefused, AnalysisFails, CommitStore, RollbackStore,
       GiveUp
  <2>7. CASE \/ \E k \in Keys : VerifyFile(a, k)
             \/ StartReading(a) \/ BeginStore(a) \/ StartCheckpoint(a)
             \/ \E t \in Results : PersistArtifact(a, t)
             \/ \E t \in Pages : CopyPage(a, t)
             \/ CheckpointDone(a) \/ CheckpointBusy(a) \/ CloseStore(a)
    BY <1>1, <2>7 DEF VerifyFile, StartReading, BeginStore, StartCheckpoint,
       PersistArtifact, CopyPage, CheckpointDone, CheckpointBusy, CloseStore
  <2>8. QED
    BY <1>3, <2>1, <2>2, <2>3, <2>4, <2>5, <2>6, <2>7 DEF AnalyseStep
<1>4. ASSUME NEW s \in Serves, Listen(s) \/ ListenFails(s) \/ CloseServer(s)
      PROVE  UNCHANGED readVars
  BY <1>4 DEF Listen, ListenFails, CloseServer
<1>5. ASSUME NEW v \in Viewers, OpenCaseReadOnly(v) \/ \E t \in Pages : ReadPage(v, t)
      PROVE  UNCHANGED readVars
  BY <1>5 DEF OpenCaseReadOnly, ReadPage
<1>6. ASSUME NEW r \in Readers, CloseCase(r) PROVE UNCHANGED readVars
  BY <1>6 DEF CloseCase
<1>7. ASSUME NEW p \in Procs, Crash(p) PROVE MemoryTypeOK'
  BY <1>7, ForgetType DEF Crash
<1>8. CASE \E k \in Tamperable : Tamper(k)
  BY <1>8, BoundsAssumption DEF Tamper, MemoryTypeOK
<1>9. CASE UNCHANGED vars
  BY <1>9 DEF vars, MemoryTypeOK
<1>10. QED
  BY <1>1, <1>2, <1>3, <1>4, <1>5, <1>6, <1>7, <1>8, <1>9 DEF Next

\* What readers may have read, as a set of functions.
PartialImages == UNION {[S -> AnyPage] : S \in SUBSET Pages}
Views == [Viewers -> PartialImages]

LEMMA ViewsAre ==
    ASSUME NEW f
    PROVE  f \in Views <=>
              /\ f = [v \in Viewers |-> f[v]]
              /\ \A v \in Viewers : /\ DOMAIN f[v] \subseteq Pages
                                    /\ f[v] \in [DOMAIN f[v] -> AnyPage]
<1>1. ASSUME NEW g
      PROVE  g \in PartialImages <=>
                DOMAIN g \subseteq Pages /\ g \in [DOMAIN g -> AnyPage]
  BY DEF PartialImages
<1> QED BY <1>1 DEF Views

LEMMA ViewTypeNext ==
    ASSUME TypeOK, [Next]_vars
    PROVE  ViewTypeOK'
<1>0. view \in Views
  BY ViewsAre DEF TypeOK, ViewTypeOK
<1>1. NoView \in PartialImages
  BY DEF NoView, PartialImages
<1>2. ASSUME NEW p \in Lockers, Contend(p) \/ LockStep(p) PROVE UNCHANGED view
  BY <1>2 DEF Contend, LockStep, BeginExclusive, LockBusy, ReadHolder, WriteHolder,
     Release
<1>3. ASSUME NEW a \in Analyses, AnalyseStep(a) PROVE UNCHANGED view
  BY <1>3 DEF AnalyseStep, VerifyFile, IntegrityRefusal, SkipArtifact, SnapshotFile,
     AnalyseArtifact, ParseInPlace, Parse, SnapshotRefused, StartReading,
     GenerateCaseCandidates,
     AnalysisFails, BeginStore, CommitStore, RollbackStore, PersistArtifact, CopyPage,
     StartCheckpoint, CheckpointDone, CheckpointBusy, CloseStore
<1>4. ASSUME NEW s \in Serves, Listen(s) \/ ListenFails(s) \/ CloseServer(s)
      PROVE  view' \in Views
  BY <1>0, <1>1, <1>4 DEF Listen, ListenFails, CloseServer, Views, Viewers
<1>5. ASSUME NEW v \in Viewers, OpenCaseReadOnly(v) PROVE view' \in Views
  BY <1>0, <1>1, <1>5 DEF OpenCaseReadOnly, Views
<1>6. ASSUME NEW v \in Viewers, NEW t \in Pages, ReadPage(v, t) PROVE view' \in Views
  <2>1. PICK S \in SUBSET Pages : view[v] \in [S -> AnyPage]
    BY <1>0 DEF Views, PartialImages
  <2>2. main[t] \in AnyPage
    BY DEF TypeOK, ImageTypeOK, Image
  <2> DEFINE next == [u \in DOMAIN view[v] \cup {t} |->
                          IF u = t THEN main[t] ELSE view[v][u]]
  <2>3. next \in [S \cup {t} -> AnyPage]
    BY <2>1, <2>2
  <2>4. S \cup {t} \in SUBSET Pages
    OBVIOUS
  <2>5. next \in PartialImages
    BY <2>3, <2>4 DEF PartialImages
  <2>6. view' = [view EXCEPT ![v] = next]
    BY <1>6 DEF ReadPage
  <2>7. QED
    BY <1>0, <2>5, <2>6 DEF Views
<1>7. ASSUME NEW r \in Readers, CloseCase(r) PROVE view' \in Views
  BY <1>0, <1>1, <1>7 DEF CloseCase, Views, Viewers
<1>8. ASSUME NEW p \in Procs, Crash(p) PROVE view' \in Views
  <2>1. view' = [v \in Viewers |-> IF v = p THEN NoView ELSE view[v]]
    BY <1>8 DEF Crash
  <2> QED BY <1>0, <1>1, <2>1 DEF Views
<1>9. ASSUME (\E k \in Tamperable : Tamper(k)) \/ UNCHANGED vars
      PROVE  view' \in Views
  <2>1. view' = view
    BY <1>9 DEF Tamper, vars
  <2> QED BY <1>0, <2>1
<1>10. view' \in Views
  BY <1>0, <1>2, <1>3, <1>4, <1>5, <1>6, <1>7, <1>8, <1>9 DEF Next
<1> QED BY <1>10, ViewsAre DEF ViewTypeOK

LEMMA TypeInit == Init => TypeOK
<1> SUFFICES ASSUME Init PROVE TypeOK
  OBVIOUS
<1>1. LockTypeOK
  BY DEF Init, LockTypeOK
<1>2. ControlTypeOK
  BY DEF Init, ControlTypeOK, Phases, Holding, AnalysePhases, ServePhases, ReaderPhases
<1>3. MemoryTypeOK
  BY DEF Init, MemoryTypeOK, Unread, Status
<1>4. ImageTypeOK
  BY EmptyImageType DEF Init, ImageTypeOK
<1>5. ViewTypeOK
  <2>1. NoView \in [{} -> AnyPage] /\ {} \in SUBSET Pages
    BY DEF NoView
  <2>2. view = [v \in Viewers |-> NoView]
    BY DEF Init
  <2>3. QED
    BY <2>1, <2>2 DEF ViewTypeOK
<1>6. QED
  BY <1>1, <1>2, <1>3, <1>4, <1>5 DEF TypeOK

\* Every variable keeps its type, for all processes, artifacts and bounds.
THEOREM TypeCorrect == Spec => []TypeOK
<1>1. TypeOK /\ [Next]_vars => TypeOK'
  BY LockTypeNext, ControlTypeNext, MemoryTypeNext, ImageTypeNext, ViewTypeNext
     DEF TypeOK
<1>2. QED
  BY TypeInit, <1>1, PTL DEF Spec

--------------------------------------------------------------------------------
(* The Case lock.                                                          *)

LEMMA HolderMoves ==
    ASSUME TypeOK, OneHolder, NEW p \in Procs, NEW ph, NEW work,
           Enter(p, ph, work), lock' = lock, phase[p] \in Holding \/ ph \notin Holding
    PROVE  OneHolder'
BY DEF TypeOK, ControlTypeOK, OneHolder, Enter

LEMMA HolderStays ==
    ASSUME OneHolder, lock' = lock, phase' = phase
    PROVE  OneHolder'
BY DEF OneHolder

LEMMA ExclusionNext ==
    ASSUME TypeOK, OneHolder, [Next]_vars
    PROVE  OneHolder'
<1>1. ASSUME NEW p \in Lockers, Contend(p) \/ LockStep(p) PROVE OneHolder'
  <2>1. p \in Procs /\ p # NoProc
    BY ProcsAssumption DEF Lockers, Procs
  <2>2. CASE Contend(p) \/ LockBusy(p) \/ ReadHolder(p)
    BY <2>1, <2>2, HolderMoves DEF Contend, LockBusy, ReadHolder, lockVars, Holding,
       AnalysePhases, ServePhases
  <2>3. CASE BeginExclusive(p)
    <3>1. \A q \in Procs : phase[q] \notin Holding
      BY <2>3, ProcsAssumption DEF BeginExclusive, OneHolder
    <3>2. QED
      BY <2>3, <3>1 DEF BeginExclusive, OneHolder, Enter, TypeOK, ControlTypeOK
  <2>4. CASE WriteHolder(p)
    BY <2>1, <2>4, HolderMoves DEF WriteHolder, Holding
  <2>5. CASE Release(p)
    <3>1. \A q \in Procs : phase[q] \in Holding => q = p
      BY <2>1, <2>5 DEF Release, OneHolder, Holding, AnalysePhases
    <3>2. QED
      BY <2>1, <2>5, <3>1 DEF Release, OneHolder, Enter, TypeOK, ControlTypeOK,
         Holding, AnalysePhases, ServePhases
  <2>6. QED
    BY <1>1, <2>2, <2>3, <2>4, <2>5 DEF LockStep
<1>2. ASSUME NEW a \in Analyses, AnalyseStep(a) PROVE OneHolder'
  <2>1. a \in Procs
    BY DEF Procs
  <2>2. CASE \/ \E k \in Keys : VerifyFile(a, k) \/ SkipArtifact(a, k)
                              \/ SnapshotFile(a, k) \/ AnalyseArtifact(a, k)
                              \/ ParseInPlace(a, k)
             \/ \E t \in Results : PersistArtifact(a, t)
             \/ \E t \in Pages : CopyPage(a, t)
    BY <2>2, HolderStays DEF VerifyFile, SkipArtifact, SnapshotFile, AnalyseArtifact,
       ParseInPlace, Parse,
       PersistArtifact, CopyPage, DidNext, Did, lockVars
  <2>3. CASE \/ \E k \in Keys : IntegrityRefusal(a, k)
             \/ SnapshotRefused(a) \/ AnalysisFails(a) \/ StartReading(a)
             \/ GenerateCaseCandidates(a) \/ BeginStore(a) \/ CommitStore(a)
    BY <2>1, <2>3, HolderMoves DEF IntegrityRefusal, SnapshotRefused, AnalysisFails,
       StartReading, GenerateCaseCandidates, BeginStore, CommitStore, GiveUp,
       lockVars, Holding, AnalysePhases
  <2>4. CASE \/ RollbackStore(a) \/ StartCheckpoint(a) \/ CheckpointDone(a)
             \/ CheckpointBusy(a) \/ CloseStore(a)
    BY <2>1, <2>4, HolderMoves DEF RollbackStore, StartCheckpoint, CheckpointDone,
       CheckpointBusy, CloseStore, lockVars, Holding, AnalysePhases
  <2>5. QED
    BY <1>2, <2>2, <2>3, <2>4 DEF AnalyseStep
<1>3. ASSUME NEW s \in Serves, Listen(s) \/ ListenFails(s) \/ CloseServer(s)
      PROVE  OneHolder'
  BY <1>3, HolderMoves DEF Listen, ListenFails, CloseServer, lockVars, Procs, Holding,
     ServePhases
<1>4. ASSUME NEW v \in Viewers, OpenCaseReadOnly(v) PROVE OneHolder'
  <2>1. v \in Procs /\ (v \notin Serves => "reading" \notin Holding)
    BY DEF Viewers, Procs, Holding, AnalysePhases, ServePhases
  <2>2. phase[v] \in Holding \/ (IF v \in Serves THEN "serving" ELSE "reading") \notin Holding
    BY <1>4, <2>1 DEF OpenCaseReadOnly, Holding, ServePhases
  <2>3. QED
    BY <1>4, <2>1, <2>2, HolderMoves DEF OpenCaseReadOnly, lockVars
<1>5. ASSUME NEW v \in Viewers, NEW t \in Pages, ReadPage(v, t) PROVE OneHolder'
  BY <1>5, HolderStays DEF ReadPage, Did, lockVars
<1>6. ASSUME NEW r \in Readers, CloseCase(r) PROVE OneHolder'
  BY <1>6, HolderMoves DEF CloseCase, lockVars, Procs, Holding, AnalysePhases, ServePhases
<1>7. ASSUME NEW p \in Procs, Crash(p) PROVE OneHolder'
  BY <1>7 DEF Crash, OneHolder, Enter, TypeOK, ControlTypeOK, Holding, AnalysePhases,
     ServePhases
<1>8. CASE (\E k \in Tamperable : Tamper(k)) \/ UNCHANGED vars
  BY <1>8, HolderStays DEF Tamper, vars, lockVars
<1>9. QED
  BY <1>1, <1>2, <1>3, <1>4, <1>5, <1>6, <1>7, <1>8 DEF Next

LEMMA OneHolderInit == Init => OneHolder
BY DEF Init, OneHolder, Holding, AnalysePhases, ServePhases

\* analyse and serve exclude each other, and themselves, at every step of both,
\* wherever processes are killed.
THEOREM Exclusion == Spec => []OneHolder
<1>1. TypeOK /\ OneHolder /\ [Next]_vars => OneHolder'
  BY ExclusionNext
<1>2. QED
  BY OneHolderInit, TypeCorrect, <1>1, PTL DEF Spec

--------------------------------------------------------------------------------
(* The store.  ActiveIsLastComplete is not inductive by itself: that a     *)
(* commit preserves it needs the shape of the open transaction, and that   *)
(* readers see it needs that the main file is what was copied.             *)

\* The transaction of an open store: the results that are done have the new run's
\* row and their records, the others are as committed.
StoreShape ==
    \A a \in Analyses : phase[a] = "store" =>
        /\ todo[a] \subseteq Results
        /\ txn[Runs] = RunPage(Append(committed[Runs].rows, "running"))
        /\ \A t \in Results :
              /\ txn[t] = IF t \in todo[a] THEN committed[t]
                          ELSE WithResult(committed[t], Stored(committed) + 1,
                                          outcome[a][t])
              /\ txn[RecordsOf(t)] =
                    IF t \in todo[a] THEN committed[RecordsOf(t)]
                    ELSE WithRecords(committed[RecordsOf(t)], outcome[a][t])

\* A checkpoint in progress: what is not to do is copied.
CopyShape ==
    \A a \in Analyses : phase[a] \in {"checkpoint", "closing"} =>
        \A t \in Pages \ todo[a] : main[t] = committed[t]

\* The results that the main file has are marked as the store marked them.
FileActive == \A t \in Results : main[t].active = LastComplete(main[t].rows)

NoneRunning ==
    \A i \in 1..Stored(committed) : committed[Runs].rows[i] # "running"

StoreInv == /\ RunsAreWhole /\ NoneRunning /\ FileOnlyCommitted
            /\ ActiveIsLastComplete /\ FileActive
            /\ StoreShape /\ CopyShape /\ SuccessIsVisible

StorePhases == {"store", "checkpoint", "closing", "done"}

\* Activating a complete result, and nothing else, keeps the active result the
\* last complete one.
LEMMA LastCompleteAppend ==
    ASSUME NEW rows \in Seq(Status), NEW s \in Status
    PROVE  LastComplete(Append(rows, s)) =
              IF s = "complete" THEN {Len(rows) + 1} ELSE LastComplete(rows)
<1> DEFINE n == Len(rows)  new == Append(rows, s)
<1>1. n \in Nat /\ Len(new) = n + 1 /\ new[n + 1] = s /\ \A i \in 1..n : new[i] = rows[i]
  OBVIOUS
<1> HIDE DEF n, new
<1>2. CASE s = "complete"
  BY <1>1, <1>2 DEF LastComplete, n, new
<1>3. CASE s # "complete"
  <2>1. ASSUME NEW i PROVE i \in LastComplete(new) <=> i \in LastComplete(rows)
    BY <1>1, <1>3 DEF LastComplete, n
  <2>2. QED
    BY <1>3, <2>1 DEF LastComplete, n, new
<1>4. QED
  BY <1>2, <1>3

LEMMA WithResultRows ==
    ASSUME NEW results \in Page(Status), NEW s \in Status,
           results.active = LastComplete(results.rows)
    PROVE  LET next == WithResult(results, Len(results.rows) + 1, s)
           IN  /\ next.rows = Append(results.rows, s)
               /\ next.active = LastComplete(next.rows)
BY LastCompleteAppend DEF WithResult, Page

\* A step that leaves the store alone and moves nobody inside a store phase.
LEMMA Quiet ==
    ASSUME StoreInv, UNCHANGED storeVars,
           \A a \in Analyses : phase'[a] \in StorePhases =>
               phase'[a] = phase[a] /\ todo'[a] = todo[a] /\ outcome'[a] = outcome[a]
    PROVE  StoreInv'
<1>1. (RunsAreWhole /\ NoneRunning /\ FileOnlyCommitted /\ ActiveIsLastComplete /\ FileActive)'
  BY DEF StoreInv, RunsAreWhole, NoneRunning, FileOnlyCommitted, ActiveIsLastComplete,
     FileActive, storeVars, Stored
<1>2. StoreShape'
  BY DEF StoreInv, StoreShape, StorePhases, storeVars, Stored
<1>3. CopyShape' /\ SuccessIsVisible'
  BY DEF StoreInv, CopyShape, SuccessIsVisible, StorePhases, storeVars
<1>4. QED
  BY <1>1, <1>2, <1>3 DEF StoreInv

LEMMA StoreInvInit == Init => StoreInv
<1> SUFFICES ASSUME Init PROVE StoreInv
  OBVIOUS
<1>1. \A t \in Pages : committed[t] = EmptyPage /\ main[t] = EmptyPage
  BY DEF Init, EmptyImage
<1>2. Stored(committed) = 0 /\ LastComplete(<< >>) = {}
  BY <1>1 DEF Stored, EmptyPage, Pages, LastComplete
<1>3. /\ RunsAreWhole /\ NoneRunning /\ FileOnlyCommitted
      /\ ActiveIsLastComplete /\ FileActive
  <2>1. RunsAreWhole /\ NoneRunning
    BY <1>1, <1>2 DEF RunsAreWhole, NoneRunning, EmptyPage
  <2>2. \A t \in Pages : Len(main[t].rows) = 0 /\ Len(committed[t].rows) = 0
    BY <1>1 DEF EmptyPage
  <2>3. FileOnlyCommitted
    BY <2>2 DEF FileOnlyCommitted
  <2>4. \A t \in Results : /\ committed[t].active = {} /\ committed[t].rows = << >>
                           /\ main[t].active = {} /\ main[t].rows = << >>
    BY <1>1 DEF EmptyPage, Pages
  <2>5. QED
    BY <1>2, <2>1, <2>3, <2>4 DEF ActiveIsLastComplete, FileActive
<1>4. \A a \in Analyses : phase[a] = "idle"
  BY DEF Init, Procs
<1>5. QED
  BY <1>3, <1>4 DEF StoreInv, StoreShape, CopyShape, SuccessIsVisible

LEMMA PersistKeepsStore ==
    ASSUME TypeOK, OneHolder, StoreInv, NEW a \in Analyses, NEW t \in Results,
           PersistArtifact(a, t)
    PROVE  StoreInv'
<1>1. /\ phase[a] = "store" /\ phase' = phase /\ t \in todo[a]
      /\ todo' = [todo EXCEPT ![a] = @ \ {t}]
      /\ UNCHANGED <<outcome, committed, main>>
  BY DEF PersistArtifact, DidNext, Did, readVars
<1>2. \A b \in Analyses : phase[b] \in StorePhases => b = a
  BY <1>1 DEF OneHolder, StorePhases, Holding, AnalysePhases, Procs
<1>3. (RunsAreWhole /\ NoneRunning /\ FileOnlyCommitted /\ ActiveIsLastComplete /\ FileActive)'
  BY <1>1 DEF StoreInv, RunsAreWhole, NoneRunning, FileOnlyCommitted,
     ActiveIsLastComplete, FileActive, Stored
<1>4. StoreShape'
  <2>1. /\ todo[a] \subseteq Results
        /\ txn[Runs] = RunPage(Append(committed[Runs].rows, "running"))
        /\ \A u \in Results :
              /\ txn[u] = IF u \in todo[a] THEN committed[u]
                          ELSE WithResult(committed[u], Stored(committed) + 1,
                                          outcome[a][u])
              /\ txn[RecordsOf(u)] =
                    IF u \in todo[a] THEN committed[RecordsOf(u)]
                    ELSE WithRecords(committed[RecordsOf(u)], outcome[a][u])
    BY <1>1 DEF StoreInv, StoreShape
  <2>2. Stored(txn) = Stored(committed) + 1
    <3>1. committed[Runs].rows \in Seq(RowValues)
      BY ImageParts, PageKinds DEF TypeOK, ImageTypeOK, AnyPage, Page
    <3>2. QED
      BY <2>1, <3>1 DEF Stored, RunPage
  <2>3. /\ txn'[t] = WithResult(committed[t], Stored(committed) + 1, outcome[a][t])
        /\ txn'[RecordsOf(t)] = WithRecords(committed[RecordsOf(t)], outcome[a][t])
        /\ \A u \in Pages \ {t, RecordsOf(t)} : txn'[u] = txn[u]
    <3>1. /\ txn'[t] = WithResult(txn[t], Stored(txn), outcome[a][t])
          /\ txn'[RecordsOf(t)] = WithRecords(txn[RecordsOf(t)], outcome[a][t])
          /\ \A u \in Pages \ {t, RecordsOf(t)} : txn'[u] = txn[u]
      BY PersistEffect
    <3>2. txn[t] = committed[t] /\ txn[RecordsOf(t)] = committed[RecordsOf(t)]
      BY <1>1, <2>1
    <3>3. QED
      BY <2>2, <3>1, <3>2
  <2>4. txn'[Runs] = txn[Runs]
    BY <2>3, PageKinds
  <2>5. \A u \in Results \ {t} : /\ txn'[u] = txn[u]
                                /\ txn'[RecordsOf(u)] = txn[RecordsOf(u)]
    BY <2>3, PageKinds
  <2>6. todo'[a] = todo[a] \ {t}
    BY <1>1 DEF TypeOK, ControlTypeOK, Procs
  <2>7. ASSUME NEW u \in Results
        PROVE  /\ txn'[u] = IF u \in todo'[a] THEN committed[u]
                            ELSE WithResult(committed[u], Stored(committed) + 1,
                                            outcome[a][u])
               /\ txn'[RecordsOf(u)] =
                     IF u \in todo'[a] THEN committed[RecordsOf(u)]
                     ELSE WithRecords(committed[RecordsOf(u)], outcome[a][u])
    <3>1. CASE u = t
      BY <2>3, <2>6, <3>1
    <3>2. CASE u # t
      BY <2>1, <2>5, <2>6, <3>2
    <3>3. QED
      BY <3>1, <3>2
  <2>8. QED
    BY <1>1, <1>2, <2>1, <2>4, <2>6, <2>7 DEF StoreShape, StorePhases, Stored
<1>5. CopyShape' /\ SuccessIsVisible'
  BY <1>1, <1>2 DEF CopyShape, SuccessIsVisible, StorePhases
<1>6. QED
  BY <1>3, <1>4, <1>5 DEF StoreInv

LEMMA BeginKeepsStore ==
    ASSUME TypeOK, OneHolder, StoreInv, NEW a \in Analyses, BeginStore(a)
    PROVE  StoreInv'
<1>1. /\ phase[a] = "reverify" /\ phase' = [phase EXCEPT ![a] = "store"]
      /\ todo' = [todo EXCEPT ![a] = Results]
      /\ txn' = [committed EXCEPT ![Runs] = RunPage(Append(@.rows, "running"))]
      /\ UNCHANGED <<outcome, committed, main>>
  BY DEF BeginStore, Enter, readVars
<1>2. \A b \in Analyses : phase[b] \notin StorePhases
  BY <1>1 DEF OneHolder, StorePhases, Holding, AnalysePhases, Procs
<1>3. (RunsAreWhole /\ NoneRunning /\ FileOnlyCommitted /\ ActiveIsLastComplete /\ FileActive)'
  BY <1>1 DEF StoreInv, RunsAreWhole, NoneRunning, FileOnlyCommitted,
     ActiveIsLastComplete, FileActive, Stored
<1>4. phase'[a] = "store" /\ todo'[a] = Results
      /\ \A b \in Analyses \ {a} : phase'[b] = phase[b]
  BY <1>1 DEF TypeOK, ControlTypeOK, Procs
<1>5. /\ txn'[Runs] = RunPage(Append(committed[Runs].rows, "running"))
      /\ \A t \in Results : /\ txn'[t] = committed[t]
                            /\ txn'[RecordsOf(t)] = committed[RecordsOf(t)]
  BY <1>1, ImageParts, PageKinds DEF TypeOK, ImageTypeOK
<1>6. StoreShape'
  BY <1>1, <1>2, <1>4, <1>5 DEF StoreShape, StorePhases
<1>7. CopyShape' /\ SuccessIsVisible'
  BY <1>1, <1>2, <1>4 DEF CopyShape, SuccessIsVisible, StorePhases
<1>8. QED
  BY <1>3, <1>6, <1>7 DEF StoreInv

\* The exit state goes into the row that the transaction added.
LEMMA SetLast ==
    ASSUME NEW S, NEW rows \in Seq(S), NEW x \in S, NEW e \in S, NEW next,
           next = [Append(rows, x) EXCEPT ![Len(rows) + 1] = e]
    PROVE  /\ Len(next) = Len(rows) + 1 /\ next[Len(rows) + 1] = e
           /\ \A i \in 1..Len(rows) : next[i] = rows[i]
<1> DEFINE n == Len(rows)  old == Append(rows, x)
<1>1. /\ n \in Nat /\ old \in [1..(n + 1) -> S]
      /\ \A i \in 1..n : old[i] = rows[i]
  <2>1. /\ n \in Nat /\ old \in Seq(S) /\ Len(old) = n + 1
        /\ \A i \in 1..n : old[i] = rows[i]
    OBVIOUS
  <2> HIDE DEF old, n
  <2>2. old \in [1..Len(old) -> S]
    BY <2>1
  <2>3. QED
    BY <2>1, <2>2
<1>2. next = [old EXCEPT ![n + 1] = e]
  OBVIOUS
<1> HIDE DEF n, old
<1>3. /\ next \in [1..(n + 1) -> S] /\ next[n + 1] = e
      /\ \A i \in 1..n : next[i] = old[i]
  BY <1>1, <1>2
<1>4. Len(next) = n + 1
  BY <1>1, <1>3
<1>5. QED
  BY <1>1, <1>3, <1>4 DEF n

\* The heart of it: what a commit publishes is, for every artifact, the rows of
\* before and the one of this run, with the active result as WithResult left it,
\* and for the run its exit state.
LEMMA CommitEffect ==
    ASSUME TypeOK, OneHolder, StoreInv, NEW a \in Analyses, CommitStore(a)
    PROVE  LET n == Stored(committed)
           IN  /\ n \in Nat
               /\ \A t \in Pages : /\ Len(committed'[t].rows) = n + 1
                                    /\ Len(committed[t].rows) = n
               /\ \A t \in Pages : \A i \in 1..n :
                      committed'[t].rows[i] = committed[t].rows[i]
               /\ committed'[Runs].rows[n + 1] = RunStatus(outcome[a])
               /\ \A t \in Results :
                      /\ committed'[t].active = LastComplete(committed'[t].rows)
                      /\ committed'[t].active = IF outcome[a][t] = "complete" THEN {n + 1}
                                                ELSE committed[t].active
                      /\ committed'[t].rows[n + 1] = outcome[a][t]
<1> DEFINE n == Stored(committed)
           exit == RunStatus(outcome[a])
           runs == RunPage([txn[Runs].rows EXCEPT ![Stored(txn)] = exit])
<1>1. /\ phase[a] = "store" /\ todo[a] = {} /\ phase' = [phase EXCEPT ![a] = "stored"]
      /\ committed' = [txn EXCEPT ![Runs] = runs] /\ main' = main
  BY DEF CommitStore, Enter
<1>2. /\ txn \in [Pages -> AnyPage] /\ n \in Nat
      /\ \A t \in Results : committed[t] \in Page(Status)
      /\ committed[Runs].rows \in Seq(RowValues)
  BY ImageParts, PageKinds DEF TypeOK, ImageTypeOK, AnyPage, Page
<1>3. /\ txn[Runs].rows = Append(committed[Runs].rows, "running")
      /\ \A t \in Results : txn[t] = WithResult(committed[t], n + 1, outcome[a][t])
  BY <1>1 DEF StoreInv, StoreShape, RunPage
<1>4. Len(committed[Runs].rows) = n /\ Stored(txn) = n + 1
  BY <1>2, <1>3 DEF Stored
<1>5. \A t \in Results : /\ committed[t].active = LastComplete(committed[t].rows)
                         /\ Len(committed[t].rows) = n /\ outcome[a][t] \in Status
  BY DEF StoreInv, ActiveIsLastComplete, RunsAreWhole, TypeOK, MemoryTypeOK, Pages
<1>6. \A t \in Results : committed'[t] = WithResult(committed[t], n + 1, outcome[a][t])
  <2>1. ASSUME NEW t \in Results PROVE committed'[t] = txn[t]
    <3> HIDE DEF runs
    <3> QED
      BY <1>1, <1>2, PageKinds
  <2>2. QED
    BY <1>3, <2>1
<1>7. committed'[Runs].rows = [Append(committed[Runs].rows, "running") EXCEPT ![n + 1] = exit]
  <2>1. committed'[Runs] = runs
    <3> HIDE DEF runs
    <3> QED
      BY <1>1, <1>2, PageKinds
  <2>2. QED
    BY <1>3, <1>4, <2>1 DEF RunPage
<1>8. /\ Len(committed'[Runs].rows) = n + 1 /\ committed'[Runs].rows[n + 1] = exit
      /\ \A i \in 1..n : committed'[Runs].rows[i] = committed[Runs].rows[i]
  <2>1. exit \in ExitStates
    BY DEF RunStatus, ExitStates
  <2> DEFINE rows == committed[Runs].rows
             next == committed'[Runs].rows
  <2>2. /\ rows \in Seq(RowValues) /\ "running" \in RowValues /\ exit \in RowValues
        /\ Len(rows) = n
    BY <1>2, <1>4, <2>1 DEF RowValues
  <2>3. next = [Append(rows, "running") EXCEPT ![Len(rows) + 1] = exit]
    BY <1>4, <1>7
  <2> HIDE DEF exit, n, rows, next
  <2>4. /\ Len(next) = Len(rows) + 1 /\ next[Len(rows) + 1] = exit
        /\ \A i \in 1..Len(rows) : next[i] = rows[i]
    BY <2>2, <2>3, SetLast
  <2>5. QED
    BY <2>2, <2>4 DEF rows, next
<1>9. ASSUME NEW t \in Results
      PROVE  /\ committed'[t].active = LastComplete(committed'[t].rows)
             /\ committed'[t].active = IF outcome[a][t] = "complete" THEN {n + 1}
                                       ELSE committed[t].active
             /\ Len(committed'[t].rows) = n + 1
             /\ \A i \in 1..n : committed'[t].rows[i] = committed[t].rows[i]
             /\ committed'[t].rows[n + 1] = outcome[a][t]
  <2>1. committed[t] \in Page(Status) /\ Len(committed[t].rows) = n
    BY <1>2, <1>5
  <2>2. /\ committed'[t].rows = Append(committed[t].rows, outcome[a][t])
        /\ committed'[t].active = LastComplete(committed'[t].rows)
    <3> DEFINE next == WithResult(committed[t], Len(committed[t].rows) + 1, outcome[a][t])
    <3>1. /\ next.rows = Append(committed[t].rows, outcome[a][t])
          /\ next.active = LastComplete(next.rows)
      BY <1>5, <2>1, WithResultRows
    <3>2. committed'[t] = next
      BY <1>6, <2>1
    <3> HIDE DEF next
    <3>3. QED
      BY <3>1, <3>2
  <2>3. committed[t].rows \in Seq(Status)
    BY <2>1 DEF Page
  <2>4. committed'[t].active = IF outcome[a][t] = "complete" THEN {n + 1}
                               ELSE committed[t].active
    <3>1. committed'[t] = WithResult(committed[t], n + 1, outcome[a][t])
      BY <1>6
    <3> HIDE DEF n
    <3>2. QED
      BY <3>1 DEF WithResult
  <2>5. QED
    BY <1>2, <1>5, <2>1, <2>2, <2>3, <2>4
<1>10. ASSUME NEW t \in Results
       PROVE  LET r == RecordsOf(t)
              IN  /\ Len(committed[r].rows) = n /\ Len(committed'[r].rows) = n + 1
                  /\ \A i \in 1..n : committed'[r].rows[i] = committed[r].rows[i]
  <2> DEFINE r == RecordsOf(t)
             e == IF outcome[a][t] = "complete" THEN "stored" ELSE "none"
  <2>1. committed'[r] = WithRecords(committed[r], outcome[a][t])
    <3>1. committed'[r] = txn[r]
      <4> HIDE DEF runs
      <4> QED
        BY <1>1, <1>2, PageKinds
    <3>2. QED
      BY <1>1, <3>1 DEF StoreInv, StoreShape
  <2>2. committed'[r].rows = Append(committed[r].rows, e)
    BY <2>1 DEF WithRecords
  <2>3. committed[r].rows \in Seq(Stock) /\ Len(committed[r].rows) = n
    BY ImageParts, PageKinds DEF TypeOK, ImageTypeOK, Page, StoreInv, RunsAreWhole
  <2> HIDE DEF r, e, n
  <2>4. QED
    BY <2>2, <2>3 DEF r
<1>11. /\ \A t \in Pages : /\ Len(committed'[t].rows) = n + 1
                            /\ Len(committed[t].rows) = n
       /\ \A t \in Pages : \A i \in 1..n : committed'[t].rows[i] = committed[t].rows[i]
  <2>1. ASSUME NEW t \in Pages
        PROVE  /\ Len(committed'[t].rows) = n + 1 /\ Len(committed[t].rows) = n
               /\ \A i \in 1..n : committed'[t].rows[i] = committed[t].rows[i]
    <3> HIDE DEF n
    <3>1. CASE t \in Results
      BY <1>5, <1>9, <3>1
    <3>2. CASE t \in Records
      BY <1>10, <3>2, PageKinds
    <3>3. CASE t = Runs
      BY <1>4, <1>8, <3>3
    <3>4. QED
      BY <3>1, <3>2, <3>3 DEF Pages
  <2>2. QED
    BY <2>1
<1> HIDE DEF n, exit
<1>12. QED
  BY <1>2, <1>8, <1>9, <1>11 DEF n, exit

LEMMA CommitKeepsStore ==
    ASSUME TypeOK, OneHolder, StoreInv, NEW a \in Analyses, CommitStore(a)
    PROVE  StoreInv'
<1> DEFINE n == Stored(committed)
           exit == RunStatus(outcome[a])
<1>1. /\ n \in Nat
      /\ \A t \in Pages : Len(committed'[t].rows) = n + 1 /\ Len(committed[t].rows) = n
      /\ \A t \in Pages : \A i \in 1..n : committed'[t].rows[i] = committed[t].rows[i]
      /\ committed'[Runs].rows[n + 1] = exit
      /\ \A t \in Results : committed'[t].active = LastComplete(committed'[t].rows)
  BY CommitEffect
<1>2. phase[a] = "store" /\ phase' = [phase EXCEPT ![a] = "stored"] /\ main' = main
  BY DEF CommitStore, Enter
<1>3. Stored(committed') = n + 1
  BY <1>1 DEF Stored, Pages
<1>4. RunsAreWhole' /\ ActiveIsLastComplete' /\ FileActive'
  BY <1>1, <1>2, <1>3 DEF RunsAreWhole, ActiveIsLastComplete, FileActive, StoreInv
<1>5. NoneRunning'
  <2>1. exit # "running"
    BY DEF RunStatus
  <2>2. \A i \in 1..n : committed[Runs].rows[i] # "running"
    BY DEF StoreInv, NoneRunning
  <2>3. ASSUME NEW i \in 1..Stored(committed') PROVE committed'[Runs].rows[i] # "running"
    <3>1. n \in Nat /\ i \in 1..(n + 1)
      BY <1>1, <1>3
    <3> HIDE DEF n, exit
    <3>2. i \in 1..n \/ i = n + 1
      BY <3>1
    <3>3. QED
      BY <1>1, <2>1, <2>2, <3>2 DEF Pages
  <2>4. QED
    BY <2>3 DEF NoneRunning
<1>6. FileOnlyCommitted'
  <2>1. ASSUME NEW t \in Pages
        PROVE  /\ Len(main[t].rows) <= n + 1
               /\ \A i \in 1..Len(main[t].rows) :
                     /\ i \in 1..n /\ main[t].rows[i] = committed[t].rows[i]
                     /\ main[t].rows[i] # "running"
    <3>1. Len(main[t].rows) \in Nat
      BY ImageParts DEF TypeOK, ImageTypeOK, AnyPage, Page
    <3>2. /\ Len(main[t].rows) <= n
          /\ \A i \in 1..Len(main[t].rows) : /\ main[t].rows[i] = committed[t].rows[i]
                                             /\ main[t].rows[i] # "running"
      BY <1>1 DEF StoreInv, FileOnlyCommitted
    <3> HIDE DEF n
    <3>3. QED
      BY <1>1, <3>1, <3>2
  <2> HIDE DEF n
  <2>2. QED
    BY <1>1, <1>2, <2>1 DEF FileOnlyCommitted
<1>7. StoreShape' /\ CopyShape' /\ SuccessIsVisible'
  <2>1. \A b \in Analyses : phase'[b] \notin StorePhases
    BY <1>2 DEF OneHolder, StorePhases, Holding, AnalysePhases, Procs, TypeOK,
       ControlTypeOK
  <2>2. QED
    BY <2>1 DEF StoreShape, CopyShape, SuccessIsVisible, StorePhases
<1>8. QED
  BY <1>4, <1>5, <1>6, <1>7 DEF StoreInv

\* A step that leaves what is stored alone and after which no process is in a
\* store phase: whatever was open is gone.
LEMMA NobodyStores ==
    ASSUME StoreInv, UNCHANGED <<committed, main>>,
           \A b \in Analyses : phase'[b] \notin StorePhases
    PROVE  StoreInv'
BY DEF StoreInv, RunsAreWhole, NoneRunning, FileOnlyCommitted, ActiveIsLastComplete,
   FileActive, Stored, StoreShape, CopyShape, SuccessIsVisible, StorePhases

LEMMA CheckpointKeepsStore ==
    ASSUME TypeOK, OneHolder, StoreInv, NEW a \in Analyses,
           StartCheckpoint(a) \/ CheckpointDone(a)
    PROVE  StoreInv'
<1>1. /\ a \in Procs /\ phase[a] \in Holding /\ UNCHANGED storeVars
      /\ \A b \in Analyses \ {a} : phase'[b] = phase[b] /\ phase[b] \notin StorePhases
  BY DEF StartCheckpoint, CheckpointDone, Enter, Procs, OneHolder, Holding,
     AnalysePhases, StorePhases, TypeOK, ControlTypeOK
<1>2. (RunsAreWhole /\ NoneRunning /\ FileOnlyCommitted /\ ActiveIsLastComplete /\ FileActive)'
  BY <1>1 DEF StoreInv, RunsAreWhole, NoneRunning, FileOnlyCommitted,
     ActiveIsLastComplete, FileActive, Stored, storeVars
<1>3. CASE StartCheckpoint(a)
  <2>1. phase'[a] \in {"checkpoint", "closing"} /\ todo'[a] = Behind(main, committed)
    BY <1>1, <1>3 DEF StartCheckpoint, Enter, TypeOK, ControlTypeOK
  <2>2. CopyShape'
    BY <1>1, <2>1 DEF CopyShape, Behind, storeVars, StorePhases
  <2>3. StoreShape' /\ SuccessIsVisible'
    BY <1>1, <2>1 DEF StoreShape, SuccessIsVisible, StorePhases
  <2>4. QED
    BY <1>2, <2>2, <2>3 DEF StoreInv
<1>4. CASE CheckpointDone(a)
  <2>1. phase'[a] = "done"
    BY <1>1, <1>4 DEF CheckpointDone, Enter, TypeOK, ControlTypeOK
  <2>2. \A t \in Pages : main[t] = committed[t]
    BY <1>4 DEF CheckpointDone, StoreInv, CopyShape
  <2>3. main = committed
    BY <2>2 DEF TypeOK, ImageTypeOK, Image
  <2>4. StoreShape' /\ CopyShape' /\ SuccessIsVisible'
    BY <1>1, <2>1, <2>3 DEF StoreShape, CopyShape, SuccessIsVisible, StorePhases, storeVars
  <2>5. QED
    BY <1>2, <2>4 DEF StoreInv
<1>5. QED
  BY <1>3, <1>4

LEMMA CopyKeepsStore ==
    ASSUME TypeOK, OneHolder, StoreInv, NEW a \in Analyses, NEW t \in Pages,
           CopyPage(a, t)
    PROVE  StoreInv'
<1>1. /\ phase[a] \in {"checkpoint", "closing"} /\ phase' = phase
      /\ todo' = [todo EXCEPT ![a] = @ \ {t}]
      /\ main' = [main EXCEPT ![t] = committed[t]] /\ committed' = committed
  BY DEF CopyPage, Did
<1>2. \A b \in Analyses : phase[b] \in StorePhases => b = a
  BY <1>1 DEF OneHolder, StorePhases, Holding, AnalysePhases, Procs
<1>3. \A u \in Pages : main'[u] = IF u = t THEN committed[u] ELSE main[u]
  BY <1>1 DEF TypeOK, ImageTypeOK, Image
<1>4. RunsAreWhole' /\ NoneRunning'
  BY <1>1 DEF StoreInv, RunsAreWhole, NoneRunning, Stored
<1>5. ASSUME NEW u \in Pages
      PROVE  /\ Len(committed[u].rows) \in Nat
             /\ \A i \in 1..Len(committed[u].rows) : committed[u].rows[i] # "running"
  <2>1. /\ Len(committed[u].rows) \in Nat
        /\ u \in Results => committed[u].rows \in Seq(Status)
        /\ u \in Records => committed[u].rows \in Seq(Stock)
    BY ImageParts DEF TypeOK, ImageTypeOK, AnyPage, Page
  <2>2. CASE u \in Results
    <3>1. \A i \in 1..Len(committed[u].rows) : committed[u].rows[i] \in Status
      BY <2>1, <2>2
    <3>2. QED
      BY <2>1, <3>1 DEF Status
  <2>3. CASE u \in Records
    <3>1. \A i \in 1..Len(committed[u].rows) : committed[u].rows[i] \in Stock
      BY <2>1, <2>3
    <3>2. QED
      BY <2>1, <3>1 DEF Stock
  <2>4. CASE u = Runs
    BY <2>1, <2>4 DEF StoreInv, NoneRunning, Stored
  <2>5. QED
    BY <2>2, <2>3, <2>4 DEF Pages
<1>6. FileOnlyCommitted'
  BY <1>1, <1>3, <1>5 DEF StoreInv, FileOnlyCommitted
<1>7. ActiveIsLastComplete' /\ FileActive'
  BY <1>1, <1>3, PageKinds DEF StoreInv, ActiveIsLastComplete, FileActive
<1>8. CopyShape'
  <2>1. todo'[a] = todo[a] \ {t}
    BY <1>1 DEF TypeOK, ControlTypeOK, Procs
  <2>2. QED
    BY <1>1, <1>2, <1>3, <2>1 DEF StoreInv, CopyShape, StorePhases
<1>9. StoreShape' /\ SuccessIsVisible'
  BY <1>1, <1>2 DEF StoreShape, SuccessIsVisible, StorePhases
<1>10. QED
  BY <1>4, <1>6, <1>7, <1>8, <1>9 DEF StoreInv

\* Only the owner of the lock is in a store phase, and a step of another
\* process leaves it there as it was.
LEMMA OthersStoreStays ==
    ASSUME TypeOK, OneHolder, StoreInv, UNCHANGED storeVars, NEW p \in Procs,
           \A q \in Procs \ {p} : phase'[q] = phase[q] /\ todo'[q] = todo[q],
           \A b \in Analyses \ {p} : outcome'[b] = outcome[b],
           phase'[p] \notin StorePhases
    PROVE  StoreInv'
<1>1. \A b \in Analyses : phase'[b] \in StorePhases =>
          phase'[b] = phase[b] /\ todo'[b] = todo[b] /\ outcome'[b] = outcome[b]
  BY DEF Procs
<1>2. QED
  BY <1>1, Quiet

LEMMA StoreInvNext ==
    ASSUME TypeOK, OneHolder, StoreInv, [Next]_vars
    PROVE  StoreInv'
<1>1. ASSUME NEW p \in Lockers, Contend(p) \/ LockStep(p) PROVE StoreInv'
  <2>1. p \in Procs /\ UNCHANGED <<storeVars, outcome>>
    BY <1>1 DEF Lockers, Procs, Contend, LockStep, BeginExclusive, LockBusy, ReadHolder,
       WriteHolder, Release, readVars
  <2>2. \A q \in Procs \ {p} : phase'[q] = phase[q] /\ todo'[q] = todo[q]
    BY <1>1 DEF Contend, LockStep, BeginExclusive, LockBusy, ReadHolder, WriteHolder,
       Release, Enter, TypeOK, ControlTypeOK
  <2>3. phase'[p] \notin StorePhases
    BY <1>1, <2>1 DEF Contend, LockStep, BeginExclusive, LockBusy, ReadHolder,
       WriteHolder, Release, Enter, TypeOK, ControlTypeOK, StorePhases
  <2>4. QED
    BY <2>1, <2>2, <2>3, OthersStoreStays
<1>2. ASSUME NEW a \in Analyses, AnalyseStep(a) PROVE StoreInv'
  <2>1. a \in Procs
    BY DEF Procs
  <2>2. CASE BeginStore(a) \/ CommitStore(a) \/ \E t \in Results : PersistArtifact(a, t)
    BY <2>2, BeginKeepsStore, CommitKeepsStore, PersistKeepsStore
  <2>3. CASE \/ StartCheckpoint(a) \/ CheckpointDone(a)
             \/ \E t \in Pages : CopyPage(a, t)
    BY <2>3, CheckpointKeepsStore, CopyKeepsStore
  <2>4. CASE RollbackStore(a)
    <3>1. \A b \in Analyses : phase'[b] \notin StorePhases
      BY <2>1, <2>4 DEF RollbackStore, Enter, OneHolder, Holding, AnalysePhases,
         StorePhases, TypeOK, ControlTypeOK, Procs
    <3>2. QED
      BY <2>4, <3>1, NobodyStores DEF RollbackStore
  <2>5. ASSUME NEW k \in Keys,
               \/ VerifyFile(a, k) \/ SkipArtifact(a, k) \/ SnapshotFile(a, k)
               \/ AnalyseArtifact(a, k) \/ ParseInPlace(a, k)
        PROVE  StoreInv'
    <3>1. /\ UNCHANGED storeVars /\ phase[a] \notin StorePhases /\ phase' = phase
          /\ \A q \in Procs \ {a} : todo'[q] = todo[q]
      BY <2>5 DEF VerifyFile, SkipArtifact, SnapshotFile, AnalyseArtifact,
       ParseInPlace, Parse, DidNext, Did,
         StorePhases, TypeOK, ControlTypeOK
    <3>2. \A b \in Analyses \ {a} : outcome'[b] = outcome[b]
      BY <2>5 DEF VerifyFile, SkipArtifact, SnapshotFile, AnalyseArtifact,
       ParseInPlace, Parse, readVars,
         TypeOK, MemoryTypeOK
    <3>3. QED
      BY <2>1, <3>1, <3>2, OthersStoreStays
  <2>6. CASE \/ \E k \in Keys : IntegrityRefusal(a, k)
             \/ SnapshotRefused(a) \/ AnalysisFails(a) \/ StartReading(a)
             \/ GenerateCaseCandidates(a) \/ CheckpointBusy(a) \/ CloseStore(a)
    <3>1. /\ UNCHANGED storeVars
          /\ \A q \in Procs \ {a} : phase'[q] = phase[q] /\ todo'[q] = todo[q]
      BY <2>6 DEF IntegrityRefusal, SnapshotRefused, AnalysisFails, StartReading,
         GenerateCaseCandidates, CheckpointBusy, CloseStore, GiveUp, Enter, TypeOK,
         ControlTypeOK
    <3>2. \A b \in Analyses \ {a} : outcome'[b] = outcome[b]
      BY <2>6 DEF IntegrityRefusal, SnapshotRefused, AnalysisFails, StartReading,
         GenerateCaseCandidates, CheckpointBusy, CloseStore, GiveUp, Forget, readVars,
         TypeOK, MemoryTypeOK
    <3>3. phase'[a] \notin StorePhases
      BY <2>1, <2>6 DEF IntegrityRefusal, SnapshotRefused, AnalysisFails, StartReading,
         GenerateCaseCandidates, CheckpointBusy, CloseStore, GiveUp, Enter, TypeOK,
         ControlTypeOK, StorePhases
    <3>4. QED
      BY <2>1, <3>1, <3>2, <3>3, OthersStoreStays
  <2>7. QED
    BY <1>2, <2>2, <2>3, <2>4, <2>5, <2>6 DEF AnalyseStep
<1>3. ASSUME NEW v \in Procs,
             \/ v \in Serves /\ (Listen(v) \/ ListenFails(v) \/ CloseServer(v))
             \/ v \in Viewers /\ OpenCaseReadOnly(v)
             \/ v \in Viewers /\ \E t \in Pages : ReadPage(v, t)
             \/ v \in Readers /\ CloseCase(v)
      PROVE  StoreInv'
  <2>1. /\ UNCHANGED <<storeVars, outcome>>
        /\ \A q \in Procs \ {v} : phase'[q] = phase[q] /\ todo'[q] = todo[q]
    BY <1>3 DEF Listen, ListenFails, CloseServer, OpenCaseReadOnly, ReadPage, CloseCase,
       Enter, Did, readVars, TypeOK, ControlTypeOK
  <2>2. phase'[v] \notin StorePhases
    BY <1>3 DEF Listen, ListenFails, CloseServer, OpenCaseReadOnly, ReadPage, CloseCase,
       Enter, Did, StorePhases, TypeOK, ControlTypeOK
  <2>3. QED
    BY <2>1, <2>2, OthersStoreStays
<1>4. ASSUME NEW p \in Procs, Crash(p) PROVE StoreInv'
  <2>1. /\ UNCHANGED <<committed, main>> /\ phase'[p] = "idle"
        /\ \A q \in Procs \ {p} : phase'[q] = phase[q] /\ todo'[q] = todo[q]
        /\ \A b \in Analyses \ {p} : outcome'[b] = outcome[b]
    BY <1>4 DEF Crash, Enter, Forget, TypeOK, ControlTypeOK
  <2>2. CASE phase[p] = "store"
    <3>1. \A b \in Analyses : phase'[b] \notin StorePhases
      BY <2>1, <2>2 DEF OneHolder, Holding, AnalysePhases, StorePhases, Procs
    <3>2. QED
      BY <2>1, <3>1, NobodyStores
  <2>3. CASE phase[p] # "store"
    <3>1. UNCHANGED storeVars
      BY <1>4, <2>3 DEF Crash, storeVars
    <3>2. QED
      BY <2>1, <3>1, OthersStoreStays DEF StorePhases
  <2>4. QED
    BY <2>2, <2>3
<1>5. CASE (\E k \in Tamperable : Tamper(k)) \/ UNCHANGED vars
  BY <1>5, Quiet DEF Tamper, vars, storeVars
<1>6. QED
  BY <1>1, <1>2, <1>3, <1>4, <1>5 DEF Next, Viewers, Procs

LEMMA StoreInvariant == Spec => []StoreInv
<1>1. TypeOK /\ OneHolder /\ StoreInv /\ [Next]_vars => StoreInv'
  BY StoreInvNext
<1>2. QED
  BY StoreInvInit, TypeCorrect, Exclusion, <1>1, PTL DEF Spec

\* Supersede semantics: in the store, the active result of an artifact is always
\* the one of its last complete run, whatever is killed, rolled back or not yet
\* checkpointed.
THEOREM Supersede == Spec => []ActiveIsLastComplete
<1>1. StoreInv => ActiveIsLastComplete
  BY DEF StoreInv
<1>2. QED
  BY StoreInvariant, <1>1, PTL

\* An analysis that reports success has made everything that is committed
\* visible to readers.
THEOREM SuccessPublishes == Spec => []SuccessIsVisible
<1>1. StoreInv => SuccessIsVisible
  BY DEF StoreInv
<1>2. QED
  BY StoreInvariant, <1>1, PTL

--------------------------------------------------------------------------------
(* The store implements the lineage: a commit is a StoreRun, every other   *)
(* step a stutter.                                                         *)

LEMMA OnlyCommitStores ==
    ASSUME [Next]_vars
    PROVE  committed' = committed \/ \E a \in Analyses : CommitStore(a)
<1>1. ASSUME NEW p \in Lockers, Contend(p) \/ LockStep(p) PROVE committed' = committed
  BY <1>1 DEF Contend, LockStep, BeginExclusive, LockBusy, ReadHolder, WriteHolder,
     Release, storeVars
<1>2. ASSUME NEW a \in Analyses, AnalyseStep(a)
      PROVE  committed' = committed \/ CommitStore(a)
  BY <1>2 DEF AnalyseStep, VerifyFile, IntegrityRefusal, SkipArtifact, SnapshotFile,
     AnalyseArtifact, ParseInPlace, Parse, SnapshotRefused, StartReading,
     GenerateCaseCandidates,
     AnalysisFails, BeginStore, RollbackStore, PersistArtifact, CopyPage,
     StartCheckpoint, CheckpointDone, CheckpointBusy, CloseStore, storeVars
<1>3. ASSUME NEW v \in Procs,
             \/ Listen(v) \/ ListenFails(v) \/ CloseServer(v) \/ OpenCaseReadOnly(v)
             \/ (\E t \in Pages : ReadPage(v, t)) \/ CloseCase(v) \/ Crash(v)
      PROVE  committed' = committed
  BY <1>3 DEF Listen, ListenFails, CloseServer, OpenCaseReadOnly, ReadPage, CloseCase,
     Crash, storeVars
<1>4. CASE (\E k \in Tamperable : Tamper(k)) \/ UNCHANGED vars
  BY <1>4 DEF Tamper, vars, storeVars
<1>5. QED
  BY <1>1, <1>2, <1>3, <1>4 DEF Next, Procs, Viewers

LEMMA CommitIsStoreRun ==
    ASSUME TypeOK, OneHolder, StoreInv, NEW a \in Analyses, CommitStore(a)
    PROVE  Lineage!StoreRun
<1> DEFINE n == Stored(committed)
<1>1. /\ n \in Nat
      /\ \A t \in Pages : Len(committed'[t].rows) = n + 1
      /\ \A t \in Pages : \A i \in 1..n : committed'[t].rows[i] = committed[t].rows[i]
      /\ \A t \in Results : /\ committed'[t].active = LastComplete(committed'[t].rows)
                            /\ committed'[t].rows[n + 1] = outcome[a][t]
  BY CommitEffect
<1>2. outcome[a] \in [Results -> Status] /\ Results \subseteq Pages
  BY DEF TypeOK, MemoryTypeOK, Pages
<1>3. Stored(committed') = n + 1
  BY <1>1 DEF Stored, Pages
<1>4. StoredRuns' = [i \in 1..(n + 1) |-> [t \in Results |-> committed'[t].rows[i]]]
  BY <1>3 DEF StoredRuns
<1>5. StoredRuns' = Append(StoredRuns, outcome[a])
  <2> DEFINE old == [i \in 1..n |-> [t \in Results |-> committed[t].rows[i]]]
             new == [i \in 1..(n + 1) |-> [t \in Results |-> committed'[t].rows[i]]]
  <2>1. ASSUME NEW i \in 1..n PROVE new[i] = old[i]
    <3>1. i \in 1..(n + 1)
      BY <1>1
    <3>2. \A t \in Results : committed'[t].rows[i] = committed[t].rows[i]
      BY <1>1, <1>2
    <3>3. QED
      BY <3>1, <3>2
  <2>2. new[n + 1] = outcome[a]
    <3>1. n + 1 \in 1..(n + 1)
      BY <1>1
    <3>2. outcome[a] = [t \in Results |-> outcome[a][t]]
      BY <1>2
    <3>3. [t \in Results |-> committed'[t].rows[n + 1]] = [t \in Results |-> outcome[a][t]]
      BY <1>1
    <3>4. QED
      BY <3>1, <3>2, <3>3
  <2>3. new = Append(old, outcome[a])
    <3>1. /\ DOMAIN old = 1..n /\ DOMAIN new = 1..(n + 1)
          /\ new = [i \in 1..(n + 1) |-> new[i]] /\ old = [i \in 1..n |-> old[i]]
      OBVIOUS
    <3> HIDE DEF n, old, new
    <3>2. Len(old) = n
      BY <1>1, <3>1
    <3>3. Append(old, outcome[a]) =
             [i \in 1..(n + 1) |-> IF i = n + 1 THEN outcome[a] ELSE old[i]]
      BY <1>1, <3>1, <3>2
    <3>4. \A i \in 1..(n + 1) : new[i] = IF i = n + 1 THEN outcome[a] ELSE old[i]
      BY <1>1, <2>1, <2>2
    <3>5. QED
      BY <3>1, <3>3, <3>4
  <2>4. QED
    BY <1>4, <2>3 DEF StoredRuns
<1>6. ActiveRuns' = [t \in Results |-> Lineage!LastCompleteRun(StoredRuns', t)]
  <2>1. Len(StoredRuns') = n + 1
    BY <1>1, <1>4
  <2>2. ASSUME NEW t \in Results
        PROVE  committed'[t].active = Lineage!LastCompleteRun(StoredRuns', t)
    <3>1. \A i \in 1..(n + 1) : StoredRuns'[i][t] = committed'[t].rows[i]
      BY <1>4
    <3>2. Len(committed'[t].rows) = n + 1
      BY <1>1, <1>2
    <3>3. committed'[t].active =
             {i \in 1..(n + 1) : /\ committed'[t].rows[i] = "complete"
                                 /\ \A j \in (i+1)..(n + 1) :
                                       committed'[t].rows[j] # "complete"}
      BY <1>1, <3>2 DEF LastComplete
    <3>4. Lineage!LastCompleteRun(StoredRuns', t) =
             {i \in 1..(n + 1) : /\ StoredRuns'[i][t] = "complete"
                                 /\ \A j \in (i+1)..(n + 1) :
                                       StoredRuns'[j][t] # "complete"}
      BY <2>1 DEF Lineage!LastCompleteRun
    <3>5. \A i \in 1..(n + 1) : \A j \in (i+1)..(n + 1) : j \in 1..(n + 1)
      BY <1>1
    <3> HIDE DEF n
    <3>6. QED
      BY <3>1, <3>3, <3>4, <3>5
  <2>3. QED
    BY <2>2 DEF ActiveRuns
<1>7. QED
  BY <1>2, <1>5, <1>6 DEF Lineage!StoreRun

\* The Case implements its promise about runs: crashes, rollbacks, busy
\* checkpoints and refusals are stutters of it.
THEOREM ImplementsLineage == Spec => LineageSpec
<1>1. Init => Lineage!Init
  <2> SUFFICES ASSUME Init PROVE Lineage!Init
    OBVIOUS
  <2>1. /\ Stored(committed) = 0 /\ Runs \in Pages
        /\ \A t \in Results : committed[t].active = {}
    BY DEF Init, Stored, EmptyImage, EmptyPage, Pages
  <2>2. StoredRuns = << >>
    BY <2>1 DEF StoredRuns
  <2>3. ActiveRuns = [t \in Results |-> {}]
    BY <2>1 DEF ActiveRuns
  <2>4. QED
    BY <2>2, <2>3 DEF Lineage!Init
<1>2. TypeOK /\ OneHolder /\ StoreInv /\ [Next]_vars =>
          [Lineage!StoreRun]_<<StoredRuns, ActiveRuns>>
  <2>1. committed' = committed => UNCHANGED <<StoredRuns, ActiveRuns>>
    BY DEF StoredRuns, ActiveRuns, Stored
  <2>2. QED
    BY <2>1, OnlyCommitStores, CommitIsStoreRun
<1>3. QED
  BY <1>1, <1>2, TypeCorrect, Exclusion, StoreInvariant, PTL
     DEF Spec, LineageSpec, Lineage!Spec

--------------------------------------------------------------------------------
(* What readers see.                                                       *)

\* A commit only adds rows, so what was read stays true.
LEMMA CommittedGrows ==
    ASSUME TypeOK, OneHolder, StoreInv, [Next]_vars, NEW t \in Pages
    PROVE  /\ Len(committed[t].rows) \in Nat /\ Len(committed'[t].rows) \in Nat
           /\ Len(committed[t].rows) <= Len(committed'[t].rows)
           /\ \A i \in 1..Len(committed[t].rows) :
                 committed'[t].rows[i] = committed[t].rows[i]
<1>1. Len(committed[t].rows) \in Nat
  BY ImageParts DEF TypeOK, ImageTypeOK, AnyPage, Page
<1>2. CASE committed' = committed
  BY <1>1, <1>2
<1>3. ASSUME NEW a \in Analyses, CommitStore(a)
      PROVE  /\ Len(committed'[t].rows) = Len(committed[t].rows) + 1
             /\ \A i \in 1..Len(committed[t].rows) :
                   committed'[t].rows[i] = committed[t].rows[i]
  BY <1>3, CommitEffect
<1>4. QED
  BY <1>1, <1>2, <1>3, OnlyCommitStores

LEMMA OnlyReadPageReads ==
    ASSUME TypeOK, [Next]_vars, NEW v \in Viewers
    PROVE  \/ view'[v] = view[v] \/ view'[v] = NoView
           \/ \E t \in Pages :
                 view'[v] = [u \in DOMAIN view[v] \cup {t} |->
                                IF u = t THEN main[t] ELSE view[v][u]]
<1> USE DEF TypeOK, ViewTypeOK
<1>1. ASSUME NEW p \in Lockers, Contend(p) \/ LockStep(p) PROVE view' = view
  BY <1>1 DEF Contend, LockStep, BeginExclusive, LockBusy, ReadHolder, WriteHolder,
     Release
<1>2. ASSUME NEW a \in Analyses, AnalyseStep(a) PROVE view' = view
  BY <1>2 DEF AnalyseStep, VerifyFile, IntegrityRefusal, SkipArtifact, SnapshotFile,
     AnalyseArtifact, ParseInPlace, Parse, SnapshotRefused, StartReading,
     GenerateCaseCandidates,
     AnalysisFails, BeginStore, CommitStore, RollbackStore, PersistArtifact, CopyPage,
     StartCheckpoint, CheckpointDone, CheckpointBusy, CloseStore
<1>3. ASSUME NEW w \in Procs,
             \/ Listen(w) \/ ListenFails(w) \/ CloseServer(w) \/ OpenCaseReadOnly(w)
             \/ CloseCase(w) \/ Crash(w)
      PROVE  view'[v] = view[v] \/ view'[v] = NoView
  BY <1>3 DEF Listen, ListenFails, CloseServer, OpenCaseReadOnly, CloseCase, Crash
<1>4. ASSUME NEW w \in Viewers, NEW t \in Pages, ReadPage(w, t)
      PROVE  \/ view'[v] = view[v]
             \/ view'[v] = [u \in DOMAIN view[v] \cup {t} |->
                               IF u = t THEN main[t] ELSE view[v][u]]
  BY <1>4 DEF ReadPage
<1>5. CASE (\E k \in Tamperable : Tamper(k)) \/ UNCHANGED vars
  BY <1>5 DEF Tamper, vars
<1>6. QED
  BY <1>1, <1>2, <1>3, <1>4, <1>5 DEF Next, Procs, Viewers

LEMMA ReadsNext ==
    ASSUME TypeOK, OneHolder, StoreInv, ReadsAreCommitted, [Next]_vars
    PROVE  ReadsAreCommitted'
<1> DEFINE Good(x, t) == /\ Len(x.rows) <= Len(committed[t].rows)
                         /\ \A i \in 1..Len(x.rows) : /\ x.rows[i] = committed[t].rows[i]
                                                     /\ x.rows[i] # "running"
<1>1. ASSUME NEW t \in Pages PROVE Good(main[t], t)
  BY DEF StoreInv, FileOnlyCommitted
<1>2. ASSUME NEW v \in Viewers, NEW t \in DOMAIN view'[v]
      PROVE  t \in Pages /\ Len(view'[v][t].rows) \in Nat /\ Good(view'[v][t], t)
  <2>1. ASSUME NEW u \in DOMAIN view[v]
        PROVE  u \in Pages /\ view[v][u] \in AnyPage /\ Good(view[v][u], u)
    BY DEF ReadsAreCommitted, TypeOK, ViewTypeOK
  <2>2. t \in Pages /\ view'[v][t] \in AnyPage /\ Good(view'[v][t], t)
    <3>1. CASE view'[v] = view[v]
      BY <2>1, <3>1
    <3>2. CASE view'[v] = NoView
      BY <3>2 DEF NoView
    <3>3. ASSUME NEW w \in Pages,
                 view'[v] = [u \in DOMAIN view[v] \cup {w} |->
                                IF u = w THEN main[w] ELSE view[v][u]]
          PROVE  t \in Pages /\ view'[v][t] \in AnyPage /\ Good(view'[v][t], t)
      <4>1. main[w] \in AnyPage /\ Good(main[w], w)
        BY <1>1, ImageParts DEF TypeOK, ImageTypeOK
      <4> HIDE DEF Good
      <4>2. QED
        BY <1>2, <2>1, <3>3, <4>1
    <3>4. QED
      BY <3>1, <3>2, <3>3, OnlyReadPageReads
  <2> HIDE DEF Good
  <2>3. QED
    BY <2>2 DEF AnyPage, Page
<1>3. ASSUME NEW v \in Viewers, NEW t \in DOMAIN view'[v]
      PROVE  /\ Len(view'[v][t].rows) <= Len(committed'[t].rows)
             /\ \A i \in 1..Len(view'[v][t].rows) :
                   /\ view'[v][t].rows[i] = committed'[t].rows[i]
                   /\ view'[v][t].rows[i] # "running"
  <2>1. /\ t \in Pages /\ Len(view'[v][t].rows) \in Nat
        /\ Len(view'[v][t].rows) <= Len(committed[t].rows)
        /\ \A i \in 1..Len(view'[v][t].rows) :
              /\ view'[v][t].rows[i] = committed[t].rows[i]
              /\ view'[v][t].rows[i] # "running"
    BY <1>2, <1>3
  <2>2. /\ Len(committed[t].rows) \in Nat /\ Len(committed'[t].rows) \in Nat
        /\ Len(committed[t].rows) <= Len(committed'[t].rows)
        /\ \A i \in 1..Len(committed[t].rows) :
              committed'[t].rows[i] = committed[t].rows[i]
    BY <2>1, CommittedGrows
  <2>3. \A i \in 1..Len(view'[v][t].rows) : i \in 1..Len(committed[t].rows)
    BY <2>1, <2>2
  <2>4. Len(view'[v][t].rows) <= Len(committed'[t].rows)
    <3> DEFINE x == Len(view'[v][t].rows)
               y == Len(committed[t].rows)
               z == Len(committed'[t].rows)
    <3>1. x \in Nat /\ y \in Nat /\ z \in Nat /\ x <= y /\ y <= z
      BY <2>1, <2>2
    <3> HIDE DEF x, y, z
    <3>2. x <= z
      BY <3>1
    <3>3. QED
      BY <3>2 DEF x, z
  <2>5. QED
    BY <2>1, <2>2, <2>3, <2>4
<1>4. QED
  BY <1>3 DEF ReadsAreCommitted

\* Every row that a dashboard or a lock-free command reads was committed, also
\* in the middle of a checkpoint and after one that was killed: nothing that is
\* read is of a rolled-back, killed or unfinished transaction.
THEOREM ReadsCommitted == Spec => []ReadsAreCommitted
<1>1. Init => ReadsAreCommitted
  BY DEF Init, ReadsAreCommitted, NoView
<1>2. TypeOK /\ OneHolder /\ StoreInv /\ ReadsAreCommitted /\ [Next]_vars
        => ReadsAreCommitted'
  BY ReadsNext
<1>3. QED
  BY <1>1, <1>2, TypeCorrect, Exclusion, StoreInvariant, PTL DEF Spec

LEMMA OnlyCopyPublishes ==
    ASSUME [Next]_vars
    PROVE  main' = main \/ \E a \in Analyses, t \in Pages : CopyPage(a, t)
<1>1. ASSUME NEW p \in Lockers, Contend(p) \/ LockStep(p) PROVE main' = main
  BY <1>1 DEF Contend, LockStep, BeginExclusive, LockBusy, ReadHolder, WriteHolder,
     Release, storeVars
<1>2. ASSUME NEW a \in Analyses, AnalyseStep(a)
      PROVE  main' = main \/ \E t \in Pages : CopyPage(a, t)
  BY <1>2 DEF AnalyseStep, VerifyFile, IntegrityRefusal, SkipArtifact, SnapshotFile,
     AnalyseArtifact, ParseInPlace, Parse, SnapshotRefused, StartReading,
     GenerateCaseCandidates,
     AnalysisFails, BeginStore, CommitStore, RollbackStore, PersistArtifact,
     StartCheckpoint, CheckpointDone, CheckpointBusy, CloseStore, storeVars
<1>3. ASSUME NEW v \in Procs,
             \/ Listen(v) \/ ListenFails(v) \/ CloseServer(v) \/ OpenCaseReadOnly(v)
             \/ (\E t \in Pages : ReadPage(v, t)) \/ CloseCase(v) \/ Crash(v)
      PROVE  main' = main
  BY <1>3 DEF Listen, ListenFails, CloseServer, OpenCaseReadOnly, ReadPage, CloseCase,
     Crash, storeVars
<1>4. CASE (\E k \in Tamperable : Tamper(k)) \/ UNCHANGED vars
  BY <1>4 DEF Tamper, vars, storeVars
<1>5. QED
  BY <1>1, <1>2, <1>3, <1>4 DEF Next, Procs, Viewers

LEMMA ServingFileStays ==
    ASSUME TypeOK, OneHolder, [Next]_vars, NEW s \in Serves, phase[s] = "serving"
    PROVE  main' = main
<1>1. ASSUME NEW a \in Analyses, NEW t \in Pages, CopyPage(a, t) PROVE FALSE
  BY <1>1, ProcsAssumption DEF CopyPage, OneHolder, Holding, AnalysePhases,
     ServePhases, Procs
<1>2. QED
  BY <1>1, OnlyCopyPublishes

\* While a dashboard serves, nothing writes the file it reads.
THEOREM ServedFileStill == Spec => ServedFileIsStill
<1>1. TypeOK /\ OneHolder /\ [Next]_vars =>
          [\A s \in Serves : phase[s] = "serving" => main' = main]_vars
  BY ServingFileStays
<1>2. QED
  BY <1>1, TypeCorrect, Exclusion, PTL DEF Spec, ServedFileIsStill

--------------------------------------------------------------------------------
(* What a run is made of.                                                  *)

\* Of the artifacts that are not parsed in place only a snapshot that matched the
\* Manifest is parsed, so no step taints what an analysis has found of them.
LEMMA TaintStays ==
    ASSUME TypeOK, [Next]_vars, NEW a \in Analyses
    PROVE  tainted'[a] \subseteq tainted[a] \cup Direct
<1> USE DEF TypeOK, MemoryTypeOK
<1>1. ASSUME NEW p \in Lockers, Contend(p) \/ LockStep(p) PROVE tainted' = tainted
  BY <1>1 DEF Contend, LockStep, BeginExclusive, LockBusy, ReadHolder, WriteHolder,
     Release, readVars
<1>2. ASSUME NEW b \in Analyses, NEW k \in Keys, AnalyseArtifact(b, k)
      PROVE  tainted' = tainted
  <2>1. ParsedBytes(b, k) = "manifest"
    BY <1>2 DEF AnalyseArtifact, SnapshotDrifted, ParsedBytes
  <2>2. tainted' = [tainted EXCEPT ![b] = tainted[b]]
    BY <1>2, <2>1 DEF AnalyseArtifact, Parse
  <2>3. QED
    BY <2>2
<1>3. ASSUME NEW b \in Analyses, NEW k \in Keys, ParseInPlace(b, k)
      PROVE  tainted'[a] \subseteq tainted[a] \cup Direct
  BY <1>3 DEF ParseInPlace, Parse
<1>4. ASSUME NEW b \in Analyses, NEW k \in Keys,
             \/ VerifyFile(b, k) \/ SkipArtifact(b, k) \/ SnapshotFile(b, k)
             \/ \E t \in Results : PersistArtifact(b, t)
      PROVE  tainted' = tainted
  BY <1>4 DEF VerifyFile, SkipArtifact, SnapshotFile, PersistArtifact, readVars
<1>5. ASSUME NEW b \in Analyses,
             \/ \E t \in Results : PersistArtifact(b, t)
             \/ \E t \in Pages : CopyPage(b, t)
             \/ StartReading(b) \/ GenerateCaseCandidates(b) \/ BeginStore(b)
             \/ StartCheckpoint(b) \/ CheckpointDone(b) \/ CheckpointBusy(b)
             \/ CloseStore(b)
      PROVE  tainted' = tainted
  BY <1>5 DEF StartReading, GenerateCaseCandidates, BeginStore, PersistArtifact,
     CopyPage, StartCheckpoint, CheckpointDone, CheckpointBusy, CloseStore, readVars
<1>6. ASSUME NEW p \in Procs,
             \/ \E k \in Keys : IntegrityRefusal(p, k)
             \/ SnapshotRefused(p) \/ AnalysisFails(p) \/ CommitStore(p)
             \/ RollbackStore(p) \/ Crash(p)
      PROVE  tainted'[a] \subseteq tainted[a] \cup Direct
  BY <1>6 DEF IntegrityRefusal, SnapshotRefused, AnalysisFails, CommitStore,
     RollbackStore, Crash, GiveUp, Forget
<1>7. ASSUME NEW b \in Analyses, AnalyseStep(b)
      PROVE  tainted'[a] \subseteq tainted[a] \cup Direct
  <2>1. b \in Procs
    BY DEF Procs
  <2>2. QED
    BY <1>2, <1>3, <1>4, <1>5, <1>6, <1>7, <2>1 DEF AnalyseStep
<1>8. ASSUME NEW v \in Procs,
             \/ Listen(v) \/ ListenFails(v) \/ CloseServer(v) \/ OpenCaseReadOnly(v)
             \/ (\E t \in Pages : ReadPage(v, t)) \/ CloseCase(v)
      PROVE  tainted' = tainted
  BY <1>8 DEF Listen, ListenFails, CloseServer, OpenCaseReadOnly, ReadPage, CloseCase,
     readVars
<1>9. CASE (\E k \in Tamperable : Tamper(k)) \/ UNCHANGED vars
  BY <1>9 DEF Tamper, vars
<1>10. QED
  BY <1>1, <1>6, <1>7, <1>8, <1>9 DEF Next, Procs, Viewers

\* However a Working Copy file is changed, and changed back, during an analysis,
\* nothing it found of an artifact that is parsed from a private copy (all but
\* the cache) comes from bytes that the Manifest does not record.
THEOREM OnlyManifestBytes == Spec => []StoredFromManifestBytes
<1>1. Init => StoredFromManifestBytes
  BY DEF Init, StoredFromManifestBytes
<1>2. TypeOK /\ StoredFromManifestBytes /\ [Next]_vars => StoredFromManifestBytes'
  BY TaintStays DEF StoredFromManifestBytes
<1>3. QED
  BY <1>1, <1>2, TypeCorrect, PTL DEF Spec

\* From the second verification to the commit, what an analysis holds of the
\* Candidates is what describeInputs makes of the artifacts of the same run.
DerivedFound ==
    \A a \in Analyses : phase[a] \in {"reverify", "store"} =>
        \A d \in Derived : outcome[a][d] = DescribeInputs(d, outcome[a])

\* An analysis comes into these phases by generating Candidates, and in them its
\* findings stay as they are.
LEMMA FoundStays ==
    ASSUME TypeOK, [Next]_vars, NEW a \in Analyses, phase'[a] \in {"reverify", "store"}
    PROVE  \/ GenerateCaseCandidates(a)
           \/ phase[a] \in {"reverify", "store"} /\ outcome'[a] = outcome[a]
<1> USE DEF TypeOK, ControlTypeOK, MemoryTypeOK
<1>1. a \in Procs
  BY DEF Procs
<1>2. ASSUME NEW p \in Lockers, Contend(p) \/ LockStep(p)
      PROVE  phase[a] \in {"reverify", "store"} /\ outcome'[a] = outcome[a]
  BY <1>1, <1>2 DEF Contend, LockStep, BeginExclusive, LockBusy, ReadHolder, WriteHolder,
     Release, readVars, Enter
<1>3. ASSUME NEW b \in Analyses, AnalyseStep(b)
      PROVE  \/ GenerateCaseCandidates(a)
             \/ phase[a] \in {"reverify", "store"} /\ outcome'[a] = outcome[a]
  <2>1. b \in Procs
    BY DEF Procs
  <2>2. ASSUME NEW k \in Keys,
               \/ VerifyFile(b, k) \/ SkipArtifact(b, k) \/ SnapshotFile(b, k)
               \/ AnalyseArtifact(b, k) \/ ParseInPlace(b, k)
        PROVE  phase[a] \in {"reverify", "store"} /\ outcome'[a] = outcome[a]
    <3>1. phase' = phase
      BY <2>2 DEF VerifyFile, SkipArtifact, SnapshotFile, AnalyseArtifact,
       ParseInPlace, Parse, DidNext, Did
    <3>2. outcome'[a] = outcome[a] \/ (b = a /\ phase[b] = "read")
      BY <2>2 DEF VerifyFile, SkipArtifact, SnapshotFile, AnalyseArtifact,
       ParseInPlace, Parse, readVars
    <3>3. QED
      BY <3>1, <3>2
  <2>3. CASE \/ \E t \in Results : PersistArtifact(b, t)
             \/ \E t \in Pages : CopyPage(b, t)
             \/ StartReading(b) \/ BeginStore(b)
             \/ StartCheckpoint(b) \/ CheckpointDone(b) \/ CheckpointBusy(b)
             \/ CloseStore(b)
    BY <1>1, <2>1, <2>3 DEF StartReading, BeginStore, PersistArtifact, CopyPage,
       StartCheckpoint, CheckpointDone, CheckpointBusy, CloseStore, readVars, Enter,
       DidNext, Did
  <2>4. CASE GenerateCaseCandidates(b)
    BY <1>1, <2>1, <2>4 DEF GenerateCaseCandidates, Enter
  <2>5. CASE \/ \E k \in Keys : IntegrityRefusal(b, k)
             \/ SnapshotRefused(b) \/ AnalysisFails(b) \/ CommitStore(b)
             \/ RollbackStore(b)
    BY <1>1, <2>1, <2>5 DEF IntegrityRefusal, SnapshotRefused, AnalysisFails,
       CommitStore, RollbackStore, GiveUp, Forget, Enter
  <2>6. QED
    BY <1>3, <2>2, <2>3, <2>4, <2>5 DEF AnalyseStep
<1>4. ASSUME NEW v \in Procs,
             \/ v \in Serves /\ (Listen(v) \/ ListenFails(v) \/ CloseServer(v))
             \/ OpenCaseReadOnly(v) \/ (\E t \in Pages : ReadPage(v, t)) \/ CloseCase(v)
      PROVE  phase[a] \in {"reverify", "store"} /\ outcome'[a] = outcome[a]
  BY <1>1, <1>4 DEF Listen, ListenFails, CloseServer, OpenCaseReadOnly, ReadPage,
     CloseCase, readVars, Enter, Did
<1>5. ASSUME NEW p \in Procs, Crash(p)
      PROVE  phase[a] \in {"reverify", "store"} /\ outcome'[a] = outcome[a]
  BY <1>1, <1>5 DEF Crash, Enter, Forget
<1>6. CASE (\E k \in Tamperable : Tamper(k)) \/ UNCHANGED vars
  BY <1>6 DEF Tamper, vars
<1>7. QED
  BY <1>2, <1>3, <1>4, <1>5, <1>6 DEF Next, Procs, Viewers

LEMMA DerivedNext ==
    ASSUME TypeOK, DerivedFound, [Next]_vars
    PROVE  DerivedFound'
<1> SUFFICES ASSUME NEW a \in Analyses, phase'[a] \in {"reverify", "store"},
                    NEW d \in Derived
             PROVE  outcome'[a][d] = DescribeInputs(d, outcome'[a])
  BY DEF DerivedFound
<1>1. CASE GenerateCaseCandidates(a)
  <2>1. /\ outcome'[a][d] = DescribeInputs(d, outcome[a])
        /\ \A k \in Keys : outcome'[a][k] = outcome[a][k]
    BY <1>1, PagesAssumption DEF GenerateCaseCandidates, TypeOK, MemoryTypeOK, Results
  <2>2. Feeds[d] \subseteq Keys
    BY PagesAssumption
  <2>3. {outcome'[a][k] : k \in Feeds[d]} = {outcome[a][k] : k \in Feeds[d]}
    BY <2>1, <2>2
  <2>4. QED
    BY <2>1, <2>3 DEF DescribeInputs
<1>2. CASE phase[a] \in {"reverify", "store"} /\ outcome'[a] = outcome[a]
  BY <1>2 DEF DerivedFound
<1>3. QED
  BY <1>1, <1>2, FoundStays

LEMMA CommitKeepsCandidates ==
    ASSUME TypeOK, OneHolder, StoreInv, DerivedFound, CandidatesNotOlder,
           NEW a \in Analyses, CommitStore(a)
    PROVE  CandidatesNotOlder'
<1> DEFINE n == Stored(committed)
<1> SUFFICES ASSUME NEW d \in Derived, NEW k \in Feeds[d],
                    NEW i \in committed'[k].active
             PROVE  \E j \in committed'[d].active : i <= j
  BY DEF CandidatesNotOlder
<1>1. k \in Results /\ d \in Results /\ k \in Pages
  BY PagesAssumption DEF Results, Pages
<1>2. /\ n \in Nat /\ Len(committed'[k].rows) = n + 1
      /\ committed'[k].active = LastComplete(committed'[k].rows)
      /\ committed'[k].active = IF outcome[a][k] = "complete" THEN {n + 1}
                                ELSE committed[k].active
      /\ committed'[d].active = IF outcome[a][d] = "complete" THEN {n + 1}
                                ELSE committed[d].active
  <2>1. Results \subseteq Pages
    BY DEF Pages
  <2>2. QED
    BY <1>1, <2>1, CommitEffect
<1>3. CASE outcome[a][d] = "complete"
  <2>1. i \in 1..(n + 1)
    BY <1>2 DEF LastComplete
  <2>2. n + 1 \in committed'[d].active
    BY <1>2, <1>3
  <2> HIDE DEF n
  <2>3. i <= n + 1
    BY <1>2, <2>1
  <2>4. QED
    BY <2>2, <2>3
<1>4. CASE outcome[a][d] # "complete"
  <2>1. outcome[a][k] # "complete"
    <3>1. outcome[a][d] = DescribeInputs(d, outcome[a])
      BY DEF CommitStore, DerivedFound
    <3>2. outcome[a][k] \in {outcome[a][e] : e \in Feeds[d]}
      OBVIOUS
    <3>3. QED
      BY <1>4, <3>1, <3>2 DEF DescribeInputs
  <2>2. committed'[k].active = committed[k].active /\ committed'[d].active = committed[d].active
    BY <1>2, <1>4, <2>1
  <2>3. QED
    BY <2>2 DEF CandidatesNotOlder
<1>5. QED
  BY <1>3, <1>4

\* The Candidates that queries answer with are never older than an artifact they
\* were derived from, whichever artifacts fail in whichever runs.
THEOREM CandidatesKeepUp == Spec => []CandidatesNotOlder
<1>1. Init => DerivedFound /\ CandidatesNotOlder
  <2> SUFFICES ASSUME Init PROVE DerivedFound /\ CandidatesNotOlder
    OBVIOUS
  <2>1. \A a \in Analyses : phase[a] = "idle"
    BY DEF Init, Procs
  <2>2. \A d \in Derived : \A k \in Feeds[d] : committed[k].active = {}
    BY PagesAssumption DEF Init, EmptyImage, EmptyPage, Pages, Results
  <2>3. QED
    BY <2>1, <2>2 DEF DerivedFound, CandidatesNotOlder
<1>2. TypeOK /\ OneHolder /\ StoreInv /\ DerivedFound /\ CandidatesNotOlder /\ [Next]_vars
        => DerivedFound' /\ CandidatesNotOlder'
  <2>1. committed' = committed /\ CandidatesNotOlder => CandidatesNotOlder'
    BY DEF CandidatesNotOlder
  <2>2. QED
    BY <2>1, DerivedNext, OnlyCommitStores, CommitKeepsCandidates
<1>3. QED
  BY <1>1, <1>2, TypeCorrect, Exclusion, StoreInvariant, PTL DEF Spec

LEMMA CommitKeepsExitState ==
    ASSUME TypeOK, OneHolder, StoreInv, ExitStateIsOfTheRun,
           NEW a \in Analyses, CommitStore(a)
    PROVE  ExitStateIsOfTheRun'
<1> DEFINE n == Stored(committed)
<1>1. /\ n \in Nat
      /\ \A t \in Pages : Len(committed'[t].rows) = n + 1 /\ Len(committed[t].rows) = n
      /\ \A t \in Pages : \A i \in 1..n : committed'[t].rows[i] = committed[t].rows[i]
      /\ committed'[Runs].rows[n + 1] = RunStatus(outcome[a])
      /\ \A t \in Results :
            /\ committed'[t].active = IF outcome[a][t] = "complete" THEN {n + 1}
                                      ELSE committed[t].active
            /\ committed'[t].rows[n + 1] = outcome[a][t]
  BY CommitEffect
<1>2. Stored(committed') = n + 1
  BY <1>1 DEF Stored, Pages
<1> DEFINE Holds(exit, found) ==
              /\ exit = "complete" <=> "unavailable" \notin found
              /\ exit = "partial" => "complete" \in found
              /\ exit = "failed" => "complete" \notin found
              /\ exit \in ExitStates
           Found(i) == {committed[k].rows[i] : k \in Primary}
           FoundNext(i) == {committed'[k].rows[i] : k \in Primary}
<1> SUFFICES ASSUME NEW i \in 1..(n + 1)
             PROVE  Holds(committed'[Runs].rows[i], FoundNext(i))
  BY <1>2 DEF ExitStateIsOfTheRun
<1>3. Primary \subseteq Results /\ Results \subseteq Pages /\ Runs \in Pages
  BY PageKinds, PagesAssumption DEF Results
<1>4. CASE i \in 1..n
  <2>1. Holds(committed[Runs].rows[i], Found(i))
    BY <1>4 DEF ExitStateIsOfTheRun
  <2>2. /\ committed'[Runs].rows[i] = committed[Runs].rows[i]
        /\ \A k \in Primary : committed'[k].rows[i] = committed[k].rows[i]
    BY <1>1, <1>3, <1>4
  <2>3. FoundNext(i) = Found(i)
    BY <2>2
  <2>4. QED
    BY <2>1, <2>2, <2>3
<1>5. CASE i = n + 1
  <2> DEFINE now == {outcome[a][k] : k \in Primary}
  <2>1. committed'[Runs].rows[i] = RunStatus(outcome[a])
    BY <1>1, <1>5
  <2>2. \A k \in Primary : committed'[k].rows[i] = outcome[a][k]
    BY <1>1, <1>3, <1>5
  <2>3. FoundNext(i) = now
    BY <2>2
  <2>4. Holds(RunStatus(outcome[a]), now)
    BY DEF RunStatus, ExitStates
  <2>5. QED
    BY <2>1, <2>3, <2>4
<1>6. i \in 1..n \/ i = n + 1
  <2> HIDE DEF n
  <2>1. QED
    BY <1>1
<1>7. QED
  BY <1>4, <1>5, <1>6

\* The exit state stored with a run is what the stored results of its SQLite
\* stores say, for any number of them and any of them absent, also after later
\* runs.
THEOREM ExitStateTrue == Spec => []ExitStateIsOfTheRun
<1>1. Init => ExitStateIsOfTheRun
  BY DEF Init, ExitStateIsOfTheRun, Stored, EmptyImage, EmptyPage, Pages
<1>2. TypeOK /\ OneHolder /\ StoreInv /\ ExitStateIsOfTheRun /\ [Next]_vars
        => ExitStateIsOfTheRun'
  <2>1. committed' = committed /\ ExitStateIsOfTheRun => ExitStateIsOfTheRun'
    BY DEF ExitStateIsOfTheRun, Stored
  <2>2. QED
    BY <2>1, OnlyCommitStores, CommitKeepsExitState
<1>3. QED
  BY <1>1, <1>2, TypeCorrect, Exclusion, StoreInvariant, PTL DEF Spec

--------------------------------------------------------------------------------
(* What a dashboard sees in one request.  A process that is killed while   *)
(* it copies the log over the main file leaves rows of a run in some       *)
(* pages only, and a dashboard can then start over them; unless that      *)
(* happens, it sees whole runs.                                            *)

CopyPhases == {"checkpoint", "closing"}

\* Outside a checkpoint, the main file holds the same runs in every page.
MainIsWhole ==
    (\A a \in Analyses : phase[a] \notin CopyPhases)
        => \A t \in Pages : Len(main[t].rows) = Stored(main)

\* A dashboard that serves has read the main file as it still is, and has
\* forgotten what it read when it does not serve.
ServedIsMain ==
    \A s \in Serves :
        /\ phase[s] = "serving" \/ view[s] = NoView
        /\ \A t \in DOMAIN view[s] :
              t \in Pages /\ view[s][t] = main[t]

\* A copy that ends without a kill has copied every page.
LEMMA CopyEnds ==
    ASSUME TypeOK, [Next]_vars, CrashPhases \cap CopyPhases = {},
           NEW a \in Analyses, phase[a] \in CopyPhases, phase'[a] \notin CopyPhases
    PROVE  todo[a] = {}
<1> USE DEF TypeOK, ControlTypeOK, CopyPhases
<1>1. a \in Procs
  BY DEF Procs
<1>2. ASSUME NEW p \in Lockers, Contend(p) \/ LockStep(p) PROVE FALSE
  BY <1>1, <1>2 DEF Contend, LockStep, BeginExclusive, LockBusy, ReadHolder, WriteHolder,
     Release, Enter
<1>3. ASSUME NEW b \in Analyses, AnalyseStep(b) PROVE todo[a] = {}
  <2>1. b \in Procs
    BY DEF Procs
  <2>2. ASSUME NEW k \in Keys,
               \/ VerifyFile(b, k) \/ SkipArtifact(b, k) \/ SnapshotFile(b, k)
               \/ AnalyseArtifact(b, k) \/ ParseInPlace(b, k)
        PROVE  FALSE
    BY <2>2 DEF VerifyFile, SkipArtifact, SnapshotFile, AnalyseArtifact,
       ParseInPlace, Parse, DidNext, Did
  <2>3. ASSUME NEW t, PersistArtifact(b, t) \/ CopyPage(b, t) PROVE FALSE
    BY <2>3 DEF PersistArtifact, CopyPage, DidNext, Did
  <2>4. CASE \/ \E k \in Keys : IntegrityRefusal(b, k)
             \/ SnapshotRefused(b) \/ AnalysisFails(b) \/ StartReading(b)
             \/ GenerateCaseCandidates(b) \/ BeginStore(b) \/ CommitStore(b)
             \/ RollbackStore(b)
    BY <1>1, <2>1, <2>4 DEF IntegrityRefusal, SnapshotRefused, AnalysisFails,
       StartReading, GenerateCaseCandidates, BeginStore, CommitStore, RollbackStore,
       GiveUp, Enter
  <2>5. CASE \/ StartCheckpoint(b) \/ CheckpointDone(b) \/ CheckpointBusy(b)
             \/ CloseStore(b)
    BY <1>1, <2>1, <2>5 DEF StartCheckpoint, CheckpointDone, CheckpointBusy, CloseStore,
       Enter
  <2>6. QED
    BY <1>3, <2>2, <2>3, <2>4, <2>5 DEF AnalyseStep
<1>4. ASSUME NEW v \in Procs,
             \/ v \in Serves /\ (Listen(v) \/ ListenFails(v) \/ CloseServer(v))
             \/ v \in Viewers /\ OpenCaseReadOnly(v)
             \/ (\E t \in Pages : ReadPage(v, t)) \/ CloseCase(v)
      PROVE  FALSE
  BY <1>1, <1>4 DEF Listen, ListenFails, CloseServer, OpenCaseReadOnly, ReadPage,
     CloseCase, Enter, Did
<1>5. ASSUME NEW p \in Procs, Crash(p) PROVE FALSE
  BY <1>1, <1>5 DEF Crash, Enter
<1>6. CASE (\E k \in Tamperable : Tamper(k)) \/ UNCHANGED vars
  BY <1>6 DEF Tamper, vars
<1>7. QED
  BY <1>2, <1>3, <1>4, <1>5, <1>6 DEF Next, Procs, Viewers

LEMMA MainNext ==
    ASSUME TypeOK, StoreInv, MainIsWhole, [Next]_vars, CrashPhases \cap CopyPhases = {}
    PROVE  MainIsWhole'
<1> SUFFICES ASSUME \A a \in Analyses : phase'[a] \notin CopyPhases, NEW t \in Pages
             PROVE  Len(main'[t].rows) = Stored(main')
  BY DEF MainIsWhole
<1>1. main' = main
  BY OnlyCopyPublishes DEF CopyPage, Did, CopyPhases
<1>2. CASE \A a \in Analyses : phase[a] \notin CopyPhases
  BY <1>1, <1>2 DEF MainIsWhole, Stored
<1>3. ASSUME NEW a \in Analyses, phase[a] \in CopyPhases
      PROVE  Len(main[t].rows) = Stored(main)
  <2>1. todo[a] = {}
    BY <1>3, CopyEnds
  <2>2. \A u \in Pages : main[u] = committed[u]
    BY <1>3, <2>1 DEF StoreInv, CopyShape, CopyPhases
  <2>3. QED
    BY <2>2 DEF StoreInv, RunsAreWhole, Stored, Pages
<1>4. QED
  BY <1>1, <1>2, <1>3 DEF Stored

\* What a dashboard has read is dropped, kept, or added to while it serves.
LEMMA ServeMoves ==
    ASSUME TypeOK, [Next]_vars, NEW s \in Serves
    PROVE  \/ view'[s] = NoView
           \/ /\ view'[s] = view[s]
              /\ phase[s] = "serving" => phase'[s] = "serving"
           \/ /\ phase[s] = "serving" /\ phase'[s] = "serving"
              /\ \E t \in Pages :
                    view'[s] = [u \in DOMAIN view[s] \cup {t} |->
                                   IF u = t THEN main[t] ELSE view[s][u]]
<1> USE DEF TypeOK, ControlTypeOK, ViewTypeOK
<1>1. s \in Procs /\ s \in Viewers /\ s \notin Analyses /\ s \notin Readers
  BY ProcsAssumption DEF Procs, Viewers
<1>2. ASSUME NEW p \in Lockers, Contend(p) \/ LockStep(p)
      PROVE  view'[s] = view[s] /\ (phase[s] = "serving" => phase'[s] = "serving")
  BY <1>1, <1>2 DEF Contend, LockStep, BeginExclusive, LockBusy, ReadHolder, WriteHolder,
     Release, Enter
<1>3. ASSUME NEW a \in Analyses, AnalyseStep(a)
      PROVE  view'[s] = view[s] /\ phase'[s] = phase[s]
  BY <1>1, <1>3 DEF AnalyseStep, VerifyFile, IntegrityRefusal, SkipArtifact, SnapshotFile,
     AnalyseArtifact, ParseInPlace, Parse, SnapshotRefused, StartReading,
     GenerateCaseCandidates,
     AnalysisFails, BeginStore, CommitStore, RollbackStore, PersistArtifact, CopyPage,
     StartCheckpoint, CheckpointDone, CheckpointBusy, CloseStore, GiveUp, Enter,
     DidNext, Did
<1>4. ASSUME NEW w \in Serves, Listen(w) \/ ListenFails(w)
      PROVE  view'[s] = view[s] /\ (phase[s] = "serving" => phase'[s] = "serving")
  BY <1>1, <1>4 DEF Listen, ListenFails, Enter
<1>5. ASSUME NEW w \in Procs,
             \/ CloseServer(w) \/ CloseCase(w) \/ Crash(w)
             \/ w \in Viewers /\ OpenCaseReadOnly(w)
      PROVE  \/ view'[s] = NoView
             \/ view'[s] = view[s] /\ phase'[s] = phase[s]
  BY <1>1, <1>5 DEF CloseServer, OpenCaseReadOnly, CloseCase, Crash, Enter
<1>6. ASSUME NEW w \in Viewers, NEW t \in Pages, ReadPage(w, t)
      PROVE  \/ view'[s] = view[s] /\ phase'[s] = phase[s]
             \/ /\ phase[s] = "serving" /\ phase'[s] = "serving"
                /\ view'[s] = [u \in DOMAIN view[s] \cup {t} |->
                                   IF u = t THEN main[t] ELSE view[s][u]]
  BY <1>1, <1>6 DEF ReadPage, Did, ReaderPhases
<1>7. CASE (\E k \in Tamperable : Tamper(k)) \/ UNCHANGED vars
  BY <1>7 DEF Tamper, vars
<1>8. QED
  BY <1>2, <1>3, <1>4, <1>5, <1>6, <1>7 DEF Next, Procs, Viewers

LEMMA ServedNext ==
    ASSUME TypeOK, OneHolder, ServedIsMain, [Next]_vars
    PROVE  ServedIsMain'
<1> SUFFICES ASSUME NEW s \in Serves
             PROVE  /\ phase'[s] = "serving" \/ view'[s] = NoView
                    /\ \A t \in DOMAIN view'[s] :
                          t \in Pages /\ view'[s][t] = main'[t]
  BY DEF ServedIsMain
<1>1. phase[s] = "serving" => main' = main
  BY ServingFileStays
<1>2. CASE view'[s] = NoView
  BY <1>2 DEF NoView
<1>3. CASE view'[s] = view[s] /\ (phase[s] = "serving" => phase'[s] = "serving")
  BY <1>1, <1>2, <1>3 DEF ServedIsMain
<1>4. ASSUME NEW t \in Pages, phase[s] = "serving", phase'[s] = "serving",
             view'[s] = [u \in DOMAIN view[s] \cup {t} |->
                            IF u = t THEN main[t] ELSE view[s][u]]
      PROVE  /\ phase'[s] = "serving" \/ view'[s] = NoView
             /\ \A u \in DOMAIN view'[s] :
                   u \in Pages /\ view'[s][u] = main'[u]
  BY <1>1, <1>4 DEF ServedIsMain
<1>5. QED
  BY <1>2, <1>3, <1>4, ServeMoves

\* Unless a process is killed while it copies the log over the main file, a
\* request of a dashboard sees the store as one and the same run left it, with
\* every result, its records, its run and the right results active: also after a
\* checkpoint that an outsider kept from starting, or a run that was rolled back
\* or killed anywhere else.
THEOREM DashboardSeesWholeRuns ==
    ASSUME CrashPhases \cap CopyPhases = {}
    PROVE  Spec => []ServeSeesWholeRuns
<1>1. Init => MainIsWhole /\ ServedIsMain
  <2> SUFFICES ASSUME Init PROVE MainIsWhole /\ ServedIsMain
    OBVIOUS
  <2>1. MainIsWhole
    BY DEF Init, MainIsWhole, Stored, EmptyImage, EmptyPage, Pages
  <2>2. \A s \in Serves : view[s] = NoView
    BY DEF Init, Viewers
  <2>3. QED
    BY <2>1, <2>2 DEF ServedIsMain, NoView
<1>2. TypeOK /\ OneHolder /\ StoreInv /\ MainIsWhole /\ ServedIsMain /\ [Next]_vars
        => MainIsWhole' /\ ServedIsMain'
  BY MainNext, ServedNext
<1>3. TypeOK /\ OneHolder /\ StoreInv /\ MainIsWhole /\ ServedIsMain
        => ServeSeesWholeRuns
  <2> SUFFICES ASSUME TypeOK, OneHolder, StoreInv, MainIsWhole, ServedIsMain,
                      NEW s \in Serves
               PROVE  SeesWholeRuns(s)
    BY DEF ServeSeesWholeRuns
  <2>1. CASE view[s] = NoView
    <3>1. 0 \in 0..Stored(committed)
      BY ImageParts DEF TypeOK, ImageTypeOK
    <3>2. QED
      BY <2>1, <3>1 DEF SeesWholeRuns, NoView
  <2>2. CASE phase[s] = "serving"
    <3> DEFINE n == Stored(main)
    <3>1. \A a \in Analyses : phase[a] \notin CopyPhases
      BY <2>2, ProcsAssumption DEF OneHolder, CopyPhases, Holding, AnalysePhases,
         ServePhases, Procs
    <3>2. \A t \in Pages : Len(main[t].rows) = n
      BY <3>1 DEF MainIsWhole
    <3>3. n \in 0..Stored(committed)
      <4>1. Stored(main) \in Nat /\ Stored(committed) \in Nat
        BY ImageParts DEF TypeOK, ImageTypeOK
      <4>2. Stored(main) <= Stored(committed)
        BY PageKinds DEF StoreInv, FileOnlyCommitted, Stored
      <4>3. QED
        BY <4>1, <4>2
    <3>4. ASSUME NEW t \in DOMAIN view[s]
          PROVE  /\ view[s][t].rows = [i \in 1..n |-> committed[t].rows[i]]
                 /\ t \in Results => view[s][t].active = LastComplete(view[s][t].rows)
      <4>1. t \in Pages /\ view[s][t] = main[t]
        BY DEF ServedIsMain
      <4>2. main[t].rows \in Seq(RowValues)
        BY <4>1, ImageParts DEF TypeOK, ImageTypeOK, AnyPage, Page
      <4>3. Len(main[t].rows) = n /\ \A i \in 1..n : main[t].rows[i] = committed[t].rows[i]
        BY <3>2, <4>1 DEF StoreInv, FileOnlyCommitted
      <4>4. main[t].rows = [i \in 1..n |-> main[t].rows[i]]
        <5> HIDE DEF n
        <5> QED
          BY <4>2, <4>3
      <4>5. main[t].rows = [i \in 1..n |-> committed[t].rows[i]]
        <5> HIDE DEF n
        <5> QED
          BY <4>3, <4>4
      <4>6. QED
        BY <4>1, <4>5 DEF StoreInv, FileActive
    <3> HIDE DEF n
    <3>5. QED
      BY <3>3, <3>4 DEF SeesWholeRuns
  <2>3. QED
    BY <2>1, <2>2 DEF ServedIsMain
<1>4. QED
  BY <1>1, <1>2, <1>3, TypeCorrect, Exclusion, StoreInvariant, PTL DEF Spec
=================================================================================
