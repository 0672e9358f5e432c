------------------------- MODULE ExtractPublish_proofs -------------------------
(***************************************************************************)
(* Proofs about ExtractPublish, for any number of exports and of what the  *)
(* examiner does to the output directory.                                  *)
(*                                                                         *)
(* An export is ready to rename only a staging directory that it wrote to  *)
(* the end from one Case.  An output directory that is gone though the     *)
(* examiner made it has an export that will give it back, or was killed.   *)
(* And what an undisturbed report has read is what the directory has.      *)
(***************************************************************************)
EXTENDS ExtractPublish, FiniteSetTheorems, TLAPS

ExportPcs == {"idle", "read", "write", "remove", "rename", "clean", "refused", "done", "failed",
              "killed"}
ExportStates == [pc : ExportPcs, case : Cases \cup {Missing}, staging : Directories,
                 removedEmptyOut : BOOLEAN]

Reading == {"idle", "header", "manifest", "findings", "candidates"}
ReportStates == [pc : Reading \cup {"digest", "done", "refused"},
                 read : [FileNames -> Contents \cup {Missing}], same : SUBSET Digested,
                 undisturbed : BOOLEAN, integrity : {"none", "verified", "altered"}]

ExtractTypes ==
    /\ CaseType
    /\ outDirectory \in Directories
    /\ exports \in [Exporters -> ExportStates]
    /\ report \in ReportStates
    /\ touches \in [done : 0..MaxTouches, given : BOOLEAN]

Written(k) == {WriteOrder[j] : j \in 1..k}

\* What an export has in its staging directory, of the one Case that it read.
InOrder(e) ==
    e.pc = "write" =>
        e.case \in Cases /\ \E k \in 0..4 : e.staging = [f \in Written(k) |-> e.case]

StagedWhole(e) ==
    e.pc \in {"remove", "rename"} => e.case \in Cases /\ e.staging = Whole(e.case)

\* An export that removed the output directory and did not give it back yet.
Owes(e) == e.pc = "killed" \/ (e.pc \in {"rename", "clean"} /\ e.removedEmptyOut)

SomeoneOwes == touches.given /\ outDirectory = Missing => \E x \in Exporters : Owes(exports[x])

ReadSoFar ==
    CASE report.pc = "header"     -> {}
      [] report.pc = "manifest"   -> {Header}
      [] report.pc = "findings"   -> {Header, Manifest}
      [] report.pc = "candidates" -> {Header, Manifest, "findings"}
      [] OTHER                    -> FileNames

ReportIsTrue ==
    report.integrity = "verified" <=>
        /\ report.read[Manifest] # Missing
        /\ \A f \in Digested : report.read[f] = report.read[Manifest]

ReportInv ==
    /\ report.pc \in Reading => report.same = {}
    /\ report.undisturbed /\ report.pc \notin {"idle", "refused"} =>
          /\ \A f \in ReadSoFar : report.read[f] = Content(outDirectory, f)
          /\ \A f \in report.same : Content(outDirectory, f) = report.read[Manifest]
          /\ report.pc = "done" => ReportIsTrue

ExtractInv ==
    /\ ExtractTypes
    /\ \A x \in Exporters : InOrder(exports[x]) /\ StagedWhole(exports[x])
    /\ SomeoneOwes
    /\ ReportInv

--------------------------------------------------------------------------------
(***************************************************************************)
(* Directories.                                                            *)
(***************************************************************************)
LEMMA IsFolder ==
    ASSUME NEW S \in SUBSET FileNames, NEW d \in [S -> Contents]
    PROVE  d \in Folders
BY DEF Folders

LEMMA FolderFacts ==
    ASSUME NEW d \in Folders
    PROVE  /\ DOMAIN d \subseteq FileNames /\ \A f \in DOMAIN d : d[f] \in Contents
           /\ d # Missing /\ d = [f \in DOMAIN d |-> d[f]]
<1>1. PICK S \in SUBSET FileNames : d \in [S -> Contents]
  BY DEF Folders
<1>2. d # Missing
  BY ExtractAssumption
<1> QED BY <1>1, <1>2

LEMMA EmptyDirIsFolder == EmptyDir \in Folders /\ DOMAIN EmptyDir = {}
<1>1. DOMAIN EmptyDir = {} /\ EmptyDir = [f \in {} |-> EmptyDir[f]]
  BY DEF EmptyDir
<1>2. EmptyDir \in [{} -> Contents]
  BY <1>1
<1> QED BY <1>1, <1>2, IsFolder

LEMMA WholeIsFolder == \A c \in Cases : Whole(c) \in Folders /\ Whole(c) # Missing
<1> SUFFICES ASSUME NEW c \in Cases PROVE Whole(c) \in Folders /\ Whole(c) # Missing
  OBVIOUS
<1>1. Whole(c) \in [FileNames -> Contents]
  BY DEF Whole, Contents
<1>2. Whole(c) \in Folders
  BY <1>1, IsFolder
<1> QED BY <1>2, FolderFacts

LEMMA WithIsFolder ==
    ASSUME NEW d \in Folders, NEW f \in FileNames, NEW v \in Contents
    PROVE  With(d, f, v) \in Folders
<1>1. DOMAIN d \cup {f} \in SUBSET FileNames /\ \A g \in DOMAIN d : d[g] \in Contents
  BY FolderFacts
<1>2. With(d, f, v) \in [DOMAIN d \cup {f} -> Contents]
  BY <1>1 DEF With
<1> QED BY <1>1, <1>2, IsFolder

LEMMA WithoutIsFolder ==
    ASSUME NEW d \in Folders, NEW f
    PROVE  Without(d, f) \in Folders
<1>1. DOMAIN d \ {f} \in SUBSET FileNames /\ \A g \in DOMAIN d : d[g] \in Contents
  BY FolderFacts
<1>2. Without(d, f) \in [DOMAIN d \ {f} -> Contents]
  BY <1>1 DEF Without
<1> QED BY <1>1, <1>2, IsFolder

LEMMA ContentIsTyped ==
    ASSUME NEW d \in Directories, NEW f \in FileNames
    PROVE  Content(d, f) \in Contents \cup {Missing}
BY FolderFacts DEF Content, Directories

\* The files in the order in which they are written.
LEMMA WrittenFacts ==
    /\ Written(0) = {} /\ Written(1) = {Header} /\ Written(2) = {Header, "findings"}
    /\ Written(3) = {Header, "findings", "candidates"} /\ Written(4) = FileNames
    /\ Cardinality(Written(0)) = 0 /\ Cardinality(Written(1)) = 1
    /\ Cardinality(Written(2)) = 2 /\ Cardinality(Written(3)) = 3
<1>1. /\ Written(0) = {} /\ Written(1) = {Header} /\ Written(2) = {Header, "findings"}
      /\ Written(3) = {Header, "findings", "candidates"} /\ Written(4) = FileNames
  <2>1. 1..0 = {} /\ 1..1 = {1} /\ 1..2 = {1, 2} /\ 1..3 = {1, 2, 3} /\ 1..4 = {1, 2, 3, 4}
    OBVIOUS
  <2>2. /\ WriteOrder[1] = Header /\ WriteOrder[2] = "findings"
        /\ WriteOrder[3] = "candidates" /\ WriteOrder[4] = Manifest
    BY DEF WriteOrder
  <2> QED BY <2>1, <2>2 DEF Written, FileNames, DataFiles
<1>2. /\ Cardinality({}) = 0 /\ IsFiniteSet({}) /\ Cardinality({Header}) = 1
      /\ IsFiniteSet({Header})
  BY FS_EmptySet, FS_Singleton
<1>3. IsFiniteSet({Header, "findings"}) /\ Cardinality({Header, "findings"}) = 2
  <2>1. {Header, "findings"} = {Header} \cup {"findings"} /\ "findings" \notin {Header}
    BY DEF Header
  <2>2. /\ IsFiniteSet({Header} \cup {"findings"})
        /\ Cardinality({Header} \cup {"findings"}) = Cardinality({Header}) + 1
    BY <1>2, <2>1, FS_AddElement
  <2> QED BY <1>2, <2>1, <2>2
<1>4. Cardinality({Header, "findings", "candidates"}) = 3
  <2>1. /\ {Header, "findings", "candidates"} = {Header, "findings"} \cup {"candidates"}
        /\ "candidates" \notin {Header, "findings"}
    BY DEF Header
  <2> QED BY <1>3, <2>1, FS_AddElement
<1> QED BY <1>1, <1>2, <1>3, <1>4

--------------------------------------------------------------------------------
(***************************************************************************)
(* What a step of an export may do.                                        *)
(***************************************************************************)
LEMMA ExportStepInv ==
    ASSUME ExtractInv, NEW x \in Exporters, NEW from, NEW to \in ExportStates,
           ExportStep(x, from, to), UNCHANGED caseVars, outDirectory' \in Directories,
           InOrder(to), StagedWhole(to),
           touches.given /\ outDirectory' = Missing =>
               Owes(to) \/ (outDirectory = Missing /\ ~Owes(exports[x]))
    PROVE  ExtractInv'
<1>1. /\ exports' = [exports EXCEPT ![x] = to] /\ touches' = touches
      /\ report' = (IF outDirectory' = outDirectory THEN report
                    ELSE [report EXCEPT !.undisturbed = FALSE])
  BY DEF ExportStep, Disturb
<1>2. ExtractTypes'
  <2>1. report' \in ReportStates
    BY <1>1 DEF ExtractInv, ExtractTypes, ReportStates
  <2> QED BY <1>1, <2>1 DEF ExtractInv, ExtractTypes, CaseType, caseVars
<1>3. exports'[x] = to /\ \A y \in Exporters \ {x} : exports'[y] = exports[y]
  BY <1>1 DEF ExtractInv, ExtractTypes
<1>4. \A y \in Exporters : InOrder(exports'[y]) /\ StagedWhole(exports'[y])
  BY <1>3 DEF ExtractInv
<1>5. SomeoneOwes'
  <2> SUFFICES ASSUME touches.given, outDirectory' = Missing
               PROVE  \E y \in Exporters : Owes(exports'[y])
    BY <1>1 DEF SomeoneOwes, Owes
  <2>1. CASE Owes(to)
    BY <1>3, <2>1
  <2>2. CASE ~Owes(to)
    <3>1. PICK y \in Exporters : Owes(exports[y])
      BY <2>2 DEF ExtractInv, SomeoneOwes
    <3> QED BY <1>3, <2>2, <3>1
  <2> QED BY <2>1, <2>2
<1>6. ReportInv'
  <2>1. CASE outDirectory' = outDirectory
    BY <1>1, <2>1 DEF ExtractInv, ReportInv, ReadSoFar, ReportIsTrue
  <2>2. CASE outDirectory' # outDirectory
    <3>1. ~report'.undisturbed /\ report'.pc = report.pc /\ report'.same = report.same
      BY <1>1, <2>2 DEF ExtractInv, ExtractTypes, ReportStates
    <3> QED BY <3>1 DEF ExtractInv, ReportInv
  <2> QED BY <2>1, <2>2
<1> QED BY <1>2, <1>4, <1>5, <1>6 DEF ExtractInv, InOrder, StagedWhole

\* Each step of an export keeps the invariant, and what it puts in the output
\* directory is nothing or a whole Extract.
Publishes ==
    outDirectory' # outDirectory =>
        /\ IsEmptyOrMissing(outDirectory)
        /\ outDirectory' \in {Missing, EmptyDir} \cup {Whole(c) : c \in Cases}

LEMMA ExportInv ==
    ASSUME ExtractInv, NEW x \in Exporters, Export(x), UNCHANGED caseVars
    PROVE  ExtractInv' /\ Publishes
<1> DEFINE e == exports[x]
<1>0. /\ e \in ExportStates /\ InOrder(e) /\ StagedWhole(e) /\ case \in Cases
      /\ outDirectory \in Directories /\ Missing \in Directories /\ EmptyDir \in Directories
  BY EmptyDirIsFolder DEF ExtractInv, ExtractTypes, CaseType, Directories
<1>1. ASSUME NEW from, NEW to \in ExportStates, ExportStep(x, from, to),
             UNCHANGED outDirectory, InOrder(to), StagedWhole(to), Owes(e) => Owes(to)
      PROVE  ExtractInv' /\ Publishes
  BY <1>0, <1>1, ExportStepInv DEF Publishes
<1>2. CASE BeginExport(x)
  <2> DEFINE to == [e EXCEPT !.pc = IF IsEmptyOrMissing(outDirectory) THEN "read"
                                                                    ELSE "refused"]
  <2>1. ExportStep(x, "idle", to) /\ UNCHANGED outDirectory /\ e.pc = "idle"
    BY <1>2 DEF BeginExport, ExportStep
  <2>2. to \in ExportStates /\ to.pc \in {"read", "refused"}
    BY <1>0 DEF ExportStates, ExportPcs
  <2> QED BY <1>1, <2>1, <2>2 DEF InOrder, StagedWhole, Owes
<1>3. CASE ReadCase(x)
  <2> DEFINE to == IF case.runs = 0 THEN [e EXCEPT !.pc = "refused"]
                   ELSE [e EXCEPT !.pc = "write", !.case = case, !.staging = EmptyDir]
  <2>1. ExportStep(x, "read", to) /\ UNCHANGED outDirectory /\ e.pc = "read"
    BY <1>3 DEF ReadCase, ExportStep
  <2>2. to \in ExportStates /\ to.pc \in {"write", "refused"}
    BY <1>0 DEF ExportStates, ExportPcs
  <2>3. InOrder(to)
    <3>1. to.pc = "write" => to.case = case /\ to.staging = EmptyDir
      BY <1>0 DEF ExportStates
    <3>2. EmptyDir = [f \in Written(0) |-> case]
      BY WrittenFacts, EmptyDirIsFolder, FolderFacts
    <3> QED BY <1>0, <3>1, <3>2 DEF InOrder
  <2> QED BY <1>1, <2>1, <2>2, <2>3 DEF StagedWhole, Owes
<1>4. CASE WriteFile(x)
  <2> DEFINE f == WriteOrder[Cardinality(DOMAIN e.staging) + 1]
             to == [e EXCEPT !.staging = With(@, f, e.case)]
  <2>1. ExportStep(x, "write", to) /\ UNCHANGED outDirectory /\ e.pc = "write"
    BY <1>4 DEF WriteFile, ExportStep
  <2>2. PICK k \in 0..4 : e.case \in Cases /\ e.staging = [g \in Written(k) |-> e.case]
    BY <1>0, <2>1 DEF InOrder
  <2>3. k # 4
    BY <1>4, <2>2, WrittenFacts DEF WriteFile, Whole
  <2>4. /\ k \in 0..3 /\ k + 1 \in 0..4 /\ DOMAIN e.staging = Written(k)
        /\ Cardinality(Written(k)) = k
    BY <2>2, <2>3, WrittenFacts
  <2>5. f = WriteOrder[k + 1] /\ f \in FileNames /\ Written(k + 1) = Written(k) \cup {f}
    <3>1. f = WriteOrder[k + 1]
      BY <2>4
    <3>2. f \in FileNames
      BY <2>4, <3>1 DEF WriteOrder, FileNames, DataFiles
    <3>3. 1..(k + 1) = (1..k) \cup {k + 1}
      BY <2>4
    <3> QED BY <3>1, <3>2, <3>3 DEF Written
  <2>6. /\ to.pc = e.pc /\ to.case = e.case /\ to.staging = With(e.staging, f, e.case)
        /\ to.removedEmptyOut = e.removedEmptyOut
    BY <1>0 DEF ExportStates
  <2>7. to.staging = [g \in Written(k + 1) |-> to.case]
    BY <2>2, <2>4, <2>5, <2>6 DEF With
  <2>8. to \in ExportStates
    <3>1. e.staging \in Folders
      <4>1. e.staging \in [Written(k) -> Contents] /\ Written(k) \in SUBSET FileNames
        BY <2>2, <2>4, WrittenFacts DEF Contents, FileNames, DataFiles
      <4> QED BY <4>1, IsFolder
    <3>2. With(e.staging, f, e.case) \in Folders
      BY <2>2, <2>5, <3>1, WithIsFolder DEF Contents
    <3> QED BY <1>0, <3>2 DEF ExportStates, Directories
  <2>9. InOrder(to) /\ StagedWhole(to) /\ (Owes(e) => Owes(to))
    BY <2>1, <2>2, <2>4, <2>6, <2>7 DEF InOrder, StagedWhole, Owes
  <2> QED BY <1>1, <2>1, <2>8, <2>9
<1>5. CASE CheckOut(x)
  <2> DEFINE to == [e EXCEPT !.pc = IF IsEmptyOrMissing(outDirectory) THEN "remove"
                                                                    ELSE "clean"]
  <2>1. /\ ExportStep(x, "write", to) /\ UNCHANGED outDirectory /\ e.pc = "write"
        /\ e.staging = Whole(e.case)
    BY <1>5 DEF CheckOut, ExportStep
  <2>2. /\ to \in ExportStates /\ to.pc \in {"remove", "clean"}
        /\ to.case = e.case /\ to.staging = e.staging
    BY <1>0 DEF ExportStates, ExportPcs
  <2> QED BY <1>0, <1>1, <2>1, <2>2 DEF InOrder, StagedWhole, Owes
<1>6. CASE RemoveEmptyOut(x)
  <2> DEFINE to == [e EXCEPT !.pc = IF outDirectory' = Missing THEN "rename" ELSE "clean",
                             !.removedEmptyOut = outDirectory = EmptyDir]
  <2>1. ExportStep(x, "remove", to) /\ outDirectory' = AfterRmdir /\ e.pc = "remove"
    BY <1>6 DEF RemoveEmptyOut, ExportStep
  <2>2. /\ to.pc = (IF outDirectory' = Missing THEN "rename" ELSE "clean")
        /\ to.case = e.case /\ to.staging = e.staging
        /\ to.removedEmptyOut = (outDirectory = EmptyDir)
    BY <1>0 DEF ExportStates
  <2>3. to \in ExportStates
    BY <1>0, <2>2 DEF ExportStates, ExportPcs
  <2>4. InOrder(to) /\ StagedWhole(to)
    BY <1>0, <2>1, <2>2 DEF InOrder, StagedWhole
  <2>5. outDirectory' = Missing => Owes(to) \/ (outDirectory = Missing /\ ~Owes(e))
    BY <2>1, <2>2 DEF AfterRmdir, IsEmptyOrMissing, Owes
  <2>6. Publishes /\ outDirectory' \in Directories
    BY <1>0, <2>1 DEF AfterRmdir, Publishes
  <2> QED BY <2>1, <2>3, <2>4, <2>5, <2>6, ExportStepInv
<1>7. CASE RenameStaging(x)
  <2> DEFINE free == IsEmptyOrMissing(outDirectory)
             to == IF free THEN [e EXCEPT !.pc = "done", !.staging = Missing]
                   ELSE [e EXCEPT !.pc = "clean"]
  <2>1. /\ ExportStep(x, "rename", to) /\ e.pc = "rename"
        /\ outDirectory' = (IF free THEN e.staging ELSE outDirectory)
    BY <1>7 DEF RenameStaging, ExportStep
  <2>2. e.case \in Cases /\ e.staging = Whole(e.case) /\ e.staging \in Folders
    BY <1>0, <2>1, WholeIsFolder DEF StagedWhole
  <2>3. to \in ExportStates /\ to.pc = (IF free THEN "done" ELSE "clean")
    BY <1>0 DEF ExportStates, ExportPcs
  <2>4. InOrder(to) /\ StagedWhole(to)
    BY <2>3 DEF InOrder, StagedWhole
  <2>5. outDirectory' # Missing /\ outDirectory' \in Directories
    BY <1>0, <2>1, <2>2, FolderFacts DEF IsEmptyOrMissing, Directories
  <2>6. Publishes
    BY <2>1, <2>2 DEF Publishes
  <2> QED BY <2>1, <2>3, <2>4, <2>5, <2>6, ExportStepInv
<1>8. CASE FailExport(x)
  <2> DEFINE to == [e EXCEPT !.pc = "clean"]
  <2>1. /\ ExportStep(x, e.pc, to) /\ UNCHANGED outDirectory
        /\ e.pc \in {"write", "remove", "rename"}
    BY <1>8 DEF FailExport
  <2>2. to \in ExportStates /\ to.pc = "clean" /\ to.removedEmptyOut = e.removedEmptyOut
    BY <1>0 DEF ExportStates, ExportPcs
  <2> QED BY <1>1, <2>1, <2>2 DEF InOrder, StagedWhole, Owes
<1>9. CASE CleanStaging(x)
  <2> DEFINE to == [e EXCEPT !.staging = Missing]
  <2>1. ExportStep(x, "clean", to) /\ UNCHANGED outDirectory /\ e.pc = "clean"
    BY <1>9 DEF CleanStaging, ExportStep
  <2>2. to \in ExportStates /\ to.pc = e.pc /\ to.removedEmptyOut = e.removedEmptyOut
    BY <1>0 DEF ExportStates
  <2> QED BY <1>1, <2>1, <2>2 DEF InOrder, StagedWhole, Owes
<1>10. CASE GiveBack(x)
  <2> DEFINE to == [e EXCEPT !.pc = "failed"]
  <2>1. /\ ExportStep(x, "clean", to) /\ e.pc = "clean"
        /\ outDirectory' = (IF GivesBack(x) THEN EmptyDir ELSE outDirectory)
    BY <1>10 DEF GiveBack, ExportStep
  <2>2. to \in ExportStates /\ to.pc = "failed"
    BY <1>0 DEF ExportStates, ExportPcs
  <2>3. outDirectory' = Missing => outDirectory = Missing /\ ~Owes(e)
    BY <2>1, EmptyDirIsFolder, FolderFacts DEF GivesBack, Owes
  <2>4. Publishes /\ outDirectory' \in Directories
    BY <1>0, <2>1 DEF Publishes, GivesBack, IsEmptyOrMissing
  <2>5. InOrder(to) /\ StagedWhole(to)
    BY <2>2 DEF InOrder, StagedWhole
  <2> QED BY <2>1, <2>2, <2>3, <2>4, <2>5, ExportStepInv
<1>11. CASE KillExport(x)
  <2> DEFINE to == [e EXCEPT !.pc = "killed"]
  <2>1. ExportStep(x, e.pc, to) /\ UNCHANGED outDirectory
    BY <1>11 DEF KillExport
  <2>2. to \in ExportStates /\ to.pc = "killed"
    BY <1>0 DEF ExportStates, ExportPcs
  <2> QED BY <1>1, <2>1, <2>2 DEF InOrder, StagedWhole, Owes
<1> QED BY <1>2, <1>3, <1>4, <1>5, <1>6, <1>7, <1>8, <1>9, <1>10, <1>11 DEF Export

--------------------------------------------------------------------------------
(***************************************************************************)
(* The examiner, the report, and the runs that are stored meanwhile.       *)
(***************************************************************************)
LEMMA TouchInv ==
    ASSUME ExtractInv, NEW d \in Directories, Touch(d), UNCHANGED caseVars
    PROVE  ExtractInv'
<1>1. /\ outDirectory' = d /\ d # outDirectory /\ exports' = exports
      /\ touches' = [done |-> touches.done + 1, given |-> d # Missing]
      /\ report' = [report EXCEPT !.undisturbed = FALSE] /\ touches.done < MaxTouches
  BY DEF Touch, Disturb
<1>2. ExtractTypes'
  <2>1. touches' \in [done : 0..MaxTouches, given : BOOLEAN]
    <3>1. touches.done + 1 \in 0..MaxTouches
      BY <1>1, ExtractAssumption DEF ExtractInv, ExtractTypes
    <3> QED BY <1>1, <3>1
  <2>2. report' \in ReportStates
    BY <1>1 DEF ExtractInv, ExtractTypes, ReportStates
  <2> QED BY <1>1, <2>1, <2>2 DEF ExtractInv, ExtractTypes, CaseType, caseVars
<1>3. \A y \in Exporters : InOrder(exports'[y]) /\ StagedWhole(exports'[y])
  BY <1>1 DEF ExtractInv
<1>4. SomeoneOwes'
  BY <1>1 DEF SomeoneOwes
<1>5. ReportInv'
  <2>1. ~report'.undisturbed /\ report'.pc = report.pc /\ report'.same = report.same
    BY <1>1 DEF ExtractInv, ExtractTypes, ReportStates
  <2> QED BY <2>1 DEF ExtractInv, ReportInv
<1> QED BY <1>2, <1>3, <1>4, <1>5 DEF ExtractInv, InOrder, StagedWhole

LEMMA ExaminerInv == ExtractInv /\ ExaminerTouches /\ UNCHANGED caseVars => ExtractInv'
<1> SUFFICES ASSUME ExtractInv, ExaminerTouches, UNCHANGED caseVars PROVE ExtractInv'
  OBVIOUS
<1>1. outDirectory \in Folders
  BY DEF ExaminerTouches, ExtractInv, ExtractTypes, Directories
<1>2. CASE Touch(With(outDirectory, "findings", Foreign))
  <2>1. With(outDirectory, "findings", Foreign) \in Directories
    BY <1>1, WithIsFolder DEF FileNames, DataFiles, Contents, Directories
  <2> QED BY <1>2, <2>1, TouchInv
<1>3. ASSUME NEW f \in DOMAIN outDirectory, Touch(Without(outDirectory, f)) PROVE ExtractInv'
  <2>1. Without(outDirectory, f) \in Directories
    BY <1>1, WithoutIsFolder DEF Directories
  <2> QED BY <1>3, <2>1, TouchInv
<1>4. CASE Touch(Missing)
  BY <1>4, TouchInv DEF Directories
<1> QED BY <1>2, <1>3, <1>4 DEF ExaminerTouches

\* A report changes nothing but itself.
LEMMA ReportStepInv ==
    ASSUME ExtractInv, report' \in ReportStates, ReportInv',
           UNCHANGED <<outDirectory, exports, touches, caseVars>>
    PROVE  ExtractInv'
BY DEF ExtractInv, ExtractTypes, CaseType, caseVars, InOrder, StagedWhole, SomeoneOwes, Owes

LEMMA ReadNext ==
    ASSUME NEW i \in 1..4, report.pc = ReadOrder[i]
    PROVE  /\ ReadOrder[i] \in FileNames /\ report.pc \in Reading \ {"idle"}
           /\ ReadSoFar = {ReadOrder[j] : j \in 1..(i - 1)}
           /\ i < 4 => ReadOrder[i + 1] \in Reading \ {"idle"}
           /\ i = 1 <=> ReadOrder[i] = Header
<1>1. /\ ReadOrder[1] = "header" /\ ReadOrder[2] = "manifest" /\ ReadOrder[3] = "findings"
      /\ ReadOrder[4] = "candidates" /\ Header = "header" /\ Manifest = "manifest"
  BY DEF ReadOrder, Header, Manifest
<1>2. 1..0 = {} /\ 1..1 = {1} /\ 1..2 = {1, 2} /\ 1..3 = {1, 2, 3}
  OBVIOUS
<1>3. i = 1 \/ i = 2 \/ i = 3 \/ i = 4
  OBVIOUS
<1>4. ReadSoFar = {ReadOrder[j] : j \in 1..(i - 1)}
  <2>1. CASE i = 1
    BY <1>1, <1>2, <2>1 DEF ReadSoFar
  <2>2. CASE i = 2
    BY <1>1, <1>2, <2>2 DEF ReadSoFar
  <2>3. CASE i = 3
    BY <1>1, <1>2, <2>3 DEF ReadSoFar
  <2>4. CASE i = 4
    BY <1>1, <1>2, <2>4 DEF ReadSoFar
  <2> QED BY <1>3, <2>1, <2>2, <2>3, <2>4
<1> QED BY <1>1, <1>3, <1>4 DEF FileNames, DataFiles, Reading

\* Reading the next file adds it to what was read.
LEMMA ReadAddsOne ==
    ASSUME NEW i \in 1..4, report.pc = ReadOrder[i],
           report'.pc = IF i = 4 THEN "digest" ELSE ReadOrder[i + 1]
    PROVE  ReadSoFar' = ReadSoFar \cup {ReadOrder[i]}
<1>1. /\ ReadOrder[1] = "header" /\ ReadOrder[2] = "manifest" /\ ReadOrder[3] = "findings"
      /\ ReadOrder[4] = "candidates" /\ Header = "header" /\ Manifest = "manifest"
  BY DEF ReadOrder, Header, Manifest
<1>2. CASE i = 1
  BY <1>1, <1>2 DEF ReadSoFar
<1>3. CASE i = 2
  BY <1>1, <1>3 DEF ReadSoFar
<1>4. CASE i = 3
  BY <1>1, <1>4 DEF ReadSoFar
<1>5. CASE i = 4
  BY <1>1, <1>5 DEF ReadSoFar, FileNames, DataFiles
<1> QED BY <1>2, <1>3, <1>4, <1>5

LEMMA ReportStepsInv == ExtractInv /\ Report /\ UNCHANGED caseVars => ExtractInv'
<1> SUFFICES ASSUME ExtractInv, Report, UNCHANGED caseVars PROVE ExtractInv'
  OBVIOUS
<1>0. /\ report \in ReportStates /\ ReportInv /\ outDirectory \in Directories
      /\ UNCHANGED <<outDirectory, exports, touches, caseVars>>
  BY DEF ExtractInv, ExtractTypes, Report
<1> SUFFICES report' \in ReportStates /\ ReportInv'
  BY <1>0, ReportStepInv
<1>1. CASE StartReport
  <2>1. report' = [report EXCEPT !.pc = Header, !.undisturbed = TRUE] /\ report.pc = "idle"
    BY <1>1 DEF StartReport
  <2>2. report' \in ReportStates /\ report'.pc = "header" /\ report'.same = report.same
    BY <1>0, <2>1 DEF ReportStates, Reading, Header
  <2>3. report.same = {} /\ ReadSoFar' = {}
    BY <1>0, <2>1, <2>2 DEF ReportInv, Reading, ReadSoFar
  <2> QED BY <2>2, <2>3 DEF ReportInv
<1>2. CASE ReportReads
  <2>1. PICK i \in 1..4 :
           /\ report.pc = ReadOrder[i]
           /\ report' = IF ReadOrder[i] = Header /\ Content(outDirectory, ReadOrder[i]) = Missing
                        THEN [report EXCEPT !.pc = "refused"]
                        ELSE [report EXCEPT !.read[ReadOrder[i]]
                                                = Content(outDirectory, ReadOrder[i]),
                                            !.pc = IF i = 4 THEN "digest" ELSE ReadOrder[i + 1]]
    BY <1>2 DEF ReportReads, NextToRead
  <2> DEFINE f == ReadOrder[i]
             content == Content(outDirectory, f)
  <2>2. /\ f \in FileNames /\ report.pc \in Reading \ {"idle"} /\ report.same = {}
        /\ content \in Contents \cup {Missing}
    BY <1>0, <2>1, ReadNext, ContentIsTyped DEF ReportInv
  <2>3. CASE f = Header /\ content = Missing
    <3>1. report' = [report EXCEPT !.pc = "refused"]
      BY <2>1, <2>3
    <3>2. report' \in ReportStates /\ report'.pc = "refused"
      BY <1>0, <3>1 DEF ReportStates
    <3> QED BY <3>2 DEF ReportInv, Reading
  <2>4. CASE ~(f = Header /\ content = Missing)
    <3> DEFINE to == IF i = 4 THEN "digest" ELSE ReadOrder[i + 1]
    <3>1. report' = [report EXCEPT !.read[f] = content, !.pc = to]
      BY <2>1, <2>4
    <3>2. to \in Reading \cup {"digest"} /\ to \notin {"idle", "refused", "done"}
      BY <2>1, ReadNext DEF Reading
    <3>3. /\ report'.pc = to /\ report'.read = [report.read EXCEPT ![f] = content]
          /\ report'.same = {} /\ report'.undisturbed = report.undisturbed
      BY <1>0, <2>2, <3>1 DEF ReportStates
    <3>4. report' \in ReportStates
      <4>1. report'.read \in [FileNames -> Contents \cup {Missing}]
        BY <1>0, <2>2, <3>3 DEF ReportStates
      <4> QED BY <1>0, <3>1, <3>2, <4>1 DEF ReportStates
    <3>5. ReadSoFar' = ReadSoFar \cup {f}
      BY <2>1, <3>3, ReadAddsOne
    <3>6. report.undisturbed => \A g \in ReadSoFar' : report'.read[g] = Content(outDirectory, g)
      <4>1. report.undisturbed => \A g \in ReadSoFar : report.read[g] = Content(outDirectory, g)
        BY <1>0, <2>2 DEF ReportInv, Reading
      <4>2. ReadSoFar \subseteq FileNames /\ DOMAIN report.read = FileNames
        BY <1>0, <2>2 DEF ReadSoFar, ReportStates, Reading, FileNames, DataFiles
      <4> QED BY <2>2, <3>3, <3>5, <4>1, <4>2
    <3> QED BY <1>0, <3>2, <3>3, <3>4, <3>6 DEF ReportInv, Content
  <2> QED BY <2>3, <2>4
<1>3. CASE ReportDigests
  <2>1. PICK f \in Covered \ report.same :
           report' = IF Content(outDirectory, f) = report.read[Manifest]
                     THEN [report EXCEPT !.same = @ \cup {f}]
                     ELSE [report EXCEPT !.pc = "done", !.integrity = "altered"]
    BY <1>3 DEF ReportDigests
  <2>2. /\ report.pc = "digest" /\ f \in Digested /\ report.read[Manifest] # Missing
        /\ ReadSoFar = FileNames
    BY <1>3, <2>1 DEF ReportDigests, Covered, ReadSoFar
  <2>3. CASE Content(outDirectory, f) = report.read[Manifest]
    <3>1. /\ report' \in ReportStates /\ report'.pc = report.pc /\ report'.read = report.read
          /\ report'.same = report.same \cup {f} /\ report'.undisturbed = report.undisturbed
      BY <1>0, <2>1, <2>2, <2>3 DEF ReportStates
    <3>2. ReadSoFar' = FileNames
      BY <2>2, <3>1 DEF ReadSoFar
    <3> QED BY <1>0, <2>2, <2>3, <3>1, <3>2 DEF ReportInv, Reading, Content
  <2>4. CASE Content(outDirectory, f) # report.read[Manifest]
    <3>1. /\ report' \in ReportStates /\ report'.pc = "done" /\ report'.read = report.read
          /\ report'.same = report.same /\ report'.undisturbed = report.undisturbed
          /\ report'.integrity = "altered"
      BY <1>0, <2>1, <2>2, <2>4 DEF ReportStates
    <3>2. ReadSoFar' = FileNames
      BY <3>1 DEF ReadSoFar
    <3>3. report.undisturbed => report.read[f] # report.read[Manifest]
      BY <1>0, <2>2, <2>4 DEF ReportInv, FileNames, Digested
    <3>4. report.undisturbed => ReportIsTrue'
      BY <2>2, <3>1, <3>3 DEF ReportIsTrue
    <3> QED BY <1>0, <2>2, <3>1, <3>2, <3>4 DEF ReportInv, Reading, Content
  <2> QED BY <2>3, <2>4
<1>4. CASE ReportWrites
  <2>1. /\ report.pc = "digest" /\ Covered \subseteq report.same
        /\ report' = [report EXCEPT !.pc = "done", !.integrity = Integrity]
    BY <1>4 DEF ReportWrites
  <2>2. /\ report' \in ReportStates /\ report'.pc = "done" /\ report'.read = report.read
        /\ report'.same = report.same /\ report'.undisturbed = report.undisturbed
        /\ report'.integrity = Integrity
    BY <1>0, <2>1 DEF ReportStates, Integrity
  <2>3. ReadSoFar' = FileNames /\ ReadSoFar = FileNames
    BY <2>1, <2>2 DEF ReadSoFar
  <2>4. report.undisturbed => ReportIsTrue'
    <3> SUFFICES ASSUME report.undisturbed PROVE ReportIsTrue'
      OBVIOUS
    <3>1. CASE report.read[Manifest] = Missing
      BY <2>2, <3>1 DEF ReportIsTrue, Integrity
    <3>2. CASE report.read[Manifest] # Missing
      <4>1. \A f \in Digested : report.read[f] = report.read[Manifest]
        BY <1>0, <2>1, <2>3, <3>2 DEF ReportInv, Covered, Digested, FileNames
      <4> QED BY <2>2, <3>2, <4>1 DEF ReportIsTrue, Integrity
    <3> QED BY <3>1, <3>2
  <2> QED BY <1>0, <2>1, <2>2, <2>3, <2>4 DEF ReportInv, Reading, Content
<1> QED BY <1>1, <1>2, <1>3, <1>4 DEF Report

--------------------------------------------------------------------------------
ExtractStep == ExtractNext \/ (CaseStep /\ UNCHANGED extractVars)

LEMMA ExtractInitInv == CaseInit /\ ExtractInit => ExtractInv
<1> SUFFICES ASSUME CaseInit, ExtractInit PROVE ExtractInv
  OBVIOUS
<1>1. CaseType
  BY RowsAssumption, OutcomesAssumption DEF CaseInit, CaseType, Cases
<1>2. NotStarted \in ExportStates
  BY DEF NotStarted, ExportStates, ExportPcs, Directories
<1>3. /\ report \in ReportStates /\ report.pc = "idle" /\ report.same = {}
      /\ outDirectory \in Directories
  BY EmptyDirIsFolder DEF ExtractInit, NoReport, ReportStates, Reading, Directories
<1>4. touches \in [done : 0..MaxTouches, given : BOOLEAN]
  BY ExtractAssumption DEF ExtractInit
<1>5. ExtractTypes
  BY <1>1, <1>2, <1>3, <1>4 DEF ExtractTypes, ExtractInit
<1>6. \A x \in Exporters : InOrder(exports[x]) /\ StagedWhole(exports[x])
  BY DEF ExtractInit, NotStarted, InOrder, StagedWhole
<1>7. SomeoneOwes
  BY EmptyDirIsFolder, FolderFacts DEF ExtractInit, SomeoneOwes
<1> QED BY <1>3, <1>5, <1>6, <1>7 DEF ExtractInv, ReportInv, Reading

LEMMA CaseStepType == CaseType /\ CaseStep => CaseType'
<1> SUFFICES ASSUME CaseType, CaseStep PROVE CaseType'
  OBVIOUS
<1>1. CASE StoreRun /\ UNCHANGED server
  <2>1. case.runs + 1 \in 0..MaxRuns
    BY <1>1, RowsAssumption DEF StoreRun, CaseType, Cases
  <2> QED BY <1>1, <2>1 DEF StoreRun, CaseType, Cases
<1>2. CASE StartServer /\ UNCHANGED case
  <2>1. server.run + 1 \in 0..MaxServers
    BY <1>2, OutcomesAssumption DEF StartServer, CaseType
  <2> QED BY <1>2, <2>1 DEF StartServer, CaseType
<1>3. CASE StopServer /\ UNCHANGED case
  BY <1>3 DEF StopServer, CaseType
<1> QED BY <1>1, <1>2, <1>3 DEF CaseStep

LEMMA ExtractNextInv ==
    ASSUME ExtractInv, [ExtractStep]_<<caseVars, extractVars>>
    PROVE  ExtractInv' /\ (exports' # exports => Publishes)
<1>1. CASE ExtractNext
  <2>1. UNCHANGED caseVars
    BY <1>1 DEF ExtractNext
  <2>2. CASE ExaminerTouches
    BY <2>1, <2>2, ExaminerInv DEF ExaminerTouches, Touch
  <2>3. CASE Report
    BY <2>1, <2>3, ReportStepsInv DEF Report
  <2>4. ASSUME NEW x \in Exporters, Export(x) PROVE ExtractInv' /\ Publishes
    BY <2>1, <2>4, ExportInv
  <2> QED BY <1>1, <2>2, <2>3, <2>4 DEF ExtractNext
<1>2. CASE CaseStep /\ UNCHANGED extractVars
  <2>1. CaseType'
    BY <1>2, CaseStepType DEF ExtractInv, ExtractTypes
  <2> QED BY <1>2, <2>1 DEF extractVars, ExtractInv, ExtractTypes, InOrder, StagedWhole,
          SomeoneOwes, Owes, ReportInv, ReadSoFar, ReportIsTrue, Content
<1>3. CASE UNCHANGED <<caseVars, extractVars>>
  BY <1>3 DEF caseVars, extractVars, ExtractInv, ExtractTypes, CaseType, InOrder, StagedWhole,
     SomeoneOwes, Owes, ReportInv, ReadSoFar, ReportIsTrue, Content
<1> QED BY <1>1, <1>2, <1>3 DEF ExtractStep

LEMMA ExtractInvariant == ExtractSpec => []ExtractInv
<1>1. ExtractInv /\ [ExtractStep]_<<caseVars, extractVars>> => ExtractInv'
  BY ExtractNextInv
<1> QED BY <1>1, ExtractInitInv, PTL DEF ExtractSpec, ExtractStep

\* An export never touches a directory that holds files, and puts nothing or a
\* whole Extract of one Case there, at once, whatever else happens to the
\* directory and to the Case (core/src/export.ts).
THEOREM ExportsPublishWhole == ExtractSpec => ExportPublishesWhole
<1>1. ExtractInv /\ [ExtractStep]_<<caseVars, extractVars>> =>
         [exports' # exports /\ outDirectory' # outDirectory =>
             /\ IsEmptyOrMissing(outDirectory)
             /\ outDirectory' \in {Missing, EmptyDir} \cup {Whole(c) : c \in Cases}]_extractVars
  BY ExtractNextInv DEF Publishes
<1> QED BY <1>1, ExtractInvariant, PTL DEF ExtractSpec, ExtractStep, ExportPublishesWhole

\* An output directory that the examiner made is there when every export has
\* failed or been refused (core/src/export.ts, "Give the caller back").
THEOREM DirectoryGivenBack == ExtractSpec => []OutDirectoryGivenBack
<1>1. ExtractInv => OutDirectoryGivenBack
  BY DEF ExtractInv, SomeoneOwes, Owes, OutDirectoryGivenBack, EndedExport
<1> QED BY <1>1, ExtractInvariant, PTL

\* A Report whose Extract nobody changed meanwhile says "verified" exactly when
\* it shows what its manifest covers (core/src/report.ts 151-155).
THEOREM UndisturbedReportHolds == ExtractSpec => []UndisturbedReportIsTrue
<1>1. ExtractInv => UndisturbedReportIsTrue
  BY DEF ExtractInv, ReportInv, ReportIsTrue, UndisturbedReportIsTrue
<1> QED BY <1>1, ExtractInvariant, PTL
================================================================================
