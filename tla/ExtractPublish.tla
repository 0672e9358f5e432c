----------------------------- MODULE ExtractPublish ----------------------------
(***************************************************************************)
(* Exports of a Case into one output directory (core/src/export.ts) and a  *)
(* Report that is rendered from it (core/src/report.ts), while Analysis    *)
(* Runs are stored, exports fail or are killed at any step, and the        *)
(* examiner puts files into the directory or takes them out, as one who    *)
(* exports again to the same place does.                                   *)
(*                                                                         *)
(* A directory is a function from the names of its files to their          *)
(* contents.  The content of a file of an Extract is the Case it was made  *)
(* from: exports of one Case with the same options write the same bytes.   *)
(* export_generation.json, which no digest covers, is left out.  That the  *)
(* Case is read in one state is the subject of CaseStore.                  *)
(***************************************************************************)
EXTENDS CaseServer

CONSTANTS
    Exporters,
    MaxTouches,     \* bounds what the examiner does to the output directory
    Missing,        \* a directory or a file that is not there
    Foreign         \* content of no export

VARIABLES
    outDirectory,   \* the output directory, or Missing
    exports,        \* exports[x]: [pc, case, staging, removedEmptyOut]
    report,         \* [pc, read, same, undisturbed, integrity]: read[f] is what
                    \* was read of f to be shown, same the files that the
                    \* recomputed digest found as the manifest has them
    touches         \* what the examiner did to the directory so far, and
                    \* whether it is there by the examiner's will (given)

extractVars == <<outDirectory, exports, report, touches>>

Header    == "header"
Manifest  == "manifest"
DataFiles == {"findings", "candidates"}
FileNames == {Header, Manifest} \cup DataFiles

\* What the digest of a manifest covers.
Digested == {Header} \cup DataFiles

EmptyDir == << >>
Whole(c) == [f \in FileNames |-> c]
IsEmptyOrMissing(d) == d = Missing \/ d = EmptyDir
Content(d, f) == IF d # Missing /\ f \in DOMAIN d THEN d[f] ELSE Missing
With(d, f, v) == [g \in DOMAIN d \cup {f} |-> IF g = f THEN v ELSE d[g]]
Without(d, f) == [g \in DOMAIN d \ {f} |-> d[g]]

NotStarted == [pc |-> "idle", case |-> Missing, staging |-> Missing, removedEmptyOut |-> FALSE]
NoReport ==
    [pc |-> "idle", read |-> [f \in FileNames |-> Missing], same |-> {}, undisturbed |-> TRUE,
     integrity |-> "none"]

ExtractInit ==
    /\ outDirectory \in {Missing, EmptyDir}
    /\ exports = [x \in Exporters |-> NotStarted]
    /\ report = NoReport
    /\ touches = [done |-> 0, given |-> outDirectory = EmptyDir]

\* A step of an export.  A report under way is disturbed by any change of the
\* directory (history).
Disturb == report' = IF outDirectory' = outDirectory THEN report
                     ELSE [report EXCEPT !.undisturbed = FALSE]

ExportStep(x, from, to) ==
    /\ exports[x].pc = from
    /\ exports' = [exports EXCEPT ![x] = to]
    /\ Disturb
    /\ UNCHANGED touches

\* The sources are read, and the output directory is looked at.
BeginExport(x) ==
    /\ UNCHANGED outDirectory
    /\ ExportStep(x, "idle",
           [exports[x] EXCEPT !.pc = IF IsEmptyOrMissing(outDirectory) THEN "read" ELSE "refused"])

\* Everything else is read from the Case; the staging directory is made.
ReadCase(x) ==
    /\ UNCHANGED outDirectory
    /\ ExportStep(x, "read",
           IF case.runs = 0 THEN [exports[x] EXCEPT !.pc = "refused"]
           ELSE [exports[x] EXCEPT !.pc = "write", !.case = case, !.staging = EmptyDir])

WriteOrder == <<Header, "findings", "candidates", Manifest>>

\* The next file of the Extract.
WriteFile(x) ==
    /\ UNCHANGED outDirectory
    /\ exports[x].staging # Whole(exports[x].case)
    /\ LET f == WriteOrder[Cardinality(DOMAIN exports[x].staging) + 1]
       IN  ExportStep(x, "write",
               [exports[x] EXCEPT !.staging = With(@, f, exports[x].case)])

\* assertEmptyOutDirectory again, once every file is written.
CheckOut(x) ==
    /\ UNCHANGED outDirectory
    /\ exports[x].staging = Whole(exports[x].case)
    /\ ExportStep(x, "write",
           [exports[x] EXCEPT !.pc = IF IsEmptyOrMissing(outDirectory) THEN "remove"
                                                                      ELSE "clean"])

AfterRmdir_Recursive == Missing

\* rmdir refuses a directory with files; ENOENT is as good.
AfterRmdir == IF IsEmptyOrMissing(outDirectory) THEN Missing ELSE outDirectory

RemoveEmptyOut(x) ==
    /\ outDirectory' = AfterRmdir
    /\ ExportStep(x, "remove",
           [exports[x] EXCEPT !.pc = IF outDirectory' = Missing THEN "rename" ELSE "clean",
                              !.removedEmptyOut = outDirectory = EmptyDir])

\* rename replaces an empty directory and refuses one with files.
RenameStaging(x) ==
    LET free == IsEmptyOrMissing(outDirectory)
    IN  /\ outDirectory' = IF free THEN exports[x].staging ELSE outDirectory
        /\ ExportStep(x, "rename",
               IF free THEN [exports[x] EXCEPT !.pc = "done", !.staging = Missing]
               ELSE [exports[x] EXCEPT !.pc = "clean"])

\* A write, the rmdir or the rename fails for a reason of its own.
FailExport(x) ==
    /\ UNCHANGED outDirectory
    /\ exports[x].pc \in {"write", "remove", "rename"}
    /\ ExportStep(x, exports[x].pc, [exports[x] EXCEPT !.pc = "clean"])

GivesBack_Never(x) == FALSE

GivesBack(x) == exports[x].removedEmptyOut /\ outDirectory = Missing

\* The catch clause: the staging directory goes, then the output directory
\* that was removed is made again; a failing mkdir is passed over.
CleanStaging(x) ==
    /\ UNCHANGED outDirectory
    /\ exports[x].staging # Missing
    /\ ExportStep(x, "clean", [exports[x] EXCEPT !.staging = Missing])

GiveBack(x) ==
    /\ exports[x].staging = Missing
    /\ outDirectory' = IF GivesBack(x) THEN EmptyDir ELSE outDirectory
    /\ ExportStep(x, "clean", [exports[x] EXCEPT !.pc = "failed"])

EndedExport == {"idle", "refused", "done", "failed", "killed"}
KillExport(x) ==
    /\ UNCHANGED outDirectory
    /\ exports[x].pc \notin EndedExport
    /\ ExportStep(x, exports[x].pc, [exports[x] EXCEPT !.pc = "killed"])

Export(x) ==
    \/ BeginExport(x) \/ ReadCase(x) \/ WriteFile(x) \/ CheckOut(x) \/ RemoveEmptyOut(x)
    \/ RenameStaging(x) \/ FailExport(x) \/ CleanStaging(x) \/ GiveBack(x) \/ KillExport(x)

--------------------------------------------------------------------------------
\* The examiner adds or edits a file, removes one, or removes the directory.
Touch(d) ==
    /\ touches.done < MaxTouches
    /\ outDirectory' = d /\ d # outDirectory
    /\ touches' = [done |-> touches.done + 1, given |-> d # Missing]
    /\ Disturb
    /\ UNCHANGED exports

ExaminerTouches ==
    /\ outDirectory # Missing
    /\ \/ \E f \in {"findings"} : Touch(With(outDirectory, f, Foreign))
       \/ \E f \in DOMAIN outDirectory : Touch(Without(outDirectory, f))
       \/ Touch(Missing)

--------------------------------------------------------------------------------
\* renderReport reads the header, the manifest and the rows, in this order.
ReadOrder == <<Header, Manifest, "findings", "candidates">>
NextToRead == {i \in 1..4 : report.pc = ReadOrder[i]}

StartReport ==
    /\ report.pc = "idle" /\ outDirectory # Missing
    /\ report' = [report EXCEPT !.pc = Header, !.undisturbed = TRUE]

ReportReads ==
    \E i \in NextToRead :
        LET f == ReadOrder[i] content == Content(outDirectory, f)
        IN  report' = IF f = Header /\ content = Missing THEN [report EXCEPT !.pc = "refused"]
                      ELSE [report EXCEPT !.read[f] = content,
                                          !.pc = IF i = 4 THEN "digest" ELSE ReadOrder[i + 1]]

\* The files a manifest names; none when there is no manifest.
Covered == IF report.read[Manifest] = Missing THEN {} ELSE Digested

\* recomputeDigest reads the covered files again, one by one.
ReportDigests ==
    /\ report.pc = "digest"
    /\ \E f \in Covered \ report.same :
          report' = IF Content(outDirectory, f) = report.read[Manifest]
                    THEN [report EXCEPT !.same = @ \cup {f}]
                    ELSE [report EXCEPT !.pc = "done", !.integrity = "altered"]

Integrity_NoManifest == "verified"

Integrity == IF report.read[Manifest] # Missing THEN "verified" ELSE "altered"

\* writeAtomically.
ReportWrites ==
    /\ report.pc = "digest" /\ Covered \subseteq report.same
    /\ report' = [report EXCEPT !.pc = "done", !.integrity = Integrity]

Report ==
    /\ StartReport \/ ReportReads \/ ReportDigests \/ ReportWrites
    /\ UNCHANGED <<outDirectory, exports, touches>>

ExtractNext ==
    /\ ExaminerTouches \/ Report \/ \E x \in Exporters : Export(x)
    /\ UNCHANGED caseVars

ExtractSpec ==
    /\ CaseInit /\ ExtractInit
    /\ [][ExtractNext \/ (CaseStep /\ UNCHANGED extractVars)]_<<caseVars, extractVars>>

--------------------------------------------------------------------------------
Contents == Cases \cup {Foreign}
Folders == UNION {[S -> Contents] : S \in SUBSET FileNames}
Directories == Folders \cup {Missing}

ASSUME ExtractAssumption == MaxTouches \in Nat /\ Missing \notin Folders \cup Contents

ExtractType ==
    /\ outDirectory \in Directories
    /\ \A x \in Exporters :
          /\ exports[x].staging \in Directories /\ exports[x].case \in Cases \cup {Missing}
          /\ exports[x].removedEmptyOut \in BOOLEAN
    /\ report.read \in [FileNames -> Contents \cup {Missing}]
    /\ report.integrity \in {"none", "verified", "altered"}
    /\ touches.done \in 0..MaxTouches

(* Action property: an export never touches a directory that holds files,  *)
(* and what it puts there is a whole Extract of one Case, at once          *)
(* (export.ts "a failed export never leaves a partial Extract").           *)
ExportPublishesWhole ==
    [][exports' # exports /\ outDirectory' # outDirectory =>
          /\ IsEmptyOrMissing(outDirectory)
          /\ outDirectory' \in {Missing, EmptyDir} \cup {Whole(c) : c \in Cases}]_extractVars

(* Safety: an output directory that the examiner made is there again when  *)
(* every export has failed or been refused, whatever two exports did to it *)
(* in turns (export.ts "Give the caller back the empty output directory"). *)
OutDirectoryGivenBack ==
    touches.given /\ (\A x \in Exporters : exports[x].pc \in EndedExport \ {"killed"})
        => outDirectory # Missing

(* Safety: a Report whose Extract nobody changed meanwhile says "verified" *)
(* exactly when it shows the header and rows the manifest was made with    *)
(* (report.ts 151-155).                                                    *)
UndisturbedReportIsTrue ==
    report.pc = "done" /\ report.undisturbed =>
        (report.integrity = "verified" <=>
            /\ report.read[Manifest] # Missing
            /\ \A f \in Digested : report.read[f] = report.read[Manifest])

(* Safety, as the comment of recomputeDigest has it: "A match binds the    *)
(* Report to the exact Extract it was generated from" (report.ts 151-155). *)
VerifiedIsWhatIsShown ==
    report.pc = "done" /\ report.integrity = "verified" =>
        \A f \in Digested : report.read[f] = report.read[Manifest]
================================================================================
