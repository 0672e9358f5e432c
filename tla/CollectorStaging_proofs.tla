------------------------ MODULE CollectorStaging_proofs ------------------------
(***************************************************************************)
(* Proofs about CollectorStaging, for any number of Collectors.            *)
(*                                                                         *)
(* A staging directory has a run that builds in it or cleans it up, unless *)
(* one was killed; that needs no order between the runs.  What is in it    *)
(* follows the phase of the one run that is on, when no two are, so that   *)
(* what is published is of that run alone.                                 *)
(***************************************************************************)
EXTENDS CollectorStaging, TLAPS

KeptByRun == there /\ ~killed => \E c \in Collectors : phase[c] \in Building \cup {"cleaning"}

StagingInv == TypeOK /\ KeptByRun

OneRun == \A c, d \in Collectors : phase[c] # "idle" /\ phase[d] # "idle" => c = d

Some == {{}, {"accounts"}}

\* What the staging directory and the list of a run hold at each of its phases.
Progress(c) ==
    /\ phase[c] \in Building => there
    /\ phase[c] \in {"made", "owned"} => held = {}
    /\ phase[c] = "scanned" => held = {"scan_record"} \X {c}
    /\ phase[c] = "collected" =>
          \E some \in Some : held = ({"scan_record"} \cup some) \X {c}
    /\ phase[c] = "recorded" =>
          \E some \in Some : held = ({"scan_record", "collector_record"} \cup some) \X {c}
    /\ phase[c] = "listed" =>
          \E some \in Some : /\ held = ({"scan_record", "collector_record"} \cup some) \X {c}
                             /\ listed[c] = held
    /\ phase[c] \in {"manifested", "unmarked"} =>
          \E some \in Some :
              /\ held = (Always \cup some) \X {c}
              /\ listed[c] = ((Always \ {"bundle_manifest"}) \cup some) \X {c}

AloneInv == TypeOK /\ OneRun /\ \A c \in Collectors : Progress(c)

--------------------------------------------------------------------------------
(***************************************************************************)
(* Types.                                                                  *)
(***************************************************************************)
LEMMA InitStaging == Init => StagingInv
BY CollectorAssumption DEF Init, StagingInv, TypeOK, KeptByRun, Phases

LEMMA FileOf ==
    ASSUME NEW c \in Collectors, NEW name \in Always \cup {"accounts"}
    PROVE  <<name, c>> \in Files
BY DEF Files

LEMMA TypeStep == TypeOK /\ [Next]_vars => TypeOK'
<1> SUFFICES ASSUME TypeOK, [Next]_vars PROVE TypeOK'
  OBVIOUS
<1> USE DEF TypeOK
<1>1. ASSUME NEW c \in Collectors, Prepare(c) PROVE TypeOK'
  <2>1. CASE CheckOutput(c)
    BY <2>1 DEF CheckOutput, Goto, staging, Phases
  <2>2. CASE MakeStaging(c)
    BY <2>2 DEF MakeStaging, Goto, Phases, Building
  <2>3. CASE FindStaging(c)
    BY <2>3 DEF FindStaging, Goto, Stop, staging, Phases
  <2>4. CASE ReadOwner(c)
    BY <2>4 DEF ReadOwner, Goto, Stop, staging, Phases
  <2>5. CASE ProbeOwner(c)
    BY <2>5 DEF ProbeOwner, Goto, Stop, staging, Phases
  <2>6. CASE RemoveFile(c)
    BY <2>6 DEF RemoveFile
  <2>7. CASE RemoveStaging(c)
    BY <2>7 DEF RemoveStaging, Goto, Stop, Phases
  <2>8. CASE RecordOwner(c)
    BY <2>8 DEF RecordOwner, Goto, Phases, Building
  <2> QED BY <1>1, <2>1, <2>2, <2>3, <2>4, <2>5, <2>6, <2>7, <2>8 DEF Prepare
<1>2. ASSUME NEW c \in Collectors, Run(c) PROVE TypeOK'
  <2>1. ASSUME NEW name \in Always, NEW from, NEW to \in Phases, WriteJSON(c, name, from, to)
        PROVE  TypeOK'
    BY <2>1, FileOf DEF WriteJSON, Goto
  <2>2. CASE WriteScanRecord(c)
    BY <2>1, <2>2 DEF WriteScanRecord, Always, Phases, Building
  <2>3. CASE WriteCollectorRecord(c)
    BY <2>1, <2>3 DEF WriteCollectorRecord, Always, Phases, Building
  <2>4. CASE WriteManifest(c)
    BY <2>1, <2>4 DEF WriteManifest, Always, Phases, Building
  <2>5. CASE Collect(c)
    BY <2>5, FileOf DEF Collect, Goto, Phases, Building
  <2>6. CASE SkipUserDataDir(c)
    BY <2>6 DEF SkipUserDataDir, Goto, Phases, Building
  <2>7. CASE ListFiles(c)
    BY <2>7 DEF ListFiles, Goto, staging, Phases, Building
  <2>8. CASE RemoveOwner(c)
    BY <2>8 DEF RemoveOwner, Goto, Phases, Building
  <2>9. CASE Publish(c)
    <3>1. /\ phase' = [phase EXCEPT ![c] = "idle"] /\ seen' = [seen EXCEPT ![c] = Nothing]
          /\ listed' = [listed EXCEPT ![c] = {}] /\ there' = FALSE /\ held' = {}
          /\ owner' = Nothing /\ out' = [files |-> held, listed |-> listed[c]] /\ killed' = killed
      BY <2>9 DEF Publish, Stop, Goto
    <3>2. out' \in [files : SUBSET Files, listed : SUBSET Files]
      BY <3>1
    <3>3. "idle" \in Phases
      BY DEF Phases
    <3> QED BY <3>1, <3>2, <3>3
  <2>10. CASE Fail(c)
    BY <2>10 DEF Fail, Goto, staging, Phases
  <2> QED BY <1>2, <2>2, <2>3, <2>4, <2>5, <2>6, <2>7, <2>8, <2>9, <2>10 DEF Run
<1>3. ASSUME NEW c \in Collectors, Kill(c) PROVE TypeOK'
  <2>1. /\ phase' = [phase EXCEPT ![c] = "idle"] /\ seen' = [seen EXCEPT ![c] = Nothing]
        /\ listed' = [listed EXCEPT ![c] = {}] /\ UNCHANGED <<there, held, owner, out>>
        /\ killed' = TRUE
    BY <1>3 DEF Kill, Stop, Goto, staging
  <2>2. "idle" \in Phases
    BY DEF Phases
  <2> QED BY <2>1, <2>2
<1>4. CASE UNCHANGED vars
  BY <1>4 DEF vars
<1> QED BY <1>1, <1>2, <1>3, <1>4 DEF Next

(***************************************************************************)
(* Who keeps the staging directory.                                        *)
(***************************************************************************)
LEMMA KeptStep == StagingInv /\ [Next]_vars => KeptByRun'
<1> SUFFICES ASSUME StagingInv, [Next]_vars PROVE KeptByRun'
  OBVIOUS
<1> DEFINE Keeps(ph) == ph \in Building \cup {"cleaning"}
<1>0. phase \in [Collectors -> Phases] /\ KeptByRun
  BY DEF StagingInv, TypeOK
\* A step of a run that goes on, or that was no keeper.
<1>1. ASSUME NEW c \in Collectors, NEW ph, Goto(c, ph), killed' = killed,
             Keeps(ph) \/ (there' = there /\ ~Keeps(phase[c]))
      PROVE  KeptByRun'
  BY <1>0, <1>1 DEF KeptByRun, Goto
<1>2. ASSUME NEW c \in Collectors, Prepare(c) PROVE KeptByRun'
  <2>1. CASE CheckOutput(c)
    BY <1>1, <2>1 DEF CheckOutput, staging, Building
  <2>2. CASE MakeStaging(c)
    BY <1>1, <2>2 DEF MakeStaging, Building
  <2>3. CASE FindStaging(c)
    BY <1>1, <2>3 DEF FindStaging, Stop, staging, Building
  <2>4. CASE ReadOwner(c)
    BY <1>1, <2>4 DEF ReadOwner, Stop, staging, Building
  <2>5. CASE ProbeOwner(c)
    BY <1>1, <2>5 DEF ProbeOwner, Stop, staging, Building
  <2>6. CASE RemoveFile(c)
    BY <1>0, <2>6 DEF RemoveFile, KeptByRun
  <2>7. CASE RemoveStaging(c)
    BY <2>7 DEF RemoveStaging, KeptByRun
  <2>8. CASE RecordOwner(c)
    BY <1>1, <2>8 DEF RecordOwner, Building
  <2> QED BY <1>2, <2>1, <2>2, <2>3, <2>4, <2>5, <2>6, <2>7, <2>8 DEF Prepare
<1>3. ASSUME NEW c \in Collectors, Run(c) PROVE KeptByRun'
  <2>1. CASE WriteScanRecord(c) \/ WriteCollectorRecord(c) \/ WriteManifest(c)
    BY <1>1, <2>1 DEF WriteScanRecord, WriteCollectorRecord, WriteManifest, WriteJSON, Building
  <2>2. CASE Collect(c) \/ SkipUserDataDir(c)
    BY <1>1, <2>2 DEF Collect, SkipUserDataDir, Building
  <2>3. CASE ListFiles(c) \/ RemoveOwner(c)
    BY <1>1, <2>3 DEF ListFiles, RemoveOwner, Building
  <2>4. CASE Publish(c)
    BY <2>4 DEF Publish, KeptByRun
  <2>5. CASE Fail(c)
    BY <1>1, <2>5 DEF Fail, Building
  <2> QED BY <1>3, <2>1, <2>2, <2>3, <2>4, <2>5 DEF Run
<1>4. ASSUME NEW c \in Collectors, Kill(c) PROVE KeptByRun'
  BY <1>4 DEF Kill, KeptByRun
<1>5. CASE UNCHANGED vars
  BY <1>0, <1>5 DEF vars, KeptByRun
<1> QED BY <1>2, <1>3, <1>4, <1>5 DEF Next

LEMMA StagingInvariant == Spec => []StagingInv
<1>1. StagingInv /\ [Next]_vars => StagingInv'
  BY TypeStep, KeptStep DEF StagingInv
<1> QED BY <1>1, InitStaging, PTL DEF Spec

\* Every variable has its type, and only a directory that exists holds files,
\* whether runs overlap or not.
THEOREM TypeCorrect == Spec => []TypeOK
<1>1. StagingInv => TypeOK
  BY DEF StagingInv
<1> QED BY <1>1, StagingInvariant, PTL

\* When no run is on, the staging directory is there only after a kill
\* (collector.go:360), whether runs overlapped or not.
THEOREM OnlyKillsLeaveIt == Spec => []OnlyKillsLeave
<1>1. StagingInv => OnlyKillsLeave
  BY DEF StagingInv, KeptByRun, OnlyKillsLeave, Building
<1> QED BY <1>1, StagingInvariant, PTL

--------------------------------------------------------------------------------
(***************************************************************************)
(* One run at a time.                                                      *)
(***************************************************************************)
LEMMA InitAlone == Init => AloneInv
<1> SUFFICES ASSUME Init PROVE AloneInv
  OBVIOUS
<1>1. TypeOK
  BY InitStaging DEF StagingInv
<1>2. \A c \in Collectors : phase[c] = "idle"
  BY DEF Init
<1> QED BY <1>1, <1>2 DEF AloneInv, OneRun, Progress, Building

\* Only the run that is on takes a step, or, when none is, one that begins.
LEMMA AloneStep ==
    ASSUME AloneInv, ~MayOverlap, NEW c \in Collectors, Prepare(c) \/ Run(c) \/ Kill(c)
    PROVE  /\ \A d \in Collectors \ {c} : phase[d] = "idle" /\ phase'[d] = "idle"
           /\ phase \in [Collectors -> Phases] /\ OneRun'
<1>1. phase \in [Collectors -> Phases] /\ OneRun
  BY DEF AloneInv, TypeOK
<1>2. \A d \in Collectors \ {c} : phase'[d] = phase[d]
  BY <1>1 DEF Prepare, Run, Kill, CheckOutput, MakeStaging, FindStaging, ReadOwner, ProbeOwner,
     RemoveFile, RemoveStaging, RecordOwner, WriteScanRecord, WriteCollectorRecord,
     WriteManifest, WriteJSON, Collect, SkipUserDataDir, ListFiles, RemoveOwner, Publish, Fail,
     Goto, Stop
<1>3. \A d \in Collectors \ {c} : phase[d] = "idle"
  <2>1. CASE CheckOutput(c)
    BY <2>1 DEF CheckOutput
  <2>2. CASE ~CheckOutput(c)
    <3>1. phase[c] # "idle"
      BY <2>2 DEF Prepare, Run, Kill, MakeStaging, FindStaging, ReadOwner, ProbeOwner,
         RemoveFile, RemoveStaging, RecordOwner, WriteScanRecord, WriteCollectorRecord,
         WriteManifest, WriteJSON, Collect, SkipUserDataDir, ListFiles, RemoveOwner, Publish,
         Fail, Building
    <3> QED BY <1>1, <3>1 DEF OneRun
  <2> QED BY <2>1, <2>2
<1> QED BY <1>1, <1>2, <1>3 DEF OneRun

\* What a run is about to do depends on its own phase alone.
LEMMA Onward ==
    ASSUME AloneInv, ~MayOverlap, NEW c \in Collectors, Prepare(c) \/ Run(c) \/ Kill(c)
    PROVE  Progress(c)'
<1>0. phase \in [Collectors -> Phases] /\ Progress(c) /\ TypeOK
  BY DEF AloneInv, TypeOK
<1>1. ASSUME phase'[c] \notin Building PROVE Progress(c)'
  BY <1>1 DEF Progress, Building
<1>2. CASE MakeStaging(c)
  <2>1. phase'[c] = "made" /\ there' /\ held' = {}
    BY <1>0, <1>2 DEF MakeStaging, Goto, TypeOK
  <2> QED BY <2>1 DEF Progress, Building
<1>3. CASE RecordOwner(c)
  <2>1. phase'[c] = "owned" /\ there' /\ held' = {}
    BY <1>0, <1>3 DEF RecordOwner, Goto, Progress
  <2> QED BY <2>1 DEF Progress, Building
<1>4. CASE WriteScanRecord(c)
  <2>1. phase'[c] = "scanned" /\ there' /\ held' = {<<"scan_record", c>>}
    BY <1>0, <1>4 DEF WriteScanRecord, WriteJSON, Goto, Progress
  <2>2. {<<"scan_record", c>>} = {"scan_record"} \X {c}
    OBVIOUS
  <2> QED BY <2>1, <2>2 DEF Progress, Building
<1>5. CASE Collect(c)
  <2>1. held = {"scan_record"} \X {c}
    BY <1>0, <1>5 DEF Collect, Progress
  <2>2. phase'[c] = "collected" /\ there' /\ held' = held \cup {<<"accounts", c>>}
    BY <1>0, <1>5, <2>1 DEF Collect, Goto
  <2>3. held' = ({"scan_record"} \cup {"accounts"}) \X {c} /\ {"accounts"} \in Some
    BY <2>1, <2>2 DEF Some
  <2> QED BY <2>2, <2>3 DEF Progress, Building
<1>6. CASE SkipUserDataDir(c)
  <2>1. held = {"scan_record"} \X {c} /\ there
    BY <1>0, <1>6 DEF SkipUserDataDir, Progress, Building
  <2>2. phase'[c] = "collected" /\ there' /\ held' = held
    BY <1>0, <1>6, <2>1 DEF SkipUserDataDir, Goto
  <2>3. held' = ({"scan_record"} \cup {}) \X {c} /\ {} \in Some
    BY <2>1, <2>2 DEF Some
  <2> QED BY <2>2, <2>3 DEF Progress, Building
<1>7. CASE WriteCollectorRecord(c)
  <2>1. PICK some \in Some : held = ({"scan_record"} \cup some) \X {c}
    BY <1>0, <1>7 DEF WriteCollectorRecord, WriteJSON, Progress
  <2>2. phase'[c] = "recorded" /\ there' /\ held' = held \cup {<<"collector_record", c>>}
    BY <1>0, <1>7 DEF WriteCollectorRecord, WriteJSON, Goto
  <2>3. held' = ({"scan_record", "collector_record"} \cup some) \X {c}
    BY <2>1, <2>2
  <2> QED BY <2>2, <2>3 DEF Progress, Building
<1>8. CASE ListFiles(c)
  <2>1. PICK some \in Some : held = ({"scan_record", "collector_record"} \cup some) \X {c}
    BY <1>0, <1>8 DEF ListFiles, Progress
  <2>2. phase'[c] = "listed" /\ there' /\ held' = held /\ listed'[c] = held
    BY <1>0, <1>8 DEF ListFiles, Goto, staging, TypeOK
  <2> QED BY <2>1, <2>2 DEF Progress, Building
<1>9. CASE WriteManifest(c)
  <2>1. PICK some \in Some : /\ held = ({"scan_record", "collector_record"} \cup some) \X {c}
                             /\ listed[c] = held
    BY <1>0, <1>9 DEF WriteManifest, WriteJSON, Progress
  <2>2. /\ phase'[c] = "manifested" /\ there' /\ listed' = listed
        /\ held' = held \cup {<<"bundle_manifest", c>>}
    BY <1>0, <1>9 DEF WriteManifest, WriteJSON, Goto
  <2>3. /\ held' = (Always \cup some) \X {c}
        /\ listed'[c] = ((Always \ {"bundle_manifest"}) \cup some) \X {c}
    BY <2>1, <2>2 DEF Always
  <2> QED BY <2>2, <2>3 DEF Progress, Building
<1>10. CASE RemoveOwner(c)
  <2>1. /\ phase[c] = "manifested" /\ phase'[c] = "unmarked" /\ there' = there /\ held' = held
        /\ listed' = listed
    BY <1>0, <1>10 DEF RemoveOwner, Goto
  <2> QED BY <1>0, <2>1 DEF Progress, Building
<1>11. CASE RemoveFile(c)
  BY <1>1, <1>11 DEF RemoveFile, Building
<1>12. CASE \/ CheckOutput(c) \/ FindStaging(c) \/ ReadOwner(c) \/ ProbeOwner(c)
            \/ RemoveStaging(c) \/ Publish(c) \/ Fail(c) \/ Kill(c)
  <2>1. phase'[c] \notin Building
    BY <1>0, <1>12 DEF CheckOutput, FindStaging, ReadOwner, ProbeOwner, RemoveStaging, Publish,
       Fail, Kill, Goto, Stop, Building
  <2> QED BY <1>1, <2>1
<1> QED BY <1>2, <1>3, <1>4, <1>5, <1>6, <1>7, <1>8, <1>9, <1>10, <1>11, <1>12 DEF Prepare, Run

LEMMA AloneNext == AloneInv /\ ~MayOverlap /\ [Next]_vars => AloneInv'
<1> SUFFICES ASSUME AloneInv, ~MayOverlap, [Next]_vars PROVE AloneInv'
  OBVIOUS
<1>1. TypeOK'
  BY TypeStep DEF AloneInv
<1>2. ASSUME NEW c \in Collectors, Prepare(c) \/ Run(c) \/ Kill(c) PROVE AloneInv'
  <2>1. \A d \in Collectors \ {c} : Progress(d)'
    BY <1>2, AloneStep DEF Progress, Building
  <2> QED BY <1>1, <1>2, <2>1, AloneStep, Onward DEF AloneInv
<1>3. CASE UNCHANGED vars
  BY <1>1, <1>3 DEF vars, AloneInv, OneRun, Progress
<1> QED BY <1>2, <1>3 DEF Next

\* A bundle appears whole, with the files of one run and a manifest that lists
\* all of them but itself, and is never replaced, whatever was killed, failed
\* or was refused before: runs that do not overlap (collector.go:339-409)
\* implement AtomicPublish.
THEOREM PublishesWholeBundles ==
    ASSUME ~MayOverlap
    PROVE  Spec => PublishesBundle
<1>1. Init => BundleSpec!Init
  BY DEF Init, BundleSpec!Init
<1>2. AloneInv /\ [Next]_vars => [BundleSpec!Publish]_out
  <2> SUFFICES ASSUME AloneInv, [Next]_vars, out' # out PROVE BundleSpec!Publish
    OBVIOUS
  <2>1. PICK c \in Collectors : Publish(c)
    BY DEF Next, vars, Prepare, Run, Kill, CheckOutput, MakeStaging, FindStaging, ReadOwner,
       ProbeOwner, RemoveFile, RemoveStaging, RecordOwner, WriteScanRecord,
       WriteCollectorRecord, WriteManifest, WriteJSON, Collect, SkipUserDataDir, ListFiles,
       RemoveOwner, Fail
  <2>2. phase[c] = "unmarked" /\ out = Nothing /\ out' = [files |-> held, listed |-> listed[c]]
    BY <2>1 DEF Publish
  <2>3. PICK some \in Some :
            /\ held = (Always \cup some) \X {c}
            /\ listed[c] = ((Always \ {"bundle_manifest"}) \cup some) \X {c}
    BY <2>2 DEF AloneInv, Progress
  <2>4. out' = [files  |-> (Always \cup some) \X {c},
                listed |-> ((Always \ {"bundle_manifest"}) \cup some) \X {c}]
    BY <2>2, <2>3
  <2> DEFINE Bundle(d, t) == [files  |-> (Always \cup t) \X {d},
                              listed |-> ((Always \ {"bundle_manifest"}) \cup t) \X {d}]
             Bundles == {Bundle(d, t) : d \in Collectors, t \in {{}, {"accounts"}}}
  <2>5. Bundle(c, some) \in Bundles
    <3>1. some \in {{}, {"accounts"}}
      BY DEF Some
    <3> HIDE DEF Bundle
    <3> QED BY <3>1
  <2>6. out' \in Bundles
    BY <2>4, <2>5
  <2> HIDE DEF Bundles
  <2>7. out = Nothing /\ out' \in Bundles
    BY <2>2, <2>6
  <2> USE DEF Bundles
  <2> QED BY <2>7 DEF BundleSpec!Publish
<1>3. AloneInv /\ [Next]_vars => AloneInv'
  BY AloneNext
<1> QED BY <1>1, <1>2, <1>3, InitAlone, PTL DEF Spec, PublishesBundle, BundleSpec!Spec
================================================================================
