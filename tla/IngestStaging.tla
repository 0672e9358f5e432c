----------------------------- MODULE IngestStaging -----------------------------
(***************************************************************************)
(* ingest (core/src/ingest.ts, core/src/owner-marker.ts): processes that   *)
(* create the same Case at the same time.  Each removes the staging        *)
(* directories of dead ones, builds a Case in a staging directory with a   *)
(* name of its own, and publishes it with one rename.  No lock is taken;   *)
(* any process may be killed at any step.                                  *)
(*                                                                         *)
(* A process stands for its PID: one that is killed and started again has  *)
(* the PID of before, which is how a PID comes to be used again.           *)
(***************************************************************************)
CONSTANTS
    Ingests,      \* the processes
    Stagings,     \* the <case>.tmp-<uuid> names; bounds the runs
    NoStaging,
    KillPhases    \* the phases in which a process may be killed

Content == {"workingCopy", "database"}
\* An owner marker is the PID it names.
Parts   == Content \cup Ingests

\* The phases in which a process owns its staging directory,
Building == {"made", "marked", "copied", "built", "unmarked"}
\* and those before and after.
Phases == Building \cup {"idle", "listing", "sweeping", "condemned", "removing",
                         "published", "cleaning"}

ASSUME StagingAssumption ==
    NoStaging \notin Stagings /\ Content \cap Ingests = {} /\ KillPhases \subseteq Phases

VARIABLES
    phase,    \* phase[p]: where p is in ingestSource
    listed,   \* listed[p]: the directory names that p has still to look at
    target,   \* target[p]: the directory that p builds, condemned or removes
    there,    \* the staging directories that exist
    used,     \* the names ever used: randomUUID gives a new one
    parts,    \* parts[s]: what staging directory s holds
    case      \* the staging directory that became the Case, if any

vars == <<phase, listed, target, there, used, parts, case>>
fsVars == <<there, used, parts, case>>

Init ==
    /\ phase = [p \in Ingests |-> "idle"]
    /\ listed = [p \in Ingests |-> {}]
    /\ target = [p \in Ingests |-> NoStaging]
    /\ there = {} /\ used = {}
    /\ parts = [s \in Stagings |-> {}]
    /\ case = NoStaging

Goto(p, ph) == phase' = [phase EXCEPT ![p] = ph]

\* The error path and the end of a process.
Stop(p) ==
    /\ Goto(p, "idle")
    /\ listed' = [listed EXCEPT ![p] = {}]
    /\ target' = [target EXCEPT ![p] = NoStaging]

--------------------------------------------------------------------------------
\* lstat finds no Case Directory; otherwise CASE_ALREADY_EXISTS.
Start(p) ==
    /\ phase[p] = "idle"
    /\ case = NoStaging
    /\ Goto(p, "listing")
    /\ UNCHANGED <<listed, target, fsVars>>

\* removeStaleStaging lists the parent directory once,
ListParent(p) ==
    /\ phase[p] = "listing"
    /\ listed' = [listed EXCEPT ![p] = there]
    /\ Goto(p, "sweeping")
    /\ UNCHANGED <<target, fsVars>>

OwnerIsDead_UnlessAlive(s) ==
    ~ \E q \in Ingests : q \in parts[s] /\ phase[q] # "idle"

\* ownerIsDead: only an owner record that is there and names no process.
OwnerIsDead(s) ==
    s \in there /\ \E q \in Ingests : q \in parts[s] /\ phase[q] = "idle"

\* keeps what is not known to be stale,
KeepStaging(p, s) ==
    /\ phase[p] = "sweeping" /\ s \in listed[p]
    /\ ~OwnerIsDead(s)
    /\ listed' = [listed EXCEPT ![p] = @ \ {s}]
    /\ UNCHANGED <<phase, target, fsVars>>

Condemn_Unnamed(p, s) ==
    /\ phase[p] = "sweeping" /\ s \in listed[p]
    /\ OwnerIsDead(s)
    /\ Goto(p, "condemned")
    /\ UNCHANGED <<listed, target, fsVars>>

\* and condemns the rest.
Condemn(p, s) ==
    /\ phase[p] = "sweeping" /\ s \in listed[p]
    /\ OwnerIsDead(s)
    /\ target' = [target EXCEPT ![p] = s]
    /\ listed' = [listed EXCEPT ![p] = @ \ {s}]
    /\ Goto(p, "condemned")
    /\ UNCHANGED fsVars

\* lstat, then rm.  When another sweep has removed the directory in between,
\* lstat fails and so does this ingest.
Remove(p) ==
    /\ phase[p] = "condemned"
    /\ IF target[p] \in there
       THEN Goto(p, "removing") /\ UNCHANGED <<listed, target>>
       ELSE Stop(p)
    /\ UNCHANGED fsVars

\* rm deletes a directory entry by entry,
RemovePart(p, part) ==
    /\ phase[p] \in {"removing", "cleaning"}
    /\ target[p] \in there /\ part \in parts[target[p]]
    /\ parts' = [parts EXCEPT ![target[p]] = @ \ {part}]
    /\ UNCHANGED <<phase, listed, target, there, used, case>>

\* then the directory; with `force`, one that is gone already is no error.
RemoveDirectory(p) ==
    /\ phase[p] \in {"removing", "cleaning"}
    /\ target[p] \in there => parts[target[p]] = {}
    /\ there' = there \ {target[p]}
    /\ IF phase[p] = "cleaning"
       THEN Stop(p)
       ELSE /\ Goto(p, "sweeping")
            /\ target' = [target EXCEPT ![p] = NoStaging]
            /\ UNCHANGED listed
    /\ UNCHANGED <<used, parts, case>>

--------------------------------------------------------------------------------
\* mkdir of a staging directory with a new name, no matter which.
MakeStaging(p) ==
    /\ phase[p] = "sweeping" /\ listed[p] = {}
    /\ Stagings \ used # {}
    /\ LET s == CHOOSE s \in Stagings \ used : TRUE
       IN  /\ there' = there \cup {s} /\ used' = used \cup {s}
           /\ target' = [target EXCEPT ![p] = s]
    /\ Goto(p, "made")
    /\ UNCHANGED <<listed, parts, case>>

\* writeOwnerMarker.
WriteOwnerMarker(p) ==
    /\ phase[p] = "made" /\ target[p] \in there
    /\ parts' = [parts EXCEPT ![target[p]] = @ \cup {p}]
    /\ Goto(p, "marked")
    /\ UNCHANGED <<listed, target, there, used, case>>

\* mkdir or writeOwnerMarker fails: they are outside the try block.
MarkerFails(p) ==
    /\ phase[p] \in {"sweeping", "made"} /\ listed[p] = {}
    /\ Stop(p)
    /\ UNCHANGED fsVars

\* prepareDirectoryInput or prepareAcquisitionBundle write the Working Copy,
Prepare(p) ==
    /\ phase[p] = "marked" /\ target[p] \in there
    /\ parts' = [parts EXCEPT ![target[p]] = @ \cup {"workingCopy"}]
    /\ Goto(p, "copied")
    /\ UNCHANGED <<listed, target, there, used, case>>

\* createCaseDatabase the database.
CreateCaseDatabase(p) ==
    /\ phase[p] = "copied" /\ target[p] \in there
    /\ parts' = [parts EXCEPT ![target[p]] = @ \cup {"database"}]
    /\ Goto(p, "built")
    /\ UNCHANGED <<listed, target, there, used, case>>

RemoveOwnerMarker_Late(p) ==
    /\ phase[p] = "built"
    /\ Goto(p, "unmarked")
    /\ UNCHANGED <<listed, target, fsVars>>

RemoveOwnerMarker(p) ==
    /\ phase[p] = "built" /\ p \in parts[target[p]]
    /\ parts' = [parts EXCEPT ![target[p]] = @ \ {p}]
    /\ Goto(p, "unmarked")
    /\ UNCHANGED <<listed, target, there, used, case>>

Publish_Forgiving(p) ==
    /\ phase[p] = "unmarked" /\ target[p] \in there
    /\ case' = IF case = NoStaging THEN target[p] ELSE case
    /\ there' = there \ {target[p]}
    /\ Goto(p, "published")
    /\ UNCHANGED <<listed, target, used, parts>>

\* rename fails on a Case Directory that is there, which is never empty.
Publish(p) ==
    /\ phase[p] = "unmarked" /\ target[p] \in there
    /\ case = NoStaging
    /\ case' = target[p]
    /\ there' = there \ {target[p]}
    /\ Goto(p, "published")
    /\ UNCHANGED <<listed, target, used, parts>>

\* The command reports the Case and ends.
Finish(p) ==
    /\ phase[p] = "published"
    /\ Stop(p)
    /\ UNCHANGED fsVars

\* Any error in the try block, also one after the rename, removes the staging
\* directory, by its path.
Fail(p) ==
    /\ phase[p] \in (Building \ {"made"}) \cup {"published"}
    /\ Goto(p, "cleaning")
    /\ UNCHANGED <<listed, target, fsVars>>

Kill(p) ==
    /\ phase[p] \in KillPhases \ {"idle"}
    /\ Stop(p)
    /\ UNCHANGED fsVars

--------------------------------------------------------------------------------
Sweep(p) ==
    \/ ListParent(p) \/ \E s \in Stagings : KeepStaging(p, s) \/ Condemn(p, s)
    \/ Remove(p) \/ (\E part \in Parts : RemovePart(p, part)) \/ RemoveDirectory(p)

Build(p) ==
    \/ MakeStaging(p) \/ WriteOwnerMarker(p) \/ MarkerFails(p) \/ Prepare(p) \/ CreateCaseDatabase(p)
    \/ RemoveOwnerMarker(p) \/ Publish(p) \/ Finish(p) \/ Fail(p)

Next == \E p \in Ingests : Start(p) \/ Sweep(p) \/ Build(p) \/ Kill(p)

Spec == Init /\ [][Next]_vars

--------------------------------------------------------------------------------
\* Every variable has its type, names that exist were used, and a process that
\* builds or removes has a directory to do it in.
TypeOK ==
    /\ phase \in [Ingests -> Phases]
    /\ listed \in [Ingests -> SUBSET Stagings]
    /\ target \in [Ingests -> used \cup {NoStaging}]
    /\ \A p \in Ingests : phase[p] \in Building \cup {"condemned", "removing",
                                                      "published", "cleaning"}
                             => target[p] # NoStaging
    /\ used \subseteq Stagings /\ there \subseteq used
    /\ parts \in [Stagings -> SUBSET Parts]
    /\ case \in used \cup {NoStaging}

\* "a live, unknown or foreign owner is never touched" (ingest.ts:571): while a
\* process builds, only its own steps change its staging directory, also before
\* it has written its marker and after it has removed it.
LiveStagingKept ==
    [][\A p \in Ingests : phase[p] \in Building /\ phase'[p] = phase[p] =>
          /\ parts'[target[p]] = parts[target[p]]
          /\ target[p] \in there => target[p] \in there']_vars

\* A Case is published whole and of one ingest, without the marker, and never
\* replaced or taken apart, by whatever other ingests do at the same time.
CaseSpec == INSTANCE AtomicPublish WITH
    Outputs <- {[by |-> s, parts |-> Content] : s \in Stagings},
    Nothing <- NoStaging,
    out <- IF case = NoStaging THEN NoStaging ELSE [by |-> case, parts |-> parts[case]]
PublishesWhole == CaseSpec!Spec

\* An ingest that reports success reports its own Case, not that of another.
SuccessIsOwn == \A p \in Ingests : phase[p] = "published" => case = target[p]
================================================================================
