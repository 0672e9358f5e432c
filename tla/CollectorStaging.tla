--------------------------- MODULE CollectorStaging ---------------------------
(***************************************************************************)
(* The Collector's output (collector/internal/collector/collector.go).     *)
(* Every run for the same output builds in the one directory <out>.partial *)
(* with a file that names its PID, and renames it to <out>.  A run that    *)
(* finds the directory removes it when the PID in it is dead.              *)
(*                                                                         *)
(* A Collector stands for its PID, which may be used again.                *)
(***************************************************************************)
CONSTANTS
    Collectors,
    Nothing,
    MayOverlap    \* whether a run may start while another one is running

ASSUME CollectorAssumption == Nothing \notin Collectors /\ MayOverlap \in BOOLEAN

\* The files of a bundle: those of every run, and those of its User Data Dirs.
Always == {"scan_record", "collector_record", "bundle_manifest"}
Files  == (Always \cup {"accounts"}) \X Collectors   \* a file and its writer

\* From os.Mkdir of <out>.partial to the rename.
Building == {"made", "owned", "scanned", "collected", "recorded", "listed",
             "manifested", "unmarked"}
Phases == Building \cup {"idle", "checked", "inspecting", "probing", "removing",
                         "removed", "cleaning"}

VARIABLES
    phase,   \* phase[c]: where c is in Run
    seen,    \* seen[c]: the PID that c has read in the owner file
    listed,  \* listed[c]: manifest.Files, the files that c found
    there,   \* whether <out>.partial exists
    held,    \* the files in it, without
    owner,   \* the PID in its owner file
    out,     \* <out>: its files and what its manifest lists
    killed   \* history: whether a run was ever killed

vars == <<phase, seen, listed, there, held, owner, out, killed>>

Init ==
    /\ phase = [c \in Collectors |-> "idle"]
    /\ seen = [c \in Collectors |-> Nothing]
    /\ listed = [c \in Collectors |-> {}]
    /\ there = FALSE /\ held = {} /\ owner = Nothing
    /\ out = Nothing
    /\ killed = FALSE

staging == <<there, held, owner>>

Goto(c, ph) == phase' = [phase EXCEPT ![c] = ph]

Stop(c) ==
    /\ Goto(c, "idle")
    /\ seen' = [seen EXCEPT ![c] = Nothing]
    /\ listed' = [listed EXCEPT ![c] = {}]

--------------------------------------------------------------------------------
\* prepareOutput: <out> must not exist.
CheckOutput(c) ==
    /\ phase[c] = "idle" /\ out = Nothing
    /\ MayOverlap \/ \A d \in Collectors : phase[d] = "idle"
    /\ Goto(c, "checked")
    /\ UNCHANGED <<seen, listed, staging, out, killed>>

\* os.Mkdir, the first time or after the removal of a stale directory.
MakeStaging(c) ==
    /\ phase[c] \in {"checked", "removed"} /\ ~there
    /\ there' = TRUE
    /\ Goto(c, "made")
    /\ UNCHANGED <<seen, listed, held, owner, out, killed>>

\* The first Mkdir finds it there; for the second that is an error.
FindStaging(c) ==
    /\ phase[c] \in {"checked", "removed"} /\ there
    /\ IF phase[c] = "checked" THEN Goto(c, "inspecting") /\ UNCHANGED <<seen, listed>>
                               ELSE Stop(c)
    /\ UNCHANGED <<staging, out, killed>>

\* removeStaleStaging reads the owner file; without one the run is refused,
ReadOwner(c) ==
    /\ phase[c] = "inspecting"
    /\ IF owner # Nothing
       THEN Goto(c, "probing") /\ seen' = [seen EXCEPT ![c] = owner] /\ UNCHANGED listed
       ELSE Stop(c)
    /\ UNCHANGED <<staging, out, killed>>

\* as it is when that process runs.
ProbeOwner(c) ==
    /\ phase[c] = "probing"
    /\ IF phase[seen[c]] = "idle"
       THEN Goto(c, "removing") /\ UNCHANGED <<seen, listed>>
       ELSE Stop(c)
    /\ UNCHANGED <<staging, out, killed>>

\* os.RemoveAll goes by the path and entry by entry,
RemoveFile(c) ==
    /\ phase[c] \in {"removing", "cleaning"}
    /\ \/ \E f \in held : held' = held \ {f} /\ UNCHANGED owner
       \/ owner # Nothing /\ owner' = Nothing /\ UNCHANGED held
    /\ UNCHANGED <<phase, seen, listed, there, out, killed>>

RemoveStaging_First(c) ==
    /\ phase[c] \in {"removing", "cleaning"}
    /\ there' = FALSE
    /\ IF phase[c] = "removing" THEN Goto(c, "removed") /\ UNCHANGED <<seen, listed>>
                                ELSE Stop(c)
    /\ UNCHANGED <<held, owner, out, killed>>

\* the directory last; one that is gone is no error.
RemoveStaging(c) ==
    /\ phase[c] \in {"removing", "cleaning"}
    /\ held = {} /\ owner = Nothing
    /\ there' = FALSE
    /\ IF phase[c] = "removing" THEN Goto(c, "removed") /\ UNCHANGED <<seen, listed>>
                                ELSE Stop(c)
    /\ UNCHANGED <<held, owner, out, killed>>

RecordOwner(c) ==
    /\ phase[c] = "made" /\ there
    /\ owner' = c
    /\ Goto(c, "owned")
    /\ UNCHANGED <<seen, listed, there, held, out, killed>>

--------------------------------------------------------------------------------
\* conformance.WriteJSON: O_EXCL, in a directory that must be there.
WriteJSON(c, name, from, to) ==
    /\ phase[c] = from /\ there
    /\ \A d \in Collectors : <<name, d>> \notin held
    /\ held' = held \cup {<<name, c>>}
    /\ Goto(c, to)
    /\ UNCHANGED <<seen, listed, there, owner, out, killed>>

WriteScanRecord(c) == WriteJSON(c, "scan_record", "owned", "scanned")
WriteCollectorRecord(c) == WriteJSON(c, "collector_record", "collected", "recorded")
WriteManifest(c) == WriteJSON(c, "bundle_manifest", "listed", "manifested")

\* collectUserDataDir makes what directories it misses, <out>.partial too, and
\* renames its own part into place, unless another one is there.
Collect(c) ==
    /\ phase[c] = "scanned"
    /\ there' = TRUE
    /\ held' = IF \E d \in Collectors : <<"accounts", d>> \in held
               THEN held ELSE held \cup {<<"accounts", c>>}
    /\ Goto(c, "collected")
    /\ UNCHANGED <<seen, listed, owner, out, killed>>

\* A User Data Dir that is not collected is recorded so and no error of the run.
SkipUserDataDir(c) ==
    /\ phase[c] = "scanned"
    /\ there' \in {there, TRUE}
    /\ Goto(c, "collected")
    /\ UNCHANGED <<seen, listed, held, owner, out, killed>>

ListFiles_BeforeRecord(c) ==
    /\ phase[c] = "recorded" /\ there
    /\ listed' = [listed EXCEPT ![c] = {f \in held : f[1] # "collector_record"}]
    /\ Goto(c, "listed")
    /\ UNCHANGED <<seen, staging, out, killed>>

\* bundleFiles digests every file but the owner file.
ListFiles(c) ==
    /\ phase[c] = "recorded" /\ there
    /\ listed' = [listed EXCEPT ![c] = held]
    /\ Goto(c, "listed")
    /\ UNCHANGED <<seen, staging, out, killed>>

\* publishStaging removes the owner file, whoever wrote it,
RemoveOwner(c) ==
    /\ phase[c] = "manifested" /\ owner # Nothing
    /\ owner' = Nothing
    /\ Goto(c, "unmarked")
    /\ UNCHANGED <<seen, listed, there, held, out, killed>>

\* and renames; an <out> that is there is not empty and makes that fail.
Publish(c) ==
    /\ phase[c] = "unmarked" /\ there /\ out = Nothing
    /\ out' = [files |-> held, listed |-> listed[c]]
    /\ there' = FALSE /\ held' = {} /\ owner' = Nothing
    /\ Stop(c)
    /\ UNCHANGED killed

Fail_InPrepare(c) ==
    /\ phase[c] \in Building
    /\ IF phase[c] = "made" THEN Stop(c) ELSE Goto(c, "cleaning") /\ UNCHANGED <<seen, listed>>
    /\ UNCHANGED <<staging, out, killed>>

\* Any error after the Mkdir removes the staging directory, in prepareOutput or
\* in the deferred function of Run.
Fail(c) ==
    /\ phase[c] \in Building
    /\ Goto(c, "cleaning")
    /\ UNCHANGED <<seen, listed, staging, out, killed>>

Kill(c) ==
    /\ phase[c] # "idle"
    /\ Stop(c)
    /\ killed' = TRUE
    /\ UNCHANGED <<staging, out>>

--------------------------------------------------------------------------------
Prepare(c) ==
    \/ CheckOutput(c) \/ MakeStaging(c) \/ FindStaging(c) \/ ReadOwner(c)
    \/ ProbeOwner(c) \/ RemoveFile(c) \/ RemoveStaging(c) \/ RecordOwner(c)

Run(c) ==
    \/ WriteScanRecord(c) \/ Collect(c) \/ SkipUserDataDir(c) \/ WriteCollectorRecord(c)
    \/ ListFiles(c) \/ WriteManifest(c) \/ RemoveOwner(c) \/ Publish(c) \/ Fail(c)

Next == \E c \in Collectors : Prepare(c) \/ Run(c) \/ Kill(c)

Spec == Init /\ [][Next]_vars

--------------------------------------------------------------------------------
\* Every variable has its type, and only a directory that exists holds files.
TypeOK ==
    /\ phase \in [Collectors -> Phases]
    /\ seen \in [Collectors -> Collectors \cup {Nothing}]
    /\ listed \in [Collectors -> SUBSET Files]
    /\ there \in BOOLEAN /\ held \subseteq Files /\ owner \in Collectors \cup {Nothing}
    /\ ~there => held = {} /\ owner = Nothing
    /\ out \in {Nothing} \cup [files : SUBSET Files, listed : SUBSET Files]
    /\ killed \in BOOLEAN

\* The bundle appears whole, with the files of one run and a manifest that lists
\* all of them but itself, and is never replaced; runs that were killed, failed
\* or refused before leave no trace in it.
BundleSpec == INSTANCE AtomicPublish WITH
    Outputs <- {[files  |-> (Always \cup some) \X {c},
                 listed |-> ((Always \ {"bundle_manifest"}) \cup some) \X {c}] :
                   c \in Collectors, some \in {{}, {"accounts"}}}
PublishesBundle == BundleSpec!Spec

\* "A killed run leaves it behind" (collector.go:360), and only a killed one:
\* when no run is on, <out>.partial is there only after a kill.
OnlyKillsLeave == there /\ (\A c \in Collectors : phase[c] = "idle") => killed

\* "the next run removes the staging directory only when that process is no
\* longer alive" (collector.go:360-361): a run that removes what a dead one left
\* removes nothing of a run that is building.
RemovesOnlyDead ==
    [][\A c \in Collectors : phase[c] = "removing" /\ RemoveFile(c) =>
          owner = Nothing \/ phase[owner] \notin Building]_vars
================================================================================
