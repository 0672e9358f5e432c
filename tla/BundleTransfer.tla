----------------------------- MODULE BundleTransfer ----------------------------
(***************************************************************************)
(* Evidence on its way from a User Data Dir that a browser still writes    *)
(* into a Case: the Collector's inventory and copy                         *)
(* (collector/internal/collector/acquisition.go), the bundle it lists      *)
(* (bundle.go), keys stripped from it (strip.go), damage on the way, and   *)
(* the ingest that verifies and copies it                                  *)
(* (core/src/acquisition-bundle.ts).                                       *)
(*                                                                         *)
(* A file's content is the version that was written; size, time and digest *)
(* tell versions apart.  CollectorStaging has the directory the bundle is  *)
(* built in, IngestStaging the one the Case is built in.                   *)
(***************************************************************************)
EXTENDS Naturals

CONSTANTS
    Names,
    Below,          \* those in the directory of a Profile that may be unreadable
    Chosen,         \* those the Selection Policy copies, and expects
    MaxWrites,      \* bound on what the browser does
    MaxDamage,      \* bound on the damage to the bundle
    NoFile,
    Altered         \* a content that nobody collected

ASSUME BundleAssumption ==
    /\ Below \subseteq Names /\ Chosen \subseteq Names
    /\ NoFile \notin Names /\ MaxWrites \in Nat

VARIABLES
    source,     \* [file, readable, changes]: file[p] is a version or NoFile
    plan,       \* [pc, names, folder, entry, hand]: hand is the file under way
    bundle,     \* [copy, listed, manifest, damage, keys]: copy[p] is the file in
                \* its working_copy, listed[p] what its bundle_manifest.json has
    ingest      \* [pc, stat, todo, entry, copy, diverged]: the Case made of it

transferVars == <<source, plan, bundle, ingest>>

Unseen == [state |-> "none", mtime |-> NoFile, digest |-> NoFile, copied |-> FALSE]
Lost(e) == [e EXCEPT !.state = "unavailable", !.digest = NoFile, !.copied = FALSE]
Nothing == [p \in Names |-> NoFile]

TransferInit ==
    /\ \E present \in SUBSET Names, readable \in BOOLEAN :
          source = [file |-> [p \in Names |-> IF p \in present THEN 1 ELSE NoFile],
                    readable |-> readable, changes |-> 0]
    /\ plan = [pc |-> "start", names |-> {}, folder |-> "none",
               entry |-> [p \in Names |-> Unseen], hand |-> NoFile]
    /\ bundle = [copy |-> Nothing, listed |-> Nothing, manifest |-> "none", damage |-> 0,
                 keys |-> TRUE]
    /\ ingest = [pc |-> "none", stat |-> Nothing, todo |-> {}, diverged |-> FALSE,
                 entry |-> [p \in Names |-> Unseen], copy |-> Nothing]

\* The browser replaces, removes or makes a file.
BrowserWrites ==
    /\ source.changes < MaxWrites /\ plan.pc \in {"start", "walk", "copy"}
    /\ \E p \in Names : \E v \in {NoFile, source.changes + 2} :
          source' = [source EXCEPT !.file[p] = v, !.changes = @ + 1]
    /\ UNCHANGED <<plan, bundle, ingest>>

--------------------------------------------------------------------------------
Present(ps) == {p \in ps : source.file[p] # NoFile}
Record(p, e) == [plan EXCEPT !.entry[p] = e, !.hand = NoFile]

\* WalkDir reads the names of the root,
ListRoot ==
    /\ plan.pc = "start"
    /\ plan' = [plan EXCEPT !.pc = "walk", !.names = Present(Names \ Below)]

\* and of the directory, or calls again with the error.  If its Lstat fails
\* instead, its entry is one of a file that could not be read.
ListFolder ==
    /\ plan.pc = "walk" /\ plan.folder = "none" /\ plan.hand = NoFile
    /\ \/ /\ source.readable
          /\ plan' = [plan EXCEPT !.folder = "value", !.names = @ \cup Present(Below)]
       \/ /\ ~source.readable
          /\ \E found \in {"unavailable", "file"} : plan' = [plan EXCEPT !.folder = found]

\* Each name: Lstat, which may fail,
Inventory(p) ==
    /\ plan.pc = "walk" /\ plan.hand = NoFile
    /\ p \in plan.names /\ plan.entry[p] = Unseen
    /\ \/ plan' = Record(p, Lost(Unseen))
       \/ /\ source.file[p] # NoFile
          /\ plan' = [plan EXCEPT !.entry[p].mtime = source.file[p], !.hand = p]

\* then the digest, of what is there by then, or a read that fails.
Digest(p) ==
    /\ plan.pc = "walk" /\ plan.hand = p
    /\ \/ plan' = Record(p, Lost(plan.entry[p]))
       \/ /\ source.file[p] # NoFile
          /\ plan' = Record(p, [plan.entry[p] EXCEPT !.state = "value",
                                  !.digest = source.file[p], !.copied = p \in Chosen])

\* hasUnavailableParent: what cannot be seen is not absent.
AbsentUnder(p) == IF p \in Below /\ plan.folder = "unavailable" THEN "unavailable" ELSE "absent"

\* addExpectedAbsent, after the walk.
AddExpectedAbsent ==
    /\ plan.pc = "walk" /\ plan.hand = NoFile /\ plan.folder # "none"
    /\ \A p \in plan.names : plan.entry[p] # Unseen
    /\ plan' = [plan EXCEPT !.pc = "copy",
           !.entry = [p \in Names |-> IF p \in Chosen /\ plan.entry[p] = Unseen
                                      THEN [Unseen EXCEPT !.state = AbsentUnder(p)]
                                      ELSE plan.entry[p]]]

\* The entries that materialize has to copy.
Copying == {p \in Names : plan.entry[p].copied /\ bundle.copy[p] = NoFile}

\* copyPlannedFile: Lstat against the inventory, then open.
OpenPlanned(p) ==
    /\ plan.pc = "copy" /\ plan.hand = NoFile /\ p \in Copying
    /\ plan' = IF source.file[p] # plan.entry[p].mtime THEN Record(p, Lost(plan.entry[p]))
               ELSE [plan EXCEPT !.hand = p]
    /\ UNCHANGED bundle

SameAsPlanned_Unchecked(p, read) == TRUE

SameAsPlanned(p, read) == read = plan.entry[p].digest /\ read = plan.entry[p].mtime

\* What is read is the file that was opened or one written over it; a digest,
\* size or time that differs, or a failing read, makes the entry unavailable.
CopyPlanned(p) ==
    /\ plan.pc = "copy" /\ plan.hand = p
    /\ \/ /\ plan' = Record(p, Lost(plan.entry[p])) /\ UNCHANGED bundle
       \/ \E read \in {plan.entry[p].mtime, source.file[p]} \ {NoFile} :
             /\ SameAsPlanned(p, read)
             /\ plan' = [plan EXCEPT !.hand = NoFile]
             /\ bundle' = [bundle EXCEPT !.copy[p] = read]

\* The source's manifest and header, then bundleFiles and the bundle's own.
ListBundle ==
    /\ plan.pc = "copy" /\ plan.hand = NoFile /\ Copying = {}
    /\ plan' = [plan EXCEPT !.pc = "sent"]
    /\ bundle' = [bundle EXCEPT !.listed = bundle.copy, !.manifest = "as_listed"]

CollectorStep ==
    \/ /\ \/ ListRoot
          \/ ListFolder
          \/ AddExpectedAbsent
          \/ \E p \in Names : Inventory(p) \/ Digest(p)
       /\ UNCHANGED bundle
    \/ \E p \in Names : OpenPlanned(p) \/ CopyPlanned(p)
    \/ ListBundle

--------------------------------------------------------------------------------
Intact == bundle.copy = bundle.listed /\ bundle.manifest = "as_listed"

\* verifyBundleManifest refuses to strip a divergent bundle.
StripRefuses == ~Intact

\* StripKeys, which writes a bundle of its own, listed anew.
StripKeys ==
    /\ plan.pc = "sent" /\ ingest.pc = "none"
    /\ bundle.keys /\ ~StripRefuses
    /\ bundle' = [bundle EXCEPT !.keys = FALSE, !.listed = bundle.copy,
                                !.manifest = "as_listed"]
    /\ UNCHANGED <<source, plan, ingest>>

\* A file of the bundle is altered, lost or added, before or during the ingest.
DamageBundle ==
    /\ plan.pc = "sent" /\ bundle.damage < MaxDamage
    /\ \/ \E p \in Names : \E c \in {NoFile, Altered} :
             /\ bundle.copy[p] # c
             /\ bundle' = [bundle EXCEPT !.copy[p] = c, !.damage = @ + 1]
       \/ bundle' = [bundle EXCEPT !.manifest = "altered", !.damage = @ + 1]
    /\ UNCHANGED <<source, plan, ingest>>

--------------------------------------------------------------------------------
\* enumerateTree: every node with its stats.
EnumerateTree ==
    /\ plan.pc = "sent" /\ ingest.pc = "none"
    /\ ingest' = [ingest EXCEPT !.pc = "digest", !.stat = bundle.copy, !.todo = Names]

\* readStableRegularFile refuses a file whose stats are not those of the tree.
SameStats(p) == bundle.copy[p] = ingest.stat[p]

\* One file is compared with the bundle_manifest.json.
DigestNode(p) ==
    /\ ingest.pc = "digest" /\ p \in ingest.todo
    /\ ingest' = [ingest EXCEPT !.todo = @ \ {p},
           !.diverged = @ \/ ~SameStats(p) \/ ingest.stat[p] # bundle.listed[p]]

\* The source's manifest is read and checked against its header; without one
\* the ingest fails, as the bundle has no other Source.
ReadManifest ==
    /\ ingest.pc = "digest" /\ ingest.todo = {}
    /\ ingest' = IF bundle.manifest = "altered" THEN [ingest EXCEPT !.pc = "failed"]
                 ELSE [ingest EXCEPT !.pc = "observe", !.todo = Names]

Observed(p) ==
    IF ingest.stat[p] = NoFile
    THEN IF plan.entry[p].copied THEN [Unseen EXCEPT !.state = "absent"] ELSE plan.entry[p]
    ELSE IF SameStats(p)
         THEN [state |-> "value", mtime |-> ingest.stat[p], digest |-> ingest.stat[p],
               copied |-> FALSE]
         ELSE [Unseen EXCEPT !.state = "unavailable", !.mtime = ingest.stat[p]]

Matches(p) ==
    plan.entry[p].copied /\ Observed(p).state = "value" /\ Observed(p).digest = plan.entry[p].digest

\* materializeAcquisitionBundleSource, one entry: kept as it is, or observed.
ObserveNode(p) ==
    /\ ingest.pc = "observe" /\ p \in ingest.todo
    /\ ingest' = IF Matches(p)
                 THEN [ingest EXCEPT !.pc = "copy", !.entry[p] = plan.entry[p]]
                 ELSE [ingest EXCEPT !.todo = @ \ {p}, !.entry[p] = Observed(p),
                          !.diverged = @ \/ plan.entry[p].copied \/ ingest.stat[p] # NoFile]

\* copyVerifiedFile reads it again; a difference fails the ingest.
CopyVerified(p) ==
    /\ ingest.pc = "copy" /\ p \in ingest.todo /\ ingest.entry[p] # Unseen
    /\ ingest' = IF SameStats(p) /\ bundle.copy[p] = ingest.entry[p].digest
                 THEN [ingest EXCEPT !.pc = "observe", !.todo = @ \ {p},
                                     !.copy[p] = bundle.copy[p]]
                 ELSE [ingest EXCEPT !.pc = "failed"]

\* acquisitionBundleStatus.
EndIngest ==
    /\ ingest.pc = "observe" /\ ingest.todo = {}
    /\ ingest' = [ingest EXCEPT !.pc = IF ingest.diverged THEN "verified_with_divergence"
                                                          ELSE "verified"]

IngestStep ==
    /\ \/ EnumerateTree
       \/ ReadManifest
       \/ EndIngest
       \/ \E p \in Names : DigestNode(p) \/ ObserveNode(p) \/ CopyVerified(p)
    /\ UNCHANGED <<source, plan, bundle>>

InCase == ingest.pc \in {"verified", "verified_with_divergence"}
Ingested == InCase \/ ingest.pc = "failed"

TransferNext ==
    \/ BrowserWrites
    \/ CollectorStep /\ UNCHANGED <<source, ingest>>
    \/ StripKeys
    \/ DamageBundle
    \/ IngestStep
    \/ Ingested /\ UNCHANGED transferVars

TransferSpec == TransferInit /\ [][TransferNext]_transferVars

--------------------------------------------------------------------------------
\* A copy in the Case is one version of the file, with the entry it had when
\* it was collected; an entry that is not copied has none.
CopiesAreCollected ==
    \A p \in Names :
        /\ ingest.entry[p].copied <=> ingest.copy[p] # NoFile
        /\ ingest.entry[p].copied =>
              /\ ingest.entry[p] = plan.entry[p]
              /\ ingest.copy[p] = plan.entry[p].digest /\ ingest.copy[p] = plan.entry[p].mtime

\* A "verified" Case has all that was collected, as it was.
VerifiedIsComplete ==
    ingest.pc = "verified" => ingest.entry = plan.entry

\* No entry says "absent" of a path whose directory was there and could not be
\* read.  (Of one whose Lstat failed it does, as in Acquisition.AbsentIsKnown.)
AbsentWasSeen ==
    ingest.pc = "verified" /\ plan.folder = "unavailable" =>
        \A p \in Below : ingest.entry[p].state # "absent"

\* What the Collector wrote and nothing happened to is ingested without a
\* divergence.
UndamagedIsVerified ==
    Ingested /\ bundle.damage = 0 => ingest.pc = "verified"

\* A Case made of a bundle says of every file what the Collector saw of it,
\* whatever the browser wrote during the collection, whatever happened to the
\* bundle before and during the ingest, and keys stripped or not.
BundleBecomesCase ==
    /\ InCase => CopiesAreCollected /\ VerifiedIsComplete /\ AbsentWasSeen
    /\ UndamagedIsVerified

\* The type invariant of the transfer.
TransferType ==
    /\ source.file \in [Names -> 1..(MaxWrites + 1) \cup {NoFile}]
    /\ plan.names \subseteq Names /\ plan.hand \in Names \cup {NoFile}
    /\ plan.pc \in {"start", "walk", "copy", "sent"}
    /\ \A p \in Names : plan.entry[p].state \in {"none", "value", "absent", "unavailable"}
    /\ bundle.manifest \in {"none", "as_listed", "altered"}
    /\ ingest.todo \subseteq Names /\ ingest.diverged \in BOOLEAN
================================================================================
