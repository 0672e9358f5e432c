--------------------------- MODULE SourceToCase_proofs ---------------------------
(***************************************************************************)
(* Proofs about the two ways into a Case.  First that each behaviour of    *)
(* the whole is one of each way, then, of the bundle's, that whatever a    *)
(* browser writes during the collection and whatever happens to the bundle *)
(* later, a Case that is made of it says of each file what the Collector   *)
(* saw of it.                                                              *)
(***************************************************************************)
EXTENDS SourceToCase, Acquisition_proofs, TLAPS

\* The bundle's way does what BundleTransfer does, and the live one what
\* Acquisition does.
LEMMA WaysAreParts == SpecWays => Spec /\ TransferSpec
<1>1. InitWays => Init /\ TransferInit
  BY DEF InitWays
<1>2. [LiveMoves \/ BundleMoves]_ways => [Next]_vars /\ [TransferNext]_transferVars
  BY DEF LiveMoves, BundleMoves, ways
<1> QED
  BY <1>1, <1>2, PTL DEF SpecWays, Spec, TransferSpec

--------------------------------------------------------------------------------
(* The inductive invariant of the transfer.                                *)

FileVersions == 1..(MaxWrites + 1) \cup {NoFile}
FileContents == FileVersions \cup {Altered}
EntryStates == {"none", "value", "absent", "unavailable"}
FileEntries ==
    [state : EntryStates, mtime : FileContents, digest : FileContents, copied : BOOLEAN]

SourceType ==
    source \in [file : [Names -> FileVersions], readable : BOOLEAN, changes : 0..MaxWrites]
PlanType ==
    plan \in [pc : {"start", "walk", "copy", "sent"}, names : SUBSET Names,
              folder : {"none", "value", "unavailable", "file"},
              entry : [Names -> FileEntries], hand : Names \cup {NoFile}]
BundleType ==
    bundle \in [copy : [Names -> FileContents], listed : [Names -> FileContents],
                manifest : {"none", "as_listed", "altered"}, damage : Nat, keys : BOOLEAN]
IngestType ==
    ingest \in [pc : {"none", "digest", "observe", "copy", "failed", "verified",
                      "verified_with_divergence"},
                stat : [Names -> FileContents], todo : SUBSET Names, diverged : BOOLEAN,
                entry : [Names -> FileEntries], copy : [Names -> FileContents]]

TypesInv == SourceType /\ PlanType /\ BundleType /\ IngestType

\* The file p of the bundle under construction is the one that its entry tells of.
CopiedAsPlanned(p) ==
    /\ plan.entry[p].copied
    /\ bundle.copy[p] = plan.entry[p].digest /\ bundle.copy[p] = plan.entry[p].mtime

\* What the Collector has copied so far; nobody ingests it or harms it yet.
UnsentInv ==
    plan.pc # "sent" =>
        /\ bundle.damage = 0 /\ ingest.pc = "none"
        /\ plan.pc # "copy" => bundle.copy = Nothing
        /\ \A p \in Names : bundle.copy[p] # NoFile => CopiedAsPlanned(p)
        /\ plan.pc = "copy" /\ plan.hand # NoFile => plan.hand \in Copying

\* "absent" is only said after the walk.
AbsentInv ==
    \A p \in Names : plan.entry[p].state = "absent" =>
        /\ plan.pc \in {"copy", "sent"}
        /\ ~(p \in Below /\ plan.folder = "unavailable")

\* The Working Copy that a list of entries calls for.
Collected == [p \in Names |-> IF plan.entry[p].copied THEN plan.entry[p].digest ELSE NoFile]

\* A bundle that was sent has what its entries tell of, until it is harmed.
SentInv ==
    plan.pc = "sent" =>
        /\ \A p \in Names : plan.entry[p].copied =>
              plan.entry[p].digest # NoFile /\ plan.entry[p].mtime = plan.entry[p].digest
        /\ bundle.damage = 0 =>
              bundle.copy = Collected /\ bundle.listed = Collected /\ bundle.manifest = "as_listed"

\* Of a node that was dealt with, the Case has the Collector's entry and its
\* file, or else the divergence is known.
Settled(p) ==
    /\ ingest.entry[p].copied <=> ingest.copy[p] # NoFile
    /\ ingest.entry[p].copied =>
          /\ ingest.entry[p] = plan.entry[p]
          /\ ingest.copy[p] = plan.entry[p].digest /\ ingest.copy[p] = plan.entry[p].mtime
    /\ ~ingest.diverged => ingest.entry[p] = plan.entry[p]

\* Of the others it has nothing, but for the one that is copied next.
Pending(p) ==
    /\ ingest.copy[p] = NoFile
    /\ \/ ingest.entry[p] = Unseen
       \/ ingest.pc = "copy" /\ ingest.entry[p] = plan.entry[p] /\ plan.entry[p].copied

IngestInv ==
    /\ ingest.pc # "none" => plan.pc = "sent"
    /\ ingest.pc = "none" => ~ingest.diverged
    /\ ingest.pc \in {"none", "digest"} =>
          \A p \in Names : ingest.entry[p] = Unseen /\ ingest.copy[p] = NoFile
    /\ ingest.pc \in {"observe", "copy"} =>
          \A p \in Names : IF p \in ingest.todo THEN Pending(p) ELSE Settled(p)
    /\ \A p, q \in ingest.todo : ingest.entry[p] # Unseen /\ ingest.entry[q] # Unseen => p = q
    /\ InCase => \A p \in Names : Settled(p)
    /\ ingest.pc = "verified" => ~ingest.diverged

\* A bundle that nobody harmed diverges nowhere.
UndamagedInv ==
    bundle.damage = 0 =>
        /\ ~ingest.diverged /\ ingest.pc \notin {"failed", "verified_with_divergence"}
        /\ ingest.pc # "none" => ingest.stat = bundle.copy

TransferInv ==
    TypesInv /\ UnsentInv /\ AbsentInv /\ SentInv /\ IngestInv /\ UndamagedInv

LEMMA TransferInitInv == ASSUME TransferInit PROVE TransferInv
<1>1. PICK present \in SUBSET Names, readable \in BOOLEAN :
         source = [file |-> [p \in Names |-> IF p \in present THEN 1 ELSE NoFile],
                   readable |-> readable, changes |-> 0]
  BY DEF TransferInit
<1>2. SourceType
  BY <1>1, BundleAssumption DEF SourceType, FileVersions
<1>3. Unseen \in FileEntries
  BY DEF Unseen, FileEntries, EntryStates, FileContents, FileVersions
<1>4. PlanType /\ BundleType /\ IngestType
  BY <1>3 DEF TransferInit, PlanType, BundleType, IngestType, Nothing, FileContents, FileVersions
<1>5. UnsentInv /\ SentInv /\ UndamagedInv
  BY DEF TransferInit, UnsentInv, SentInv, UndamagedInv, Nothing
<1>6. AbsentInv
  BY DEF TransferInit, AbsentInv, Unseen
<1>7. IngestInv
  BY DEF TransferInit, IngestInv, InCase, Nothing
<1> QED
  BY <1>2, <1>4, <1>5, <1>6, <1>7 DEF TransferInv, TypesInv

LEMMA BrowserWritesInv == ASSUME TransferInv, BrowserWrites PROVE TransferInv'
<1>1. PICK p \in Names, v \in {NoFile, source.changes + 2} :
         source' = [source EXCEPT !.file[p] = v, !.changes = @ + 1]
  BY DEF BrowserWrites
<1>2. SourceType'
  <2>1. SourceType /\ source.changes \in 0..MaxWrites /\ source.changes < MaxWrites
    BY DEF TransferInv, TypesInv, SourceType, BrowserWrites
  <2>2. v \in FileVersions
    BY <2>1, BundleAssumption DEF FileVersions
  <2>3. source.changes + 1 \in 0..MaxWrites
    BY <2>1, BundleAssumption
  <2> QED
    BY <1>1, <2>1, <2>2, <2>3 DEF SourceType
<1>3. UNCHANGED <<plan, bundle, ingest>>
  BY DEF BrowserWrites
<1> QED
  BY <1>2, <1>3 DEF TransferInv, TypesInv, PlanType, BundleType, IngestType, UnsentInv,
        AbsentInv, SentInv, IngestInv, UndamagedInv, CopiedAsPlanned, Copying, Collected,
        Settled, Pending, InCase

--------------------------------------------------------------------------------
(* The walk of the Collector.                                              *)

LEMMA LostIsEntry ==
    ASSUME NEW e \in FileEntries
    PROVE  /\ Lost(e) \in FileEntries
           /\ Lost(e).state = "unavailable" /\ ~Lost(e).copied
  BY DEF Lost, FileEntries, EntryStates, FileContents, FileVersions

LEMMA UnseenIsEntry == Unseen \in FileEntries /\ Unseen.state = "none" /\ ~Unseen.copied
  BY DEF Unseen, FileEntries, EntryStates, FileContents, FileVersions

LEMMA ValueIsEntry ==
    ASSUME NEW e \in FileEntries, NEW c \in FileContents, NEW b \in BOOLEAN
    PROVE  /\ [e EXCEPT !.state = "value", !.digest = c, !.copied = b] \in FileEntries
           /\ [e EXCEPT !.state = "value", !.digest = c, !.copied = b].state = "value"
  BY DEF FileEntries, EntryStates

\* A step of the walk, which touches nothing but the plan.
LEMMA WalkInv ==
    ASSUME TransferInv, plan.pc \in {"start", "walk"}, UNCHANGED <<source, bundle, ingest>>,
           PlanType', plan'.pc \in {"walk", "copy"}, plan'.pc = "copy" => plan'.hand = NoFile,
           \A p \in Names : plan'.entry[p].state = "absent" =>
               plan'.pc = "copy" /\ ~(p \in Below /\ plan'.folder = "unavailable")
    PROVE  TransferInv'
<1>1. /\ bundle.damage = 0 /\ ingest.pc = "none" /\ bundle.copy = Nothing
      /\ \A p \in Names : bundle.copy[p] = NoFile
  BY DEF TransferInv, UnsentInv, Nothing
<1>2. TypesInv'
  BY DEF TransferInv, TypesInv, SourceType, BundleType, IngestType
<1>3. UnsentInv' /\ SentInv'
  BY <1>1 DEF UnsentInv, SentInv
<1>4. AbsentInv'
  BY DEF AbsentInv
<1>5. IngestInv'
  BY <1>1 DEF TransferInv, IngestInv, InCase
<1>6. UndamagedInv'
  BY <1>1 DEF TransferInv, UndamagedInv
<1> QED
  BY <1>2, <1>3, <1>4, <1>5, <1>6 DEF TransferInv

\* What the walk has recorded is a record of its type, and never "absent".
LEMMA RecordType ==
    ASSUME PlanType, NEW p \in Names, NEW e \in FileEntries
    PROVE  /\ Record(p, e) \in [pc : {"start", "walk", "copy", "sent"}, names : SUBSET Names,
                  folder : {"none", "value", "unavailable", "file"},
                  entry : [Names -> FileEntries], hand : Names \cup {NoFile}]
           /\ Record(p, e).pc = plan.pc /\ Record(p, e).folder = plan.folder
           /\ Record(p, e).hand = NoFile
           /\ Record(p, e).entry = [plan.entry EXCEPT ![p] = e]
  BY DEF Record, PlanType

LEMMA ListInv ==
    ASSUME TransferInv, ListRoot \/ ListFolder, UNCHANGED <<source, bundle, ingest>>
    PROVE  TransferInv'
<1>1. Present(Names \ Below) \subseteq Names /\ Present(Below) \subseteq Names
  BY BundleAssumption DEF Present
<1>2. /\ plan.pc \in {"start", "walk"} /\ plan'.pc = "walk" /\ PlanType'
      /\ plan'.entry = plan.entry
  <2> PlanType
    BY DEF TransferInv, TypesInv
  <2>1. CASE ListRoot
    BY <2>1, <1>1 DEF ListRoot, PlanType
  <2>2. CASE ListFolder
    BY <2>2, <1>1 DEF ListFolder, PlanType
  <2> QED
    BY <2>1, <2>2
<1>3. \A p \in Names : plan.entry[p].state # "absent"
  BY <1>2 DEF TransferInv, AbsentInv
<1> QED
  BY <1>2, <1>3, WalkInv

LEMMA InventoryInv ==
    ASSUME TransferInv, NEW p \in Names, Inventory(p) \/ Digest(p),
           UNCHANGED <<source, bundle, ingest>>
    PROVE  TransferInv'
<1> PlanType /\ SourceType
  BY DEF TransferInv, TypesInv
<1>1. plan.pc = "walk" /\ \A q \in Names : plan.entry[q].state # "absent"
  BY DEF TransferInv, AbsentInv, Inventory, Digest
<1>2. plan.entry[p] \in FileEntries /\ source.file[p] \in FileContents
  BY DEF PlanType, SourceType, FileContents
<1>3. PlanType' /\ plan'.pc = "walk" /\ \A q \in Names : plan'.entry[q].state # "absent"
  <2>1. ASSUME NEW e \in FileEntries, e.state # "absent", plan' = Record(p, e) PROVE <1>3
    <3>1. plan'.entry = [plan.entry EXCEPT ![p] = e]
      BY <2>1, RecordType
    <3>2. \A q \in Names : plan'.entry[q] = IF q = p THEN e ELSE plan.entry[q]
      BY <3>1 DEF PlanType
    <3>3. PlanType' /\ plan'.pc = "walk"
      BY <2>1, <1>1, RecordType DEF PlanType
    <3> QED
      BY <3>2, <3>3, <2>1, <1>1
  <2>2. CASE plan' = Record(p, Lost(Unseen))
    BY <2>2, <2>1, LostIsEntry, UnseenIsEntry
  <2>3. CASE plan' = Record(p, Lost(plan.entry[p]))
    BY <2>3, <2>1, <1>2, LostIsEntry
  <2>4. CASE plan' = [plan EXCEPT !.entry[p].mtime = source.file[p], !.hand = p]
    <3>1. [plan.entry[p] EXCEPT !.mtime = source.file[p]] \in FileEntries
      BY <1>2 DEF FileEntries
    <3>2. plan'.entry = [plan.entry EXCEPT ![p] = [plan.entry[p] EXCEPT !.mtime = source.file[p]]]
      BY <2>4 DEF PlanType
    <3>3. \A q \in Names : plan'.entry[q].state = plan.entry[q].state
      BY <3>2, <1>2 DEF PlanType, FileEntries
    <3>4. PlanType' /\ plan'.pc = "walk"
      BY <2>4, <3>1, <3>2, <1>1 DEF PlanType
    <3> QED
      BY <3>3, <3>4, <1>1
  <2>5. CASE plan' = Record(p, [plan.entry[p] EXCEPT !.state = "value",
                                  !.digest = source.file[p], !.copied = p \in Chosen])
    <3> DEFINE b == p \in Chosen
               e == [plan.entry[p] EXCEPT !.state = "value", !.digest = source.file[p],
                        !.copied = b]
    <3>1. b \in BOOLEAN /\ plan' = Record(p, e)
      BY <2>5
    <3>2. e \in FileEntries /\ e.state = "value"
      <4> HIDE DEF b
      <4> QED
        BY <3>1, <1>2, ValueIsEntry
    <3> HIDE DEF e
    <3> QED
      BY <3>1, <3>2, <2>1
  <2> QED
    BY <2>2, <2>3, <2>4, <2>5 DEF Inventory, Digest
<1> QED
  BY <1>1, <1>3, WalkInv

LEMMA AddExpectedAbsentInv ==
    ASSUME TransferInv, AddExpectedAbsent, UNCHANGED <<source, bundle, ingest>>
    PROVE  TransferInv'
<1> PlanType
  BY DEF TransferInv, TypesInv
<1> DEFINE e(p) == IF p \in Chosen /\ plan.entry[p] = Unseen
                   THEN [Unseen EXCEPT !.state = AbsentUnder(p)] ELSE plan.entry[p]
<1>1. plan.pc = "walk" /\ \A q \in Names : plan.entry[q].state # "absent"
  BY DEF TransferInv, AbsentInv, AddExpectedAbsent
<1>2. plan' = [plan EXCEPT !.pc = "copy", !.entry = [p \in Names |-> e(p)]]
  BY DEF AddExpectedAbsent
<1>3. ASSUME NEW p \in Names
      PROVE  /\ e(p) \in FileEntries
             /\ e(p).state = "absent" => ~(p \in Below /\ plan.folder = "unavailable")
  <2>1. CASE p \in Chosen /\ plan.entry[p] = Unseen
    BY <2>1, UnseenIsEntry DEF AbsentUnder, FileEntries, EntryStates, Unseen
  <2>2. CASE ~(p \in Chosen /\ plan.entry[p] = Unseen)
    BY <2>2, <1>1 DEF PlanType
  <2> QED
    BY <2>1, <2>2
<1> HIDE DEF e
<1>4. /\ PlanType' /\ plan'.pc = "copy" /\ plan'.folder = plan.folder
      /\ \A p \in Names : plan'.entry[p] = e(p)
  BY <1>2, <1>3 DEF PlanType
<1>5. plan'.hand = NoFile
  BY <1>2 DEF AddExpectedAbsent, PlanType
<1> QED
  BY <1>1, <1>3, <1>4, <1>5, WalkInv

--------------------------------------------------------------------------------
(* The copy, the bundle, and what becomes of it.                           *)

\* A file whose copy does not come about loses its entry.
LEMMA LoseInv ==
    ASSUME TransferInv, NEW p \in Names, plan.pc = "copy", bundle.copy[p] = NoFile,
           plan' = Record(p, Lost(plan.entry[p])), UNCHANGED <<source, bundle, ingest>>
    PROVE  TransferInv'
<1> PlanType
  BY DEF TransferInv, TypesInv
<1>1. Lost(plan.entry[p]) \in FileEntries /\ Lost(plan.entry[p]).state = "unavailable"
  BY LostIsEntry DEF PlanType
<1>2. /\ PlanType' /\ plan'.pc = "copy" /\ plan'.folder = plan.folder /\ plan'.hand = NoFile
      /\ \A q \in Names : plan'.entry[q] = IF q = p THEN Lost(plan.entry[p]) ELSE plan.entry[q]
  <2> DEFINE e == Lost(plan.entry[p])
  <2>1. e \in FileEntries /\ plan' = Record(p, e)
    BY <1>1
  <2> HIDE DEF e
  <2>2. /\ PlanType' /\ plan'.pc = plan.pc /\ plan'.folder = plan.folder /\ plan'.hand = NoFile
        /\ plan'.entry = [plan.entry EXCEPT ![p] = e]
    BY <2>1, RecordType DEF PlanType
  <2>3. \A q \in Names : plan'.entry[q] = IF q = p THEN e ELSE plan.entry[q]
    BY <2>2 DEF PlanType
  <2> QED
    BY <2>2, <2>3 DEF e
<1>3. bundle.damage = 0 /\ ingest.pc = "none"
  BY DEF TransferInv, UnsentInv
<1>4. TypesInv'
  BY <1>2 DEF TransferInv, TypesInv, SourceType, BundleType, IngestType
<1>5. UnsentInv'
  <2>1. \A q \in Names : bundle'.copy[q] # NoFile => CopiedAsPlanned(q)'
    BY <1>2 DEF TransferInv, UnsentInv, CopiedAsPlanned
  <2> QED
    BY <2>1, <1>2, <1>3 DEF UnsentInv
<1>6. AbsentInv'
  BY <1>1, <1>2 DEF TransferInv, AbsentInv
<1>7. SentInv' /\ IngestInv' /\ UndamagedInv'
  BY <1>2, <1>3 DEF TransferInv, SentInv, IngestInv, UndamagedInv, InCase
<1> QED
  BY <1>4, <1>5, <1>6, <1>7 DEF TransferInv

LEMMA OpenPlannedInv ==
    ASSUME TransferInv, NEW p \in Names, OpenPlanned(p), UNCHANGED <<source, ingest>>
    PROVE  TransferInv'
<1>1. plan.pc = "copy" /\ p \in Copying /\ bundle.copy[p] = NoFile /\ UNCHANGED bundle
  BY DEF OpenPlanned, Copying
<1>2. CASE source.file[p] # plan.entry[p].mtime
  BY <1>1, <1>2, LoseInv DEF OpenPlanned
<1>3. CASE source.file[p] = plan.entry[p].mtime
  <2>1. plan' = [plan EXCEPT !.hand = p]
    BY <1>3 DEF OpenPlanned
  <2>2. /\ PlanType' /\ plan'.pc = plan.pc /\ plan'.hand = p /\ plan'.entry = plan.entry
        /\ plan'.folder = plan.folder
    BY <2>1 DEF TransferInv, TypesInv, PlanType
  <2>3. UnsentInv'
    BY <1>1, <2>2 DEF TransferInv, UnsentInv, Copying, CopiedAsPlanned
  <2> QED
    BY <1>1, <2>2, <2>3 DEF TransferInv, TypesInv, SourceType, BundleType, IngestType,
          AbsentInv, SentInv, IngestInv, UndamagedInv, Settled, Pending, InCase, UnsentInv
<1> QED
  BY <1>2, <1>3

LEMMA CopyPlannedInv ==
    ASSUME TransferInv, NEW p \in Names, CopyPlanned(p), UNCHANGED <<source, ingest>>
    PROVE  TransferInv'
<1>1. plan.pc = "copy" /\ plan.hand = p /\ p # NoFile /\ p \in Copying
  BY BundleAssumption DEF CopyPlanned, TransferInv, UnsentInv
<1>2. CASE plan' = Record(p, Lost(plan.entry[p])) /\ UNCHANGED bundle
  BY <1>1, <1>2, LoseInv DEF Copying
<1>3. ASSUME NEW read \in {plan.entry[p].mtime, source.file[p]} \ {NoFile},
             SameAsPlanned(p, read), plan' = [plan EXCEPT !.hand = NoFile],
             bundle' = [bundle EXCEPT !.copy[p] = read]
      PROVE  TransferInv'
  <2>1. /\ PlanType' /\ plan'.pc = "copy" /\ plan'.hand = NoFile /\ plan'.entry = plan.entry
        /\ plan'.folder = plan.folder
    BY <1>1, <1>3 DEF TransferInv, TypesInv, PlanType
  <2>2. read \in FileContents /\ plan.entry[p].copied
    BY <1>1 DEF TransferInv, TypesInv, PlanType, SourceType, FileEntries, FileContents, Copying
  <2>3. /\ BundleType' /\ bundle'.damage = bundle.damage
        /\ \A q \in Names : bundle'.copy[q] = IF q = p THEN read ELSE bundle.copy[q]
    BY <1>3, <2>2 DEF TransferInv, TypesInv, BundleType
  <2>4. bundle.damage = 0 /\ ingest.pc = "none"
    BY <1>1 DEF TransferInv, UnsentInv
  <2>5. UnsentInv'
    <3>1. CopiedAsPlanned(p)'
      BY <1>3, <2>1, <2>2, <2>3 DEF CopiedAsPlanned, SameAsPlanned
    <3>2. \A q \in Names \ {p} : bundle'.copy[q] # NoFile => CopiedAsPlanned(q)'
      BY <1>1, <2>1, <2>3 DEF TransferInv, UnsentInv, CopiedAsPlanned
    <3> QED
      BY <2>1, <2>3, <2>4, <3>1, <3>2 DEF UnsentInv
  <2>6. TypesInv' /\ AbsentInv'
    BY <1>1, <2>1, <2>3 DEF TransferInv, TypesInv, SourceType, IngestType, AbsentInv
  <2>7. SentInv' /\ IngestInv' /\ UndamagedInv'
    BY <2>1, <2>3, <2>4 DEF TransferInv, SentInv, IngestInv, UndamagedInv, InCase
  <2> QED
    BY <2>5, <2>6, <2>7 DEF TransferInv
<1> QED
  BY <1>2, <1>3 DEF CopyPlanned

\* The bundle is sent when each entry that is copied has its file.
LEMMA ListBundleInv ==
    ASSUME TransferInv, ListBundle, UNCHANGED <<source, ingest>>
    PROVE  TransferInv'
<1>1. /\ PlanType' /\ plan'.pc = "sent" /\ plan'.entry = plan.entry /\ plan'.folder = plan.folder
      /\ plan.pc = "copy" /\ Copying = {}
  BY DEF ListBundle, TransferInv, TypesInv, PlanType
<1>2. /\ BundleType' /\ bundle'.copy = bundle.copy /\ bundle'.listed = bundle.copy
      /\ bundle'.manifest = "as_listed" /\ bundle'.damage = bundle.damage
  BY DEF ListBundle, TransferInv, TypesInv, BundleType
<1>3. bundle.damage = 0 /\ ingest.pc = "none"
  BY <1>1 DEF TransferInv, UnsentInv
<1>4. \A p \in Names : IF plan.entry[p].copied
                       THEN bundle.copy[p] # NoFile /\ CopiedAsPlanned(p)
                       ELSE bundle.copy[p] = NoFile
  BY <1>1 DEF TransferInv, UnsentInv, Copying, CopiedAsPlanned
<1>5. bundle.copy = Collected
  BY <1>4 DEF Collected, CopiedAsPlanned, TransferInv, TypesInv, BundleType
<1>6. SentInv'
  BY <1>1, <1>2, <1>4, <1>5 DEF SentInv, Collected, CopiedAsPlanned
<1>7. TypesInv' /\ AbsentInv' /\ UnsentInv'
  BY <1>1, <1>2 DEF TransferInv, TypesInv, SourceType, IngestType, AbsentInv, UnsentInv
<1>8. IngestInv' /\ UndamagedInv'
  BY <1>1, <1>2, <1>3 DEF TransferInv, IngestInv, UndamagedInv, InCase
<1> QED
  BY <1>6, <1>7, <1>8 DEF TransferInv

LEMMA StripKeysInv == ASSUME TransferInv, StripKeys PROVE TransferInv'
<1>1. /\ BundleType' /\ bundle'.copy = bundle.copy /\ bundle'.listed = bundle.copy
      /\ bundle'.manifest = "as_listed" /\ bundle'.damage = bundle.damage
      /\ plan.pc = "sent" /\ UNCHANGED <<source, plan, ingest>>
  BY DEF StripKeys, TransferInv, TypesInv, BundleType
<1>2. TypesInv' /\ AbsentInv' /\ UnsentInv'
  BY <1>1 DEF TransferInv, TypesInv, SourceType, PlanType, IngestType, AbsentInv, UnsentInv
<1>3. SentInv' /\ IngestInv' /\ UndamagedInv'
  BY <1>1 DEF TransferInv, SentInv, Collected, IngestInv, UndamagedInv, InCase, Settled, Pending
<1> QED
  BY <1>2, <1>3 DEF TransferInv

LEMMA DamageBundleInv == ASSUME TransferInv, DamageBundle PROVE TransferInv'
<1> BundleType
  BY DEF TransferInv, TypesInv
<1>1. plan.pc = "sent" /\ UNCHANGED <<source, plan, ingest>>
  BY DEF DamageBundle
<1>2. BundleType' /\ bundle'.damage = bundle.damage + 1
  <2>1. ASSUME NEW p \in Names, NEW c \in {NoFile, Altered},
               bundle' = [bundle EXCEPT !.copy[p] = c, !.damage = @ + 1]
        PROVE  <1>2
    <3>1. c \in FileContents
      BY DEF FileContents, FileVersions
    <3>2. /\ bundle'.copy = [bundle.copy EXCEPT ![p] = c]
          /\ bundle' = [bundle EXCEPT !.copy = bundle'.copy, !.damage = bundle.damage + 1]
      BY <2>1 DEF BundleType
    <3>3. bundle'.copy \in [Names -> FileContents] /\ bundle.damage + 1 \in Nat
      BY <3>1, <3>2 DEF BundleType
    <3> QED
      BY <3>2, <3>3 DEF BundleType
  <2>2. CASE bundle' = [bundle EXCEPT !.manifest = "altered", !.damage = @ + 1]
    <3>1. bundle.damage + 1 \in Nat
      BY DEF BundleType
    <3> QED
      BY <2>2, <3>1 DEF BundleType
  <2> QED
    BY <2>1, <2>2 DEF DamageBundle
<1>3. bundle'.damage # 0
  BY <1>2 DEF BundleType
<1>4. TypesInv' /\ AbsentInv' /\ UnsentInv'
  BY <1>1, <1>2 DEF TransferInv, TypesInv, SourceType, PlanType, IngestType, AbsentInv, UnsentInv
<1>5. SentInv' /\ IngestInv' /\ UndamagedInv'
  BY <1>1, <1>3 DEF TransferInv, SentInv, IngestInv, UndamagedInv, InCase, Settled, Pending
<1> QED
  BY <1>4, <1>5 DEF TransferInv

--------------------------------------------------------------------------------
(* The ingest, which touches nothing of the Collector's.                   *)

LEMMA IngestStepInv ==
    ASSUME TransferInv, plan.pc = "sent", UNCHANGED <<source, plan, bundle>>,
           IngestType', IngestInv', UndamagedInv'
    PROVE  TransferInv'
  BY DEF TransferInv, TypesInv, SourceType, PlanType, BundleType, UnsentInv, AbsentInv,
         SentInv, Collected

LEMMA SentWhenIngesting ==
    ASSUME TransferInv, ingest.pc # "none"
    PROVE  plan.pc = "sent"
  BY DEF TransferInv, IngestInv

LEMMA EnumerateTreeInv ==
    ASSUME TransferInv, EnumerateTree, UNCHANGED <<source, plan, bundle>>
    PROVE  TransferInv'
<1>1. /\ plan.pc = "sent" /\ ingest.pc = "none" /\ IngestType' /\ ingest'.pc = "digest"
      /\ ingest'.stat = bundle.copy /\ ingest'.entry = ingest.entry
      /\ ingest'.copy = ingest.copy /\ ingest'.diverged = ingest.diverged
  BY DEF EnumerateTree, TransferInv, TypesInv, IngestType, BundleType
<1>2. ingest'.todo = Names /\ \A p \in Names : ingest.entry[p] = Unseen /\ ingest.copy[p] = NoFile
  BY <1>1 DEF EnumerateTree, TransferInv, IngestInv, TypesInv, IngestType
<1>3. IngestInv'
  BY <1>1, <1>2 DEF TransferInv, IngestInv, InCase
<1>4. UndamagedInv'
  BY <1>1 DEF TransferInv, UndamagedInv
<1> QED
  BY <1>1, <1>3, <1>4, IngestStepInv

LEMMA DigestNodeInv ==
    ASSUME TransferInv, NEW p \in Names, DigestNode(p), UNCHANGED <<source, plan, bundle>>
    PROVE  TransferInv'
<1>1. /\ ingest.pc = "digest" /\ plan.pc = "sent"
      /\ ingest' = [ingest EXCEPT !.todo = @ \ {p},
             !.diverged = @ \/ ~SameStats(p) \/ ingest.stat[p] # bundle.listed[p]]
  BY SentWhenIngesting DEF DigestNode
<1>2. /\ ingest'.pc = "digest" /\ ingest'.stat = ingest.stat /\ ingest'.entry = ingest.entry
      /\ ingest'.copy = ingest.copy /\ ingest'.todo = ingest.todo \ {p}
      /\ ingest'.diverged =
            (ingest.diverged \/ ~SameStats(p) \/ ingest.stat[p] # bundle.listed[p])
  BY <1>1 DEF TransferInv, TypesInv, IngestType
<1>3. IngestType'
  <2> DEFINE b == ingest.diverged \/ ~SameStats(p) \/ ingest.stat[p] # bundle.listed[p]
  <2>1. ingest' = [ingest EXCEPT !.todo = @ \ {p}, !.diverged = b] /\ b \in BOOLEAN
    BY <1>1
  <2> HIDE DEF b
  <2> QED
    BY <2>1 DEF TransferInv, TypesInv, IngestType
<1>4. IngestInv'
  BY <1>1, <1>2 DEF TransferInv, IngestInv, InCase
<1>5. UndamagedInv'
  BY <1>1, <1>2 DEF TransferInv, UndamagedInv, SentInv, SameStats
<1> QED
  BY <1>1, <1>3, <1>4, <1>5, IngestStepInv

LEMMA ReadManifestInv ==
    ASSUME TransferInv, ReadManifest, UNCHANGED <<source, plan, bundle>>
    PROVE  TransferInv'
<1> TypesInv
  BY DEF TransferInv
<1>1. ingest.pc = "digest" /\ plan.pc = "sent" /\ ingest.todo = {}
  BY SentWhenIngesting DEF ReadManifest
<1>2. /\ IngestType' /\ ingest'.stat = ingest.stat /\ ingest'.entry = ingest.entry
      /\ ingest'.copy = ingest.copy /\ ingest'.diverged = ingest.diverged
      /\ \/ bundle.manifest = "altered" /\ ingest'.pc = "failed" /\ ingest'.todo = {}
         \/ bundle.manifest # "altered" /\ ingest'.pc = "observe" /\ ingest'.todo = Names
  BY <1>1 DEF ReadManifest, TypesInv, IngestType
<1>3. \A p \in Names : ingest.entry[p] = Unseen /\ ingest.copy[p] = NoFile
  BY <1>1 DEF TransferInv, IngestInv
<1>4. IngestInv'
  BY <1>1, <1>2, <1>3 DEF IngestInv, InCase, Pending
<1>5. UndamagedInv'
  BY <1>1, <1>2 DEF TransferInv, UndamagedInv, SentInv
<1> QED
  BY <1>1, <1>2, <1>4, <1>5, IngestStepInv

\* An observed entry has no copy; it is the Collector's where there is neither
\* a file now nor was one copied then.
LEMMA ObservedFacts ==
    ASSUME TransferInv, NEW p \in Names
    PROVE  /\ Observed(p) \in FileEntries /\ ~Observed(p).copied
           /\ ~plan.entry[p].copied /\ ingest.stat[p] = NoFile => Observed(p) = plan.entry[p]
<1>1. ingest.stat[p] \in FileContents /\ plan.entry[p] \in FileEntries
  BY DEF TransferInv, TypesInv, IngestType, PlanType
<1>2. CASE ingest.stat[p] = NoFile
  <2>1. [Unseen EXCEPT !.state = "absent"] \in FileEntries
        /\ ~[Unseen EXCEPT !.state = "absent"].copied
    BY DEF Unseen, FileEntries, EntryStates, FileContents, FileVersions
  <2> QED
    BY <1>1, <1>2, <2>1 DEF Observed
<1>3. CASE ingest.stat[p] # NoFile /\ SameStats(p)
  BY <1>1, <1>3 DEF Observed, FileEntries, EntryStates
<1>4. CASE ingest.stat[p] # NoFile /\ ~SameStats(p)
  <2>1. [Unseen EXCEPT !.state = "unavailable", !.mtime = ingest.stat[p]] \in FileEntries
        /\ ~[Unseen EXCEPT !.state = "unavailable", !.mtime = ingest.stat[p]].copied
    BY <1>1 DEF Unseen, FileEntries, EntryStates, FileContents, FileVersions
  <2> QED
    BY <1>4, <2>1 DEF Observed
<1> QED
  BY <1>2, <1>3, <1>4

\* A node whose entry matches: its copy comes next.
LEMMA MatchingNodeInv ==
    ASSUME TransferInv, NEW p \in Names, ObserveNode(p), Matches(p),
           UNCHANGED <<source, plan, bundle>>
    PROVE  TransferInv'
<1> TypesInv
  BY DEF TransferInv
<1>1. ingest.pc = "observe" /\ plan.pc = "sent" /\ p \in ingest.todo /\ plan.entry[p].copied
  BY SentWhenIngesting DEF ObserveNode, Matches
<1>2. /\ IngestType' /\ ingest'.pc = "copy" /\ ingest'.stat = ingest.stat
      /\ ingest'.copy = ingest.copy /\ ingest'.todo = ingest.todo
      /\ ingest'.diverged = ingest.diverged
      /\ \A q \in Names :
            ingest'.entry[q] = IF q = p THEN plan.entry[p] ELSE ingest.entry[q]
  BY <1>1 DEF ObserveNode, TypesInv, IngestType, PlanType
<1>3. \A q \in ingest.todo : Pending(q) /\ ingest.entry[q] = Unseen
  BY <1>1 DEF TransferInv, IngestInv, Pending, TypesInv, IngestType
<1>4. \A q \in Names : IF q \in ingest'.todo THEN Pending(q)' ELSE Settled(q)'
  BY <1>1, <1>2, <1>3 DEF TransferInv, IngestInv, Pending, Settled
<1>5. \A q, r \in ingest'.todo : ingest'.entry[q] # Unseen /\ ingest'.entry[r] # Unseen => q = r
  BY <1>2, <1>3 DEF TypesInv, IngestType
<1>6. IngestInv'
  BY <1>1, <1>2, <1>4, <1>5 DEF IngestInv, InCase
<1>7. UndamagedInv'
  BY <1>1, <1>2 DEF TransferInv, UndamagedInv
<1> QED
  BY <1>1, <1>2, <1>6, <1>7, IngestStepInv

\* Of an unharmed bundle, a node whose entry does not match was not copied, and
\* there is no file.
LEMMA UndamagedMatches ==
    ASSUME TransferInv, NEW p \in Names, ingest.pc = "observe", bundle.damage = 0, ~Matches(p)
    PROVE  ~plan.entry[p].copied /\ ingest.stat[p] = NoFile
<1>1. /\ plan.pc = "sent" /\ ingest.stat = bundle.copy /\ bundle.copy = Collected
      /\ plan.entry[p].copied => plan.entry[p].digest # NoFile
  BY SentWhenIngesting DEF TransferInv, UndamagedInv, SentInv
<1>2. ingest.stat[p] = IF plan.entry[p].copied THEN plan.entry[p].digest ELSE NoFile
  BY <1>1 DEF Collected
<1> QED
  BY <1>1, <1>2 DEF Matches, Observed, SameStats

LEMMA OtherNodeInv ==
    ASSUME TransferInv, NEW p \in Names, ObserveNode(p), ~Matches(p),
           UNCHANGED <<source, plan, bundle>>
    PROVE  TransferInv'
<1> TypesInv
  BY DEF TransferInv
<1> DEFINE b == ingest.diverged \/ plan.entry[p].copied \/ ingest.stat[p] # NoFile
           e == Observed(p)
<1>1. /\ ingest.pc = "observe" /\ plan.pc = "sent" /\ p \in ingest.todo
      /\ ingest' = [ingest EXCEPT !.todo = @ \ {p}, !.entry[p] = e, !.diverged = b]
  BY SentWhenIngesting DEF ObserveNode
<1>2. /\ b \in BOOLEAN /\ e \in FileEntries /\ ~e.copied
      /\ ~b => ~ingest.diverged /\ e = plan.entry[p]
  BY ObservedFacts DEF TypesInv, IngestType
<1>3. bundle.damage = 0 => ~b
  BY <1>1, UndamagedMatches DEF TransferInv, UndamagedInv
<1> HIDE DEF b, e
<1>4. /\ IngestType' /\ ingest'.pc = "observe" /\ ingest'.stat = ingest.stat
      /\ ingest'.copy = ingest.copy /\ ingest'.todo = ingest.todo \ {p}
      /\ ingest'.diverged = b
      /\ \A q \in Names : ingest'.entry[q] = IF q = p THEN e ELSE ingest.entry[q]
  BY <1>1, <1>2 DEF TypesInv, IngestType
<1>5. \A q \in Names : IF q \in ingest.todo THEN Pending(q) ELSE Settled(q)
  BY <1>1 DEF TransferInv, IngestInv
<1>6. Settled(p)'
  BY <1>1, <1>2, <1>4, <1>5 DEF Pending, Settled
<1>7. \A q \in Names \ {p} : IF q \in ingest'.todo THEN Pending(q)' ELSE Settled(q)'
  BY <1>1, <1>2, <1>4, <1>5 DEF Pending, Settled
<1>8. \A q, r \in ingest'.todo : ingest'.entry[q] # Unseen /\ ingest'.entry[r] # Unseen => q = r
  BY <1>4 DEF TransferInv, IngestInv, TypesInv, IngestType
<1>9. IngestInv'
  BY <1>1, <1>4, <1>6, <1>7, <1>8 DEF IngestInv, InCase
<1>10. UndamagedInv'
  BY <1>1, <1>3, <1>4 DEF TransferInv, UndamagedInv
<1> QED
  BY <1>1, <1>4, <1>9, <1>10, IngestStepInv

LEMMA CopyVerifiedInv ==
    ASSUME TransferInv, NEW p \in Names, CopyVerified(p), UNCHANGED <<source, plan, bundle>>
    PROVE  TransferInv'
<1> TypesInv
  BY DEF TransferInv
<1>1. /\ ingest.pc = "copy" /\ plan.pc = "sent" /\ p \in ingest.todo
      /\ ingest.entry[p] = plan.entry[p] /\ plan.entry[p].copied /\ ingest.entry[p] # Unseen
      /\ plan.entry[p].digest # NoFile /\ plan.entry[p].mtime = plan.entry[p].digest
  BY SentWhenIngesting DEF CopyVerified, TransferInv, IngestInv, Pending, SentInv
<1>2. \A q \in Names : IF q \in ingest.todo THEN Pending(q) ELSE Settled(q)
  BY <1>1 DEF TransferInv, IngestInv
<1>3. CASE SameStats(p) /\ bundle.copy[p] = ingest.entry[p].digest
  <2>1. /\ IngestType' /\ ingest'.pc = "observe" /\ ingest'.stat = ingest.stat
        /\ ingest'.entry = ingest.entry /\ ingest'.todo = ingest.todo \ {p}
        /\ ingest'.diverged = ingest.diverged
        /\ \A q \in Names :
              ingest'.copy[q] = IF q = p THEN plan.entry[p].digest ELSE ingest.copy[q]
    BY <1>1, <1>3 DEF CopyVerified, TypesInv, IngestType, PlanType, BundleType
  <2>2. Settled(p)'
    BY <1>1, <2>1 DEF Settled
  <2>3. \A q \in ingest'.todo : Pending(q)'
    BY <1>1, <1>2, <2>1 DEF Pending, TransferInv, IngestInv, TypesInv, IngestType
  <2>4. \A q \in Names \ ingest'.todo : Settled(q)'
    BY <1>2, <2>1, <2>2 DEF Settled
  <2>5. IngestInv'
    BY <1>1, <2>1, <2>3, <2>4 DEF TransferInv, IngestInv, InCase
  <2>6. UndamagedInv'
    BY <1>1, <2>1 DEF TransferInv, UndamagedInv
  <2> QED
    BY <1>1, <2>1, <2>5, <2>6, IngestStepInv
<1>4. CASE ~(SameStats(p) /\ bundle.copy[p] = ingest.entry[p].digest)
  <2>1. /\ IngestType' /\ ingest'.pc = "failed" /\ ingest'.stat = ingest.stat
        /\ ingest'.entry = ingest.entry /\ ingest'.todo = ingest.todo
        /\ ingest'.diverged = ingest.diverged
    BY <1>1, <1>4 DEF CopyVerified, TypesInv, IngestType
  <2>2. bundle.damage # 0
    <3>1. bundle.damage = 0 => ingest.stat[p] = bundle.copy[p] /\ bundle.copy[p] = Collected[p]
      BY <1>1 DEF TransferInv, UndamagedInv, SentInv
    <3> QED
      BY <1>1, <1>4, <3>1 DEF SameStats, Collected
  <2>3. IngestInv' /\ UndamagedInv'
    BY <1>1, <2>1, <2>2 DEF TransferInv, IngestInv, InCase, UndamagedInv
  <2> QED
    BY <1>1, <2>1, <2>3, IngestStepInv
<1> QED
  BY <1>3, <1>4

LEMMA EndIngestInv ==
    ASSUME TransferInv, EndIngest, UNCHANGED <<source, plan, bundle>>
    PROVE  TransferInv'
<1> TypesInv
  BY DEF TransferInv
<1>1. ingest.pc = "observe" /\ plan.pc = "sent" /\ ingest.todo = {}
  BY SentWhenIngesting DEF EndIngest
<1>2. /\ IngestType' /\ ingest'.stat = ingest.stat /\ ingest'.entry = ingest.entry
      /\ ingest'.copy = ingest.copy /\ ingest'.todo = {}
      /\ ingest'.diverged = ingest.diverged
      /\ \/ ingest.diverged /\ ingest'.pc = "verified_with_divergence"
         \/ ~ingest.diverged /\ ingest'.pc = "verified"
  BY <1>1 DEF EndIngest, TypesInv, IngestType
<1>3. \A p \in Names : Settled(p)'
  BY <1>1, <1>2 DEF TransferInv, IngestInv, Settled
<1>4. IngestInv' /\ UndamagedInv'
  BY <1>1, <1>2, <1>3 DEF TransferInv, IngestInv, InCase, UndamagedInv
<1> QED
  BY <1>1, <1>2, <1>4, IngestStepInv

--------------------------------------------------------------------------------
LEMMA TransferStepInv == ASSUME TransferInv, [TransferNext]_transferVars PROVE TransferInv'
<1>1. CASE BrowserWrites
  BY <1>1, BrowserWritesInv
<1>2. CASE CollectorStep /\ UNCHANGED <<source, ingest>>
  BY <1>2, ListInv, InventoryInv, AddExpectedAbsentInv, OpenPlannedInv, CopyPlannedInv,
     ListBundleInv DEF CollectorStep
<1>3. CASE StripKeys
  BY <1>3, StripKeysInv
<1>4. CASE DamageBundle
  BY <1>4, DamageBundleInv
<1>5. CASE IngestStep
  BY <1>5, EnumerateTreeInv, ReadManifestInv, EndIngestInv, DigestNodeInv, MatchingNodeInv,
     OtherNodeInv, CopyVerifiedInv DEF IngestStep
<1>6. CASE UNCHANGED transferVars
  BY <1>6 DEF transferVars, TransferInv, TypesInv, SourceType, PlanType, BundleType, IngestType,
     UnsentInv, CopiedAsPlanned, Copying, AbsentInv, SentInv, Collected, IngestInv, Settled,
     Pending, InCase, UndamagedInv
<1> QED
  BY <1>1, <1>2, <1>3, <1>4, <1>5, <1>6 DEF TransferNext

LEMMA TransferInvAlways == TransferSpec => []TransferInv
<1> QED
  BY TransferInitInv, TransferStepInv, PTL DEF TransferSpec

LEMMA TransferInvSuffices == TransferInv => BundleBecomesCase
<1> SUFFICES ASSUME TransferInv PROVE BundleBecomesCase
  OBVIOUS
<1>1. InCase => CopiesAreCollected
  BY DEF TransferInv, IngestInv, CopiesAreCollected, Settled
<1>2. VerifiedIsComplete
  BY DEF VerifiedIsComplete, TransferInv, IngestInv, InCase, Settled, TypesInv, IngestType, PlanType
<1>3. AbsentWasSeen
  BY <1>2, BundleAssumption DEF AbsentWasSeen, VerifiedIsComplete, TransferInv, AbsentInv
<1>4. UndamagedIsVerified
  BY DEF UndamagedIsVerified, Ingested, InCase, TransferInv, UndamagedInv
<1> QED
  BY <1>1, <1>2, <1>3, <1>4 DEF BundleBecomesCase

\* A Case made of a bundle says of every file what the Collector saw of it,
\* whatever the browser writes while copyPlannedFile copies, whatever happens to
\* the bundle before materializeAcquisitionBundleSource has read it and however
\* often; and one that nothing happened to is verified.
THEOREM BundlesBecomeCases == TransferSpec => []BundleBecomesCase
<1> QED
  BY TransferInvAlways, TransferInvSuffices, PTL

LEMMA TransferInvTypes == TransferInv => TransferType
  BY DEF TransferInv, TypesInv, SourceType, FileVersions, PlanType, FileEntries, EntryStates,
         BundleType, IngestType, TransferType

--------------------------------------------------------------------------------
(* Each way keeps its promises in the composition of the two.              *)

\* The type invariant of both.
THEOREM WaysHaveTypes == SpecWays => []TypesOK
<1>1. TransferSpec => []TransferType
  BY TransferInvAlways, TransferInvTypes, PTL
<1> QED
  BY <1>1, WaysAreParts, AcquisitionTypes, PTL DEF TypesOK

\* A bundle becomes a Case that says what the Collector saw.
THEOREM EachWayBecomesCase == SpecWays => []BundleBecomesCase
<1> QED
  BY WaysAreParts, BundlesBecomeCases

\* A live Source becomes one that has what its Manifest calls copied, nothing
\* from a directory that was lost, and all that nobody touched.
THEOREM LiveSourceBecomesCase ==
    SpecWays => /\ [](CopiedAsRecorded /\ VerifiesUnlessLost /\ NoValueUnderLost /\ StillIsAcquired)
                /\ ListsWhatIsThere
<1> QED
  BY WaysAreParts, CopiesMatchEntries, UnlessLostVerifies, NothingKeptUnderLost,
     UntouchedIsAcquired, KeepsWhatIsThere, PTL
================================================================================
