------------------------------ MODULE SqlitePasses ------------------------------
(***************************************************************************)
(* The two passes over a database of the browser                           *)
(* (core/src/sqlite-artifact.ts).  The browser writes it with a write-     *)
(* ahead log or a rollback journal, may be killed at any moment, and the   *)
(* Working Copy has the files as they are then; a sidecar may be lost.  A  *)
(* pass reads the main file alone, or what SQLite makes of it and its      *)
(* sidecar, from fresh snapshots that are compared with the Manifest.      *)
(*                                                                         *)
(* A page holds one row, of the version of the transaction that wrote it,  *)
(* or none (0).  Frames that follow the last commit of a log are never     *)
(* applied and are left out, as is the -shm file, which SQLite rebuilds.   *)
(***************************************************************************)
EXTENDS Naturals

CONSTANTS
    DbPages,
    MaxVersion,     \* bounds the transactions: the first rows have version 1
    NoSidecar,
    NoTxn

VARIABLES
    db,         \* [mode, main, cache, wal, journal]; cache: the open transaction
    version,    \* the version that the last transaction wrote
    saved,      \* history: the image of the last commit
    committed,  \* history: the rows of every commit
    copy,       \* the files of the Working Copy: [main, wal, journal]
    entry,      \* what the Manifest says of each: "value", "absent", "unavailable"
    changed,    \* the files of the Working Copy that changed since
    pass        \* [pc, committed, recovered, state]

passVars == <<db, version, saved, committed, copy, entry, changed, pass>>

Files == {"main", "wal", "journal"}
Image == [DbPages -> 0 .. MaxVersion]

\* Some of the pages, with what each has.
Pages == UNION {[ps -> 0 .. MaxVersion] : ps \in SUBSET DbPages}
NoPages == [p \in {} |-> 0]
OnePage(p, v) == [q \in {p} |-> v]

ASSUME PassAssumption ==
    MaxVersion \in Nat \ {0} /\ NoSidecar \notin Pages /\ NoTxn \notin Pages

\* The pages of f, and those that only g has.
Over(f, g) == [p \in DOMAIN f \cup DOMAIN g |-> IF p \in DOMAIN f THEN f[p] ELSE g[p]]

\* The image with the pages of a sidecar, if there is one, in place of its own.
Apply(sidecar, image) == IF sidecar = NoSidecar THEN image ELSE Over(sidecar, image)

ImageRows(image) == {<<p, image[p]>> : p \in {q \in DbPages : image[q] # 0}}

PassInit ==
    /\ \E mode \in {"wal", "journal"}, image \in [DbPages -> {0, 1}] :
          /\ db = [mode |-> mode, main |-> image, cache |-> NoTxn,
                   wal |-> NoSidecar, journal |-> NoSidecar]
          /\ saved = image /\ committed = ImageRows(image)
    /\ version = 1
    /\ copy = [main |-> NoPages, wal |-> NoSidecar, journal |-> NoSidecar]
    /\ entry = [f \in Files |-> "absent"]
    /\ changed = {}
    /\ pass = [pc |-> "none", committed |-> {}, recovered |-> {}, state |-> "none"]

(***************************************************************************)
(* The browser.                                                            *)
(***************************************************************************)
BeginTxn ==
    /\ db.cache = NoTxn /\ version < MaxVersion
    /\ version' = version + 1
    /\ db' = [db EXCEPT !.cache = NoPages,
                        !.wal = IF db.mode = "wal" /\ @ = NoSidecar THEN NoPages ELSE @,
                        !.journal = IF db.mode = "journal" THEN NoPages ELSE @]
    /\ UNCHANGED <<saved, committed>>

\* A page is changed in memory, after its original is in the journal.
ChangePage(p) ==
    /\ db.cache # NoTxn
    /\ \E v \in {0, version} :
          db' = [db EXCEPT !.cache = Over(OnePage(p, v), @),
                           !.journal = IF db.mode = "journal" 
                                           THEN Over(@, OnePage(p, db.main[p])) ELSE @]
    /\ UNCHANGED <<version, saved, committed>>

\* A changed page goes to the main file: to spare memory, or to commit.
WritePage(p) ==
    /\ db.mode = "journal" /\ db.cache # NoTxn /\ p \in DOMAIN db.cache
    /\ db' = [db EXCEPT !.main[p] = db.cache[p]]
    /\ UNCHANGED <<version, saved, committed>>

\* The commit: the last frame of the log, or the end of the journal, which is
\* deleted or truncated.
Commit ==
    /\ db.cache # NoTxn
    /\ saved' = Over(db.cache, saved)
    /\ committed' = committed \cup ImageRows(saved')
    /\ \/ /\ db.mode = "wal"
          /\ db' = [db EXCEPT !.cache = NoTxn, !.wal = Over(db.cache, @)]
       \/ /\ db.mode = "journal"
          /\ \A p \in DOMAIN db.cache : db.main[p] = db.cache[p]
          /\ \E j \in {NoSidecar, NoPages} :
                db' = [db EXCEPT !.cache = NoTxn, !.journal = j]
    /\ UNCHANGED version

Rollback ==
    /\ db.cache # NoTxn
    /\ \/ /\ db.mode = "wal"
          /\ db' = [db EXCEPT !.cache = NoTxn]
       \/ /\ db.mode = "journal"
          /\ \E j \in {NoSidecar, NoPages} :
                db' = [db EXCEPT !.cache = NoTxn, !.journal = j,
                                 !.main = Apply(db.journal, @)]
    /\ UNCHANGED <<version, saved, committed>>

\* A checkpoint copies the pages of the log one by one, then starts it anew.
CheckpointPage(p) ==
    /\ db.wal # NoSidecar /\ p \in DOMAIN db.wal /\ db.main[p] # db.wal[p]
    /\ db' = [db EXCEPT !.main[p] = db.wal[p]]
    /\ UNCHANGED <<version, saved, committed>>

ResetWal ==
    /\ db.wal # NoSidecar /\ db.cache = NoTxn
    /\ \A p \in DOMAIN db.wal : db.main[p] = db.wal[p]
    /\ \E w \in {NoSidecar, NoPages} : db' = [db EXCEPT !.wal = w]
    /\ UNCHANGED <<version, saved, committed>>

Writes ==
    /\ pass.pc = "none"
    /\ \/ BeginTxn \/ Commit \/ Rollback \/ ResetWal
       \/ \E p \in DbPages : ChangePage(p) \/ WritePage(p) \/ CheckpointPage(p)
    /\ UNCHANGED <<copy, entry, changed, pass>>

(***************************************************************************)
(* The acquisition, and the Working Copy after it.                         *)
(***************************************************************************)

\* The browser is closed or killed, and its files are copied; one that cannot
\* be read is recorded as unavailable.
Acquire ==
    /\ pass.pc = "none"
    /\ \E lost \in SUBSET {f \in Files : db[f] # NoSidecar} :
       /\ copy' = [f \in Files |-> IF f \in lost THEN NoSidecar ELSE db[f]]
       /\ entry' = [f \in Files |-> CASE f \in lost -> "unavailable"
                                   [] db[f] = NoSidecar -> "absent"
                                   [] OTHER -> "value"]
    /\ pass' = [pass EXCEPT !.pc = "resolve"]
    /\ UNCHANGED <<db, version, saved, committed, changed>>

\* A file of the Working Copy is replaced.
Drift ==
    /\ pass.pc \in {"first", "second"}
    /\ \E f \in Files \ changed :
          /\ entry[f] = "value"
          /\ changed' = changed \cup {f}
          /\ copy' = [copy EXCEPT ![f] = [p \in DbPages |-> 0]]
    /\ UNCHANGED <<db, version, saved, committed, entry, pass>>

(***************************************************************************)
(* The reading.                                                            *)
(***************************************************************************)

\* A read needs the entry of the database; its sidecars are those with a value.
Resolve ==
    /\ pass.pc = "resolve"
    /\ pass' = [pass EXCEPT !.pc = IF entry["main"] = "value" THEN "first" ELSE "unread"]
    /\ UNCHANGED <<db, version, saved, committed, copy, entry, changed>>

Supplied(f) == entry[f] = "value"

\* A snapshot of these files is refused when one of them has other bytes than the
\* Manifest says.
Drifted(files) == files \cap changed # {}

\* The main file as it is, and what SQLite makes of it and its sidecar.
Immutable == copy.main

ReadWrite ==
    CASE Supplied("wal") -> Apply(copy.wal, copy.main)
      [] Supplied("journal") -> Apply(copy.journal, copy.main)
      [] OTHER -> copy.main

CommittedIsReadWrite_Never == FALSE

\* With a journal the committed pass is the one that rolls it back.
CommittedIsReadWrite == Supplied("journal") /\ ~Supplied("wal")

CommittedFiles == IF CommittedIsReadWrite THEN {"main", "journal"} ELSE {"main"}
SidecarFiles == IF CommittedIsReadWrite THEN {"main"} ELSE {"main", "wal"}

SidecarOnly(rows, sidecarRows) == sidecarRows \ rows

\* A committed pass that fails ends the read.
ReadCommitted ==
    /\ pass.pc = "first"
    /\ IF Drifted(CommittedFiles)
       THEN pass' = [pass EXCEPT !.pc = "refused"]
       ELSE \/ pass' = [pass EXCEPT !.pc = "failed"]
            \/ pass' = [pass EXCEPT
                  !.pc = IF Supplied("wal") \/ Supplied("journal") THEN "second" ELSE "done",
                  !.committed = ImageRows(IF CommittedIsReadWrite THEN ReadWrite
                                                                  ELSE Immutable)]
    /\ UNCHANGED <<db, version, saved, committed, copy, entry, changed>>

\* The other pass, without the rows of the first.  A failure leaves the
\* committed rows, a refusal nothing.
ReadSidecar ==
    /\ pass.pc = "second"
    /\ IF Drifted(SidecarFiles)
       THEN pass' = [pass EXCEPT !.pc = "refused", !.committed = {}]
       ELSE \/ pass' = [pass EXCEPT !.pc = "done"]
            \/ pass' = [pass EXCEPT
                  !.pc = "done",
                  !.recovered = SidecarOnly(pass.committed,
                      ImageRows(IF CommittedIsReadWrite THEN Immutable ELSE ReadWrite)),
                  !.state = IF Supplied("wal") THEN "wal_resident" ELSE "journal_resident"]
    /\ UNCHANGED <<db, version, saved, committed, copy, entry, changed>>

\* The file whose Manifest entry a recovered row cites.
CitedBy(state) == IF state = "wal_resident" THEN "wal" ELSE "main"

PassNext == Writes \/ Acquire \/ Drift \/ Resolve \/ ReadCommitted \/ ReadSidecar

PassSpec == PassInit /\ [][PassNext]_passVars

(***************************************************************************)
(* What a read promises.                                                   *)
(***************************************************************************)
PassType ==
    /\ db.mode \in {"wal", "journal"} /\ db.main \in Image /\ saved \in Image
    /\ version \in 1 .. MaxVersion
    /\ entry \in [Files -> {"value", "absent", "unavailable"}]
    /\ changed \subseteq Files
    /\ pass.pc \in {"none", "resolve", "first", "second", "done", "failed", "refused", "unread"}
    /\ pass.state \in {"none", "wal_resident", "journal_resident"}

\* The Commit State of every row is true, when no sidecar was lost, whatever
\* moment the browser was killed at: a committed row is one of some commit, and
\* with a journal, or without a sidecar, the committed rows are those of the
\* last; a recovered row of a log is one of the last commit and one of a
\* journal of none (core/src/sqlite-artifact.ts:793-811); no row of the last
\* commit is in neither pass; and the file a recovered row cites holds it
\* (docs/reference.md:28-29).
CommitStatesAreTrue ==
    pass.pc = "done" /\ "unavailable" \notin {entry[f] : f \in Files} =>
        /\ pass.committed \subseteq committed
        /\ ~Supplied("wal") => pass.committed = ImageRows(saved)
        /\ pass.state # "none" => ImageRows(saved) \subseteq pass.committed \cup pass.recovered
        /\ pass.state = "wal_resident" => pass.recovered \subseteq ImageRows(saved)
        /\ pass.state = "journal_resident" => pass.recovered \cap committed = {}
        /\ \A row \in pass.recovered :
              /\ row[1] \in DOMAIN copy[CitedBy(pass.state)]
              /\ copy[CitedBy(pass.state)][row[1]] = row[2]

\* "A hot rollback journal that cannot be rolled back stops the read, because
\* the main file alone is not a committed image." (sqlite-artifact.ts:813-814)
\* No read that completes calls a row committed that never was.
OnlyCommittedAreCalledSo ==
    pass.pc = "done" => pass.committed \subseteq committed
================================================================================
