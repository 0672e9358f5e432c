-------------------------- MODULE SqlitePasses_proofs --------------------------
(***************************************************************************)
(* Proofs about SqlitePasses, for any pages and any number of              *)
(* transactions.                                                           *)
(*                                                                         *)
(* Whatever moment the browser stops at, the main file with its log or its *)
(* journal is the image of the last commit, and what the main file has     *)
(* beyond that was never committed (with a journal) or was (with a log).   *)
(* The browser does not write any more once its files are acquired, so     *)
(* what each pass reads of the copy is what it would read of the files.    *)
(***************************************************************************)
EXTENDS SqlitePasses, TLAPS

WholeImage == Apply(db.wal, Apply(db.journal, db.main))

DbType ==
    /\ db \in [mode : {"wal", "journal"}, main : Image, cache : Pages \cup {NoTxn},
               wal : Pages \cup {NoSidecar}, journal : Pages \cup {NoSidecar}]
    /\ saved \in Image /\ version \in 1 .. MaxVersion

\* No row of the open transaction is committed, and the rows of the last commit are.
CommittedAreOlder ==
    /\ ImageRows(saved) \subseteq committed
    /\ \A row \in committed : row[2] \in Nat /\ row[2] <= version
    /\ db.cache # NoTxn =>
          /\ \A row \in committed : row[2] # version
          /\ \A p \in DOMAIN db.cache : db.cache[p] \in {0, version}

\* With a log the main file has committed rows only, and the log the rest.
LogInv ==
    db.mode = "wal" =>
        /\ db.journal = NoSidecar
        /\ db.cache # NoTxn => db.wal # NoSidecar
        /\ \A p \in DbPages : db.main[p] # 0 => <<p, db.main[p]>> \in committed
        /\ db.wal # NoSidecar => \A p \in DOMAIN db.wal : db.wal[p] = saved[p]
        /\ \A p \in DbPages :
              (db.wal = NoSidecar \/ p \notin DOMAIN db.wal) => db.main[p] = saved[p]

\* With a journal the main file has the rows of the last commit, and in pages
\* whose original the journal keeps those of the open transaction.
JournalInv ==
    db.mode = "journal" =>
        /\ db.wal = NoSidecar
        /\ db.cache = NoTxn =>
              /\ db.main = saved
              /\ db.journal # NoSidecar => db.journal = NoPages
        /\ db.cache # NoTxn =>
              /\ db.journal # NoSidecar /\ DOMAIN db.cache = DOMAIN db.journal
              /\ \A p \in DOMAIN db.journal :
                    db.journal[p] = saved[p] /\ db.main[p] \in {saved[p], 0, version}
              /\ \A p \in DbPages \ DOMAIN db.journal : db.main[p] = saved[p]

DbInv == DbType /\ CommittedAreOlder /\ LogInv /\ JournalInv

PassStates == {"none", "wal_resident", "journal_resident"}
PassPcs == {"none", "resolve", "first", "second", "done", "failed", "refused", "unread"}

\* What the two passes read of files that did not change.
RollsBack == db.journal # NoSidecar /\ db.wal = NoSidecar
FirstRows == ImageRows(IF RollsBack THEN WholeImage ELSE db.main)
SecondRows == ImageRows(IF RollsBack THEN db.main ELSE WholeImage)

Complete == "unavailable" \notin {entry[f] : f \in Files}

CopyType ==
    /\ entry \in [Files -> {"value", "absent", "unavailable"}] /\ changed \subseteq Files
    /\ pass.pc \in PassPcs /\ pass.state \in PassStates
    /\ DOMAIN pass = {"pc", "committed", "recovered", "state"}

\* The Working Copy has the files of the browser, except what changed since.
CopyIsOfFiles ==
    pass.pc # "none" /\ Complete =>
        \A f \in Files :
            /\ entry[f] = "value" <=> db[f] # NoSidecar
            /\ f \notin changed => copy[f] = db[f]

PassRead ==
    /\ pass.pc \in {"none", "resolve", "first"} => pass.state = "none"
    /\ pass.pc \in {"second", "done"} /\ Complete => pass.committed = FirstRows
    /\ pass.pc = "second" => pass.state = "none"
    /\ pass.pc = "second" /\ Complete => RollsBack \/ db.wal # NoSidecar
    /\ pass.state = "none" => pass.recovered = {}
    /\ pass.pc = "done" /\ Complete /\ pass.state # "none" =>
          /\ pass.recovered = SecondRows \ FirstRows
          /\ pass.state = (IF db.wal # NoSidecar THEN "wal_resident" ELSE "journal_resident")
          /\ RollsBack \/ db.wal # NoSidecar
          /\ {"main", CitedBy(pass.state)} \cap changed = {}

PassInv == DbInv /\ CopyType /\ CopyIsOfFiles /\ PassRead

--------------------------------------------------------------------------------
(***************************************************************************)
(* Images and parts of them.                                               *)
(***************************************************************************)
LEMMA PagesFacts ==
    ASSUME NEW f \in Pages
    PROVE  /\ DOMAIN f \subseteq DbPages /\ \A p \in DOMAIN f : f[p] \in 0 .. MaxVersion
           /\ f = [p \in DOMAIN f |-> f[p]] /\ f # NoSidecar /\ f # NoTxn
<1>1. PICK ps \in SUBSET DbPages : f \in [ps -> 0 .. MaxVersion]
  BY DEF Pages
<1>2. f # NoSidecar /\ f # NoTxn
  BY PassAssumption
<1> QED BY <1>1, <1>2

LEMMA IsPages ==
    ASSUME NEW ps \in SUBSET DbPages, NEW f \in [ps -> 0 .. MaxVersion]
    PROVE  f \in Pages
BY DEF Pages

LEMMA ImageIsPages == Image \subseteq Pages
BY IsPages DEF Image

LEMMA NoPagesFacts == NoPages \in Pages /\ DOMAIN NoPages = {}
<1>1. NoPages \in [{} -> 0 .. MaxVersion]
  BY DEF NoPages
<1> QED BY <1>1, IsPages

LEMMA OnePageFacts ==
    ASSUME NEW p \in DbPages, NEW v \in 0 .. MaxVersion
    PROVE  OnePage(p, v) \in Pages /\ DOMAIN OnePage(p, v) = {p} /\ OnePage(p, v)[p] = v
<1>1. OnePage(p, v) \in [{p} -> 0 .. MaxVersion]
  BY DEF OnePage
<1>2. OnePage(p, v) \in Pages
  BY <1>1, IsPages
<1> QED BY <1>2 DEF OnePage

LEMMA OverFacts ==
    ASSUME NEW f \in Pages, NEW g \in Pages
    PROVE  /\ Over(f, g) \in Pages /\ DOMAIN Over(f, g) = DOMAIN f \cup DOMAIN g
           /\ \A p \in DOMAIN f : Over(f, g)[p] = f[p]
           /\ \A p \in DOMAIN g \ DOMAIN f : Over(f, g)[p] = g[p]
<1>1. /\ DOMAIN f \subseteq DbPages /\ \A p \in DOMAIN f : f[p] \in 0 .. MaxVersion
      /\ DOMAIN g \subseteq DbPages /\ \A p \in DOMAIN g : g[p] \in 0 .. MaxVersion
  BY PagesFacts
<1>2. Over(f, g) \in [DOMAIN f \cup DOMAIN g -> 0 .. MaxVersion]
  BY <1>1 DEF Over
<1>3. Over(f, g) \in Pages
  BY <1>1, <1>2, IsPages
<1> QED BY <1>3 DEF Over

LEMMA OverImage ==
    ASSUME NEW f \in Pages, NEW image \in Image
    PROVE  Over(f, image) \in Image
<1>1. DOMAIN f \subseteq DbPages /\ \A p \in DOMAIN f : f[p] \in 0 .. MaxVersion
  BY PagesFacts
<1> QED BY <1>1 DEF Over, Image

\* What SQLite makes of the main file and its sidecar is the image of the last
\* commit.
LEMMA WholeIsSaved == DbInv => WholeImage = saved
<1> SUFFICES ASSUME DbInv PROVE WholeImage = saved
  OBVIOUS
<1> USE DEF DbInv
<1>0. /\ db.main \in Image /\ saved \in Image /\ db.main \in Pages
      /\ db.wal \in Pages \cup {NoSidecar} /\ db.journal \in Pages \cup {NoSidecar}
      /\ db.mode \in {"wal", "journal"}
  BY ImageIsPages DEF DbType
<1>1. CASE db.mode = "wal"
  <2>1. WholeImage = Apply(db.wal, db.main)
    BY <1>1 DEF WholeImage, LogInv, Apply
  <2>2. CASE db.wal = NoSidecar
    <3>1. WholeImage = db.main /\ \A p \in DbPages : db.main[p] = saved[p]
      BY <1>1, <2>1, <2>2 DEF LogInv, Apply
    <3> QED BY <1>0, <3>1 DEF Image
  <2>3. CASE db.wal # NoSidecar
    <3>1. WholeImage = Over(db.wal, db.main) /\ db.wal \in Pages
      BY <1>0, <2>1, <2>3 DEF Apply
    <3>2. WholeImage \in Image
      BY <1>0, <3>1, OverImage
    <3>3. /\ \A p \in DOMAIN db.wal : WholeImage[p] = db.wal[p]
          /\ \A p \in DOMAIN db.main \ DOMAIN db.wal : WholeImage[p] = db.main[p]
      BY <1>0, <3>1, OverFacts
    <3>4. ASSUME NEW p \in DbPages PROVE WholeImage[p] = saved[p]
      <4>1. DOMAIN db.main = DbPages
        BY <1>0 DEF Image
      <4>2. CASE p \in DOMAIN db.wal
        BY <1>1, <2>3, <3>3, <4>2 DEF LogInv
      <4>3. CASE p \notin DOMAIN db.wal
        <5>1. db.main[p] = saved[p]
          BY <1>1, <4>3 DEF LogInv
        <5> QED BY <3>3, <4>1, <4>3, <5>1
      <4> QED BY <4>2, <4>3
    <3> QED BY <1>0, <3>2, <3>4 DEF Image
  <2> QED BY <2>2, <2>3
<1>2. CASE db.mode = "journal"
  <2>1. WholeImage = Apply(db.journal, db.main)
    BY <1>2 DEF WholeImage, JournalInv, Apply
  <2>2. CASE db.journal = NoSidecar
    BY <1>2, <2>1, <2>2 DEF JournalInv, Apply
  <2>3. CASE db.journal # NoSidecar
    <3>1. WholeImage = Over(db.journal, db.main) /\ db.journal \in Pages
      BY <1>0, <2>1, <2>3 DEF Apply
    <3>2. WholeImage \in Image
      BY <1>0, <3>1, OverImage
    <3>3. /\ \A p \in DOMAIN db.journal : WholeImage[p] = db.journal[p]
          /\ \A p \in DOMAIN db.main \ DOMAIN db.journal : WholeImage[p] = db.main[p]
      BY <1>0, <3>1, OverFacts
    <3>4. ASSUME NEW p \in DbPages PROVE WholeImage[p] = saved[p]
      <4>1. DOMAIN db.main = DbPages
        BY <1>0 DEF Image
      <4>2. CASE p \in DOMAIN db.journal
        <5>1. db.journal[p] = saved[p]
          BY <1>2, <2>3, <4>2, NoPagesFacts DEF JournalInv
        <5> QED BY <3>3, <4>2, <5>1
      <4>3. CASE p \notin DOMAIN db.journal
        <5>1. db.main[p] = saved[p]
          BY <1>2, <4>3 DEF JournalInv
        <5> QED BY <3>3, <4>1, <4>3, <5>1
      <4> QED BY <4>2, <4>3
    <3> QED BY <1>0, <3>2, <3>4 DEF Image
  <2> QED BY <2>2, <2>3
<1> QED BY <1>0, <1>1, <1>2

--------------------------------------------------------------------------------
(***************************************************************************)
(* The browser keeps DbInv.                                                *)
(***************************************************************************)
LEMMA DbFields ==
    DbInv => /\ db.mode \in {"wal", "journal"} /\ db.main \in Image /\ db.main \in Pages
             /\ DOMAIN db.main = DbPages /\ \A p \in DbPages : db.main[p] \in 0 .. MaxVersion
             /\ db.cache \in Pages \cup {NoTxn} /\ db.wal \in Pages \cup {NoSidecar}
             /\ db.journal \in Pages \cup {NoSidecar}
             /\ saved \in Image /\ saved \in Pages /\ DOMAIN saved = DbPages
             /\ \A p \in DbPages : saved[p] \in 0 .. MaxVersion
             /\ version \in 1 .. MaxVersion /\ MaxVersion \in Nat /\ version \in Nat
BY ImageIsPages, PassAssumption DEF DbInv, DbType, Image

LEMMA InitDb == PassInit => DbInv
<1> SUFFICES ASSUME PassInit PROVE DbInv
  OBVIOUS
<1>1. PICK mode \in {"wal", "journal"}, image \in [DbPages -> {0, 1}] :
        /\ db = [mode |-> mode, main |-> image, cache |-> NoTxn,
                 wal |-> NoSidecar, journal |-> NoSidecar]
        /\ saved = image /\ committed = ImageRows(image)
  BY DEF PassInit
<1>2. image \in Image /\ version = 1 /\ 1 \in 1 .. MaxVersion
  BY PassAssumption DEF Image, PassInit
<1>3. DbType
  BY <1>1, <1>2 DEF DbType
<1>4. CommittedAreOlder
  <2>1. \A row \in committed : row[2] \in {0, 1}
    BY <1>1 DEF ImageRows
  <2> QED BY <1>1, <1>2, <2>1 DEF CommittedAreOlder
<1>5. LogInv /\ JournalInv
  BY <1>1 DEF LogInv, JournalInv, ImageRows
<1> QED BY <1>3, <1>4, <1>5 DEF DbInv

LEMMA BeginTxnDb == ASSUME DbInv, BeginTxn PROVE DbInv'
<1>1. /\ db'.mode = db.mode /\ db'.main = db.main /\ db'.cache = NoPages
      /\ db'.wal = (IF db.mode = "wal" /\ db.wal = NoSidecar THEN NoPages ELSE db.wal)
      /\ db'.journal = (IF db.mode = "journal" THEN NoPages ELSE db.journal)
      /\ DOMAIN db' = DOMAIN db
  BY DEF BeginTxn, DbInv, DbType
<1>2. /\ version' = version + 1 /\ version' \in 1 .. MaxVersion /\ db.cache = NoTxn
      /\ saved' = saved /\ committed' = committed
  BY DbFields DEF BeginTxn
<1>3. DbType'
  BY <1>1, <1>2, NoPagesFacts DEF BeginTxn, DbInv, DbType
<1>4. CommittedAreOlder'
  BY <1>1, <1>2, NoPagesFacts, DbFields DEF DbInv, CommittedAreOlder, ImageRows
<1>5. LogInv'
  BY <1>1, <1>2, NoPagesFacts, PagesFacts DEF DbInv, LogInv
<1>6. JournalInv'
  <2>1. NoPages # NoTxn /\ NoPages # NoSidecar
    BY NoPagesFacts, PagesFacts
  <2> QED BY <1>1, <1>2, <2>1, NoPagesFacts DEF DbInv, JournalInv
<1> QED BY <1>3, <1>4, <1>5, <1>6 DEF DbInv

LEMMA ChangePageDb == ASSUME DbInv, NEW p \in DbPages, ChangePage(p) PROVE DbInv'
<1>1. PICK v \in {0, version} :
        db' = [db EXCEPT !.cache = Over(OnePage(p, v), @),
                         !.journal = IF db.mode = "journal"
                                     THEN Over(@, OnePage(p, db.main[p])) ELSE @]
  BY DEF ChangePage
<1>2. /\ db'.mode = db.mode /\ db'.main = db.main /\ db'.wal = db.wal
      /\ db'.cache = Over(OnePage(p, v), db.cache)
      /\ db'.journal = (IF db.mode = "journal" THEN Over(db.journal, OnePage(p, db.main[p]))
                                               ELSE db.journal)
  BY <1>1 DEF DbInv, DbType
<1>3. /\ db.cache # NoTxn /\ db.cache \in Pages
      /\ version' = version /\ saved' = saved /\ committed' = committed
  BY DbFields DEF ChangePage
<1>4. /\ OnePage(p, v) \in Pages /\ DOMAIN OnePage(p, v) = {p} /\ OnePage(p, v)[p] = v
      /\ OnePage(p, db.main[p]) \in Pages /\ DOMAIN OnePage(p, db.main[p]) = {p}
      /\ OnePage(p, db.main[p])[p] = db.main[p]
  <2>1. v \in 0 .. MaxVersion /\ db.main[p] \in 0 .. MaxVersion
    BY DbFields
  <2> HIDE DEF OnePage
  <2> QED BY <2>1, OnePageFacts
<1>5. /\ db'.cache \in Pages /\ db'.cache # NoTxn
      /\ DOMAIN db'.cache = {p} \cup DOMAIN db.cache
      /\ db'.cache[p] = v /\ \A q \in DOMAIN db.cache \ {p} : db'.cache[q] = db.cache[q]
  <2> DEFINE one == OnePage(p, v)
  <2>1. /\ Over(one, db.cache) \in Pages
        /\ DOMAIN Over(one, db.cache) = DOMAIN one \cup DOMAIN db.cache
        /\ \A q \in DOMAIN one : Over(one, db.cache)[q] = one[q]
        /\ \A q \in DOMAIN db.cache \ DOMAIN one : Over(one, db.cache)[q] = db.cache[q]
    BY <1>3, <1>4, OverFacts
  <2>2. Over(one, db.cache) # NoTxn
    BY <2>1, PagesFacts
  <2> QED BY <1>2, <1>4, <2>1, <2>2
<1>6. ASSUME db.mode = "journal"
      PROVE  /\ db.journal \in Pages /\ db'.journal \in Pages /\ db'.journal # NoSidecar
             /\ DOMAIN db'.journal = DOMAIN db.journal \cup {p}
             /\ \A q \in DOMAIN db.journal : db'.journal[q] = db.journal[q]
             /\ p \notin DOMAIN db.journal => db'.journal[p] = db.main[p]
  <2>1. db.journal \in Pages
    BY <1>3, <1>6, DbFields DEF DbInv, JournalInv
  <2>2. db'.journal = Over(db.journal, OnePage(p, db.main[p]))
    BY <1>2, <1>6
  <2> DEFINE one == OnePage(p, db.main[p])
  <2>3. /\ Over(db.journal, one) \in Pages
        /\ DOMAIN Over(db.journal, one) = DOMAIN db.journal \cup DOMAIN one
        /\ \A q \in DOMAIN db.journal : Over(db.journal, one)[q] = db.journal[q]
        /\ \A q \in DOMAIN one \ DOMAIN db.journal : Over(db.journal, one)[q] = one[q]
    BY <1>4, <2>1, OverFacts
  <2>4. Over(db.journal, one) # NoSidecar
    BY <2>3, PagesFacts
  <2> QED BY <1>4, <2>1, <2>2, <2>3, <2>4
<1>7. DbType'
  <2>1. db'.journal \in Pages \cup {NoSidecar}
    BY <1>2, <1>6, DbFields
  <2> QED BY <1>1, <1>3, <1>5, <2>1 DEF DbInv, DbType
<1>8. CommittedAreOlder'
  BY <1>3, <1>5 DEF DbInv, CommittedAreOlder, ImageRows
<1>9. LogInv'
  BY <1>2, <1>3, <1>5 DEF DbInv, LogInv
<1>10. JournalInv'
  <2> SUFFICES ASSUME db.mode = "journal" PROVE JournalInv'
    BY <1>2 DEF JournalInv
  <2>1. DOMAIN db.cache = DOMAIN db.journal /\ db.wal = NoSidecar
    BY <1>3 DEF DbInv, JournalInv
  <2>2. \A q \in DOMAIN db'.journal :
           db'.journal[q] = saved[q] /\ db.main[q] \in {saved[q], 0, version}
    BY <1>3, <1>6 DEF DbInv, JournalInv
  <2>3. \A q \in DbPages \ DOMAIN db'.journal : db.main[q] = saved[q]
    BY <1>3, <1>6 DEF DbInv, JournalInv
  <2> QED BY <1>2, <1>3, <1>5, <1>6, <2>1, <2>2, <2>3 DEF JournalInv
<1> QED BY <1>7, <1>8, <1>9, <1>10 DEF DbInv

LEMMA WritePageDb == ASSUME DbInv, NEW p \in DbPages, WritePage(p) PROVE DbInv'
<1>1. /\ db.mode = "journal" /\ db.cache # NoTxn /\ p \in DOMAIN db.cache
      /\ db' = [db EXCEPT !.main[p] = db.cache[p]]
      /\ version' = version /\ saved' = saved /\ committed' = committed
  BY DEF WritePage
<1>2. /\ db'.mode = db.mode /\ db'.wal = db.wal /\ db'.cache = db.cache
      /\ db'.journal = db.journal /\ db'.main = [db.main EXCEPT ![p] = db.cache[p]]
  BY <1>1 DEF DbInv, DbType
<1>3. db.cache[p] \in {0, version} /\ db.cache[p] \in 0 .. MaxVersion
  BY <1>1, DbFields DEF DbInv, CommittedAreOlder
<1>4. db'.main \in Image
  BY <1>2, <1>3, DbFields DEF Image
<1>5. DbType'
  BY <1>1, <1>4 DEF DbInv, DbType
<1>6. CommittedAreOlder' /\ LogInv'
  BY <1>1, <1>2 DEF DbInv, CommittedAreOlder, LogInv, ImageRows
<1>7. JournalInv'
  BY <1>1, <1>2, <1>3, DbFields DEF DbInv, JournalInv
<1> QED BY <1>5, <1>6, <1>7 DEF DbInv

\* What a commit makes of the last image: its pages, and the others as they were.
LEMMA CommitImage ==
    ASSUME DbInv, Commit
    PROVE  /\ db.cache \in Pages /\ saved' \in Image /\ version' = version
           /\ DOMAIN db.cache \subseteq DbPages
           /\ \A q \in DOMAIN db.cache : saved'[q] = db.cache[q]
           /\ \A q \in DbPages \ DOMAIN db.cache : saved'[q] = saved[q]
           /\ ImageRows(saved)' \subseteq committed' /\ committed \subseteq committed'
           /\ \A row \in committed' : row[2] \in Nat /\ row[2] <= version
<1>1. /\ db.cache \in Pages /\ saved' = Over(db.cache, saved) /\ version' = version
      /\ committed' = committed \cup ImageRows(saved') /\ saved \in Pages /\ saved \in Image
  BY DbFields DEF Commit
<1>2. DOMAIN db.cache \subseteq DbPages
  BY <1>1, PagesFacts
<1>3. saved' \in Image
  BY <1>1, OverImage
<1>4. /\ \A q \in DOMAIN db.cache : saved'[q] = db.cache[q]
      /\ \A q \in DbPages \ DOMAIN db.cache : saved'[q] = saved[q]
  <2>1. /\ \A q \in DOMAIN db.cache : Over(db.cache, saved)[q] = db.cache[q]
        /\ \A q \in DOMAIN saved \ DOMAIN db.cache : Over(db.cache, saved)[q] = saved[q]
    BY <1>1, OverFacts
  <2> QED BY <1>1, <2>1, DbFields
<1>5. ASSUME NEW row \in ImageRows(saved') PROVE row[2] \in Nat /\ row[2] <= version
  <2>1. PICK q \in DbPages : row = <<q, saved'[q]>> /\ saved'[q] # 0
    BY DEF ImageRows
  <2>2. CASE q \in DOMAIN db.cache
    BY <1>4, <2>1, <2>2, DbFields DEF Commit, DbInv, CommittedAreOlder
  <2>3. CASE q \notin DOMAIN db.cache
    <3>1. row \in ImageRows(saved)
      BY <1>4, <2>1, <2>3 DEF ImageRows
    <3> QED BY <3>1 DEF DbInv, CommittedAreOlder
  <2> QED BY <2>2, <2>3
<1>6. \A row \in committed : row[2] \in Nat /\ row[2] <= version
  BY DEF DbInv, CommittedAreOlder
<1> QED BY <1>1, <1>2, <1>3, <1>4, <1>5, <1>6 DEF ImageRows

LEMMA CommitDb == ASSUME DbInv, Commit PROVE DbInv'
<1>1. /\ db.cache \in Pages /\ saved' \in Image /\ version' = version /\ db.cache # NoTxn
      /\ DOMAIN db.cache \subseteq DbPages
      /\ \A q \in DOMAIN db.cache : saved'[q] = db.cache[q]
      /\ \A q \in DbPages \ DOMAIN db.cache : saved'[q] = saved[q]
      /\ ImageRows(saved)' \subseteq committed' /\ committed \subseteq committed'
      /\ \A row \in committed' : row[2] \in Nat /\ row[2] <= version
  BY CommitImage DEF Commit
<1>2. CASE db.mode = "wal" /\ db' = [db EXCEPT !.cache = NoTxn, !.wal = Over(db.cache, @)]
  <2>1. /\ db'.mode = db.mode /\ db'.main = db.main /\ db'.cache = NoTxn
        /\ db'.wal = Over(db.cache, db.wal) /\ db'.journal = db.journal
    BY <1>2 DEF DbInv, DbType
  <2>2. db.wal \in Pages /\ db.journal = NoSidecar
    BY <1>1, <1>2, DbFields DEF DbInv, LogInv
  <2>3. /\ db'.wal \in Pages /\ DOMAIN db'.wal = DOMAIN db.cache \cup DOMAIN db.wal
        /\ \A q \in DOMAIN db.cache : db'.wal[q] = db.cache[q]
        /\ \A q \in DOMAIN db.wal \ DOMAIN db.cache : db'.wal[q] = db.wal[q]
    <3>1. /\ Over(db.cache, db.wal) \in Pages
          /\ DOMAIN Over(db.cache, db.wal) = DOMAIN db.cache \cup DOMAIN db.wal
          /\ \A q \in DOMAIN db.cache : Over(db.cache, db.wal)[q] = db.cache[q]
          /\ \A q \in DOMAIN db.wal \ DOMAIN db.cache : Over(db.cache, db.wal)[q] = db.wal[q]
      BY <1>1, <2>2, OverFacts
    <3> QED BY <2>1, <3>1
  <2>4. DbType'
    BY <1>1, <1>2, <2>1, <2>3 DEF DbInv, DbType
  <2>5. CommittedAreOlder' /\ JournalInv'
    BY <1>1, <1>2, <2>1 DEF CommittedAreOlder, JournalInv
  <2>6. \A q \in DOMAIN db.wal : q \in DbPages /\ db.wal[q] = saved[q]
    BY <1>2, <2>2, PagesFacts DEF DbInv, LogInv
  <2>7. \A q \in DOMAIN db'.wal : db'.wal[q] = saved'[q]
    BY <1>1, <2>3, <2>6
  <2>8. \A q \in DbPages : q \notin DOMAIN db'.wal => db.main[q] = saved'[q]
    BY <1>1, <1>2, <2>3 DEF DbInv, LogInv
  <2>9. db'.wal # NoSidecar
    BY <2>3, PagesFacts
  <2>10. \A q \in DbPages : db.main[q] # 0 => <<q, db.main[q]>> \in committed'
    BY <1>1, <1>2 DEF DbInv, LogInv
  <2> QED BY <2>1, <2>2, <2>4, <2>5, <2>7, <2>8, <2>9, <2>10 DEF DbInv, LogInv
<1>3. ASSUME db.mode = "journal", \A p \in DOMAIN db.cache : db.main[p] = db.cache[p],
             NEW j \in {NoSidecar, NoPages}, db' = [db EXCEPT !.cache = NoTxn, !.journal = j]
      PROVE  DbInv'
  <2>1. /\ db'.mode = db.mode /\ db'.main = db.main /\ db'.cache = NoTxn
        /\ db'.wal = db.wal /\ db'.journal = j
    BY <1>3 DEF DbInv, DbType
  <2>2. DbType'
    BY <1>1, <1>3, NoPagesFacts DEF DbInv, DbType
  <2>3. CommittedAreOlder' /\ LogInv'
    BY <1>1, <1>3, <2>1 DEF CommittedAreOlder, LogInv
  <2>4. \A q \in DbPages : db.main[q] = saved'[q]
    BY <1>1, <1>3 DEF DbInv, JournalInv
  <2>5. db.main = saved'
    BY <1>1, <2>4, DbFields DEF Image
  <2>6. JournalInv'
    BY <1>3, <2>1, <2>5 DEF DbInv, JournalInv
  <2> QED BY <2>2, <2>3, <2>6 DEF DbInv
<1> QED BY <1>2, <1>3 DEF Commit

LEMMA RollbackDb == ASSUME DbInv, Rollback PROVE DbInv'
<1>1. version' = version /\ saved' = saved /\ committed' = committed /\ db.cache # NoTxn
  BY DEF Rollback
<1>2. CASE db.mode = "wal" /\ db' = [db EXCEPT !.cache = NoTxn]
  <2>1. /\ db'.mode = db.mode /\ db'.main = db.main /\ db'.cache = NoTxn
        /\ db'.wal = db.wal /\ db'.journal = db.journal
    BY <1>2 DEF DbInv, DbType
  <2>2. DbType'
    BY <1>1, <1>2 DEF DbInv, DbType
  <2> QED BY <1>1, <1>2, <2>1, <2>2
          DEF DbInv, CommittedAreOlder, LogInv, JournalInv, ImageRows
<1>3. ASSUME db.mode = "journal", NEW j \in {NoSidecar, NoPages},
             db' = [db EXCEPT !.cache = NoTxn, !.journal = j, !.main = Apply(db.journal, @)]
      PROVE  DbInv'
  <2>1. /\ db'.mode = db.mode /\ db'.main = Apply(db.journal, db.main) /\ db'.cache = NoTxn
        /\ db'.wal = db.wal /\ db'.journal = j
    BY <1>3 DEF DbInv, DbType
  <2>2. db.wal = NoSidecar
    BY <1>3 DEF DbInv, JournalInv
  <2>3. db'.main = saved
    BY <2>1, <2>2, WholeIsSaved DEF WholeImage, Apply
  <2>4. DbType'
    <3>1. db'.main \in Image
      BY <2>3, DbFields
    <3> QED BY <1>1, <1>3, <3>1, NoPagesFacts DEF DbInv, DbType
  <2> QED BY <1>1, <1>3, <2>1, <2>2, <2>3, <2>4
          DEF DbInv, CommittedAreOlder, LogInv, JournalInv, ImageRows
<1> QED BY <1>2, <1>3 DEF Rollback

LEMMA CheckpointDb == ASSUME DbInv, NEW p \in DbPages, CheckpointPage(p) PROVE DbInv'
<1>1. /\ db.wal # NoSidecar /\ p \in DOMAIN db.wal /\ db' = [db EXCEPT !.main[p] = db.wal[p]]
      /\ version' = version /\ saved' = saved /\ committed' = committed
  BY DEF CheckpointPage
<1>2. /\ db'.mode = db.mode /\ db'.wal = db.wal /\ db'.cache = db.cache
      /\ db'.journal = db.journal /\ db'.main = [db.main EXCEPT ![p] = db.wal[p]]
  BY <1>1 DEF DbInv, DbType
<1>3. db.mode = "wal" /\ db.wal[p] = saved[p] /\ db.wal[p] \in 0 .. MaxVersion
  BY <1>1, DbFields DEF DbInv, JournalInv, LogInv
<1>4. DbType'
  <2>1. db'.main \in Image
    BY <1>2, <1>3, DbFields DEF Image
  <2> QED BY <1>1, <2>1 DEF DbInv, DbType
<1>5. \A q \in DbPages : db'.main[q] # 0 => <<q, db'.main[q]>> \in committed
  <2>1. saved[p] # 0 => <<p, saved[p]>> \in committed
    BY DEF DbInv, CommittedAreOlder, ImageRows
  <2> QED BY <1>2, <1>3, <2>1, DbFields DEF DbInv, LogInv
<1>6. LogInv'
  BY <1>1, <1>2, <1>3, <1>5, DbFields DEF DbInv, LogInv
<1> QED BY <1>1, <1>2, <1>3, <1>4, <1>6 DEF DbInv, CommittedAreOlder, JournalInv, ImageRows

LEMMA ResetWalDb == ASSUME DbInv, ResetWal PROVE DbInv'
<1>1. PICK w \in {NoSidecar, NoPages} : db' = [db EXCEPT !.wal = w]
  BY DEF ResetWal
<1>2. /\ db.wal # NoSidecar /\ db.cache = NoTxn /\ \A p \in DOMAIN db.wal : db.main[p] = db.wal[p]
      /\ version' = version /\ saved' = saved /\ committed' = committed
  BY DEF ResetWal
<1>3. /\ db'.mode = db.mode /\ db'.wal = w /\ db'.cache = db.cache
      /\ db'.journal = db.journal /\ db'.main = db.main
  BY <1>1 DEF DbInv, DbType
<1>4. db.mode = "wal" /\ \A p \in DbPages : db.main[p] = saved[p]
  BY <1>2, DbFields DEF DbInv, JournalInv, LogInv
<1>5. DbType'
  BY <1>1, <1>2, NoPagesFacts DEF DbInv, DbType
<1>6. LogInv'
  BY <1>2, <1>3, <1>4, NoPagesFacts DEF DbInv, LogInv
<1> QED BY <1>2, <1>3, <1>4, <1>5, <1>6 DEF DbInv, CommittedAreOlder, JournalInv, ImageRows

LEMMA WritesDb == DbInv /\ Writes => DbInv'
BY BeginTxnDb, ChangePageDb, WritePageDb, CommitDb, RollbackDb, CheckpointDb, ResetWalDb
   DEF Writes

--------------------------------------------------------------------------------
(***************************************************************************)
(* The acquisition and the passes.                                         *)
(***************************************************************************)

\* What the passes read of the copy is what they would read of the files.
LEMMA CopyReads ==
    ASSUME PassInv, Complete, pass.pc # "none"
    PROVE  /\ Supplied("main")
           /\ Supplied("wal") <=> db.wal # NoSidecar
           /\ Supplied("journal") <=> db.journal # NoSidecar
           /\ CommittedIsReadWrite <=> RollsBack
           /\ ~Drifted(CommittedFiles) =>
                 FirstRows = ImageRows(IF CommittedIsReadWrite THEN ReadWrite ELSE Immutable)
           /\ ~Drifted(SidecarFiles) /\ (RollsBack \/ db.wal # NoSidecar) =>
                 SecondRows = ImageRows(IF CommittedIsReadWrite THEN Immutable ELSE ReadWrite)
<1>1. /\ Supplied("main") <=> db.main # NoSidecar
      /\ Supplied("wal") <=> db.wal # NoSidecar
      /\ Supplied("journal") <=> db.journal # NoSidecar
      /\ "main" \notin changed => copy.main = db.main
      /\ "wal" \notin changed => copy.wal = db.wal
      /\ "journal" \notin changed => copy.journal = db.journal
  BY DEF PassInv, CopyIsOfFiles, Files, Supplied
<1>2. db.main # NoSidecar
  BY DbFields, PagesFacts DEF PassInv
<1>3. CommittedIsReadWrite <=> RollsBack
  BY <1>1 DEF CommittedIsReadWrite, RollsBack
<1>4. db.wal # NoSidecar => WholeImage = Apply(db.wal, db.main) /\ ~Supplied("journal")
  <2>1. db.wal # NoSidecar => db.journal = NoSidecar
    BY DbFields DEF PassInv, DbInv, LogInv, JournalInv
  <2> QED BY <1>1, <2>1 DEF WholeImage, Apply
<1>5. db.wal = NoSidecar => WholeImage = Apply(db.journal, db.main)
  BY DEF WholeImage, Apply
<1>6. ~Drifted(CommittedFiles) =>
         FirstRows = ImageRows(IF CommittedIsReadWrite THEN ReadWrite ELSE Immutable)
  <2> SUFFICES ASSUME ~Drifted(CommittedFiles)
               PROVE  FirstRows = ImageRows(IF CommittedIsReadWrite THEN ReadWrite
                                                                    ELSE Immutable)
    OBVIOUS
  <2>1. "main" \notin changed /\ (RollsBack => "journal" \notin changed)
    BY <1>3 DEF Drifted, CommittedFiles
  <2>2. CASE RollsBack
    <3>1. ReadWrite = WholeImage
      BY <1>1, <1>5, <2>1, <2>2 DEF ReadWrite, RollsBack
    <3> QED BY <1>3, <2>2, <3>1 DEF FirstRows
  <2>3. CASE ~RollsBack
    BY <1>1, <1>3, <2>1, <2>3 DEF FirstRows, Immutable
  <2> QED BY <2>2, <2>3
<1>7. ~Drifted(SidecarFiles) /\ (RollsBack \/ db.wal # NoSidecar) =>
         SecondRows = ImageRows(IF CommittedIsReadWrite THEN Immutable ELSE ReadWrite)
  <2> SUFFICES ASSUME ~Drifted(SidecarFiles), RollsBack \/ db.wal # NoSidecar
               PROVE  SecondRows = ImageRows(IF CommittedIsReadWrite THEN Immutable
                                                                     ELSE ReadWrite)
    OBVIOUS
  <2>1. "main" \notin changed /\ (~RollsBack => "wal" \notin changed)
    BY <1>3 DEF Drifted, SidecarFiles
  <2>2. CASE RollsBack
    BY <1>1, <1>3, <2>1, <2>2 DEF SecondRows, Immutable
  <2>3. CASE ~RollsBack
    <3>1. db.wal # NoSidecar /\ Supplied("wal") /\ copy.wal = db.wal /\ copy.main = db.main
      BY <1>1, <2>1, <2>3
    <3>2. ReadWrite = Apply(copy.wal, copy.main)
      BY <1>4, <3>1 DEF ReadWrite
    <3>3. ReadWrite = WholeImage
      BY <1>4, <3>1, <3>2
    <3> QED BY <1>3, <2>3, <3>3 DEF SecondRows
  <2> QED BY <2>2, <2>3
<1> QED BY <1>1, <1>2, <1>3, <1>6, <1>7

LEMMA PassInitInv == PassInit => PassInv
<1> SUFFICES ASSUME PassInit PROVE PassInv
  OBVIOUS
<1>1. CopyType
  BY DEF PassInit, CopyType, Files, PassPcs, PassStates
<1>2. CopyIsOfFiles /\ PassRead
  BY DEF PassInit, CopyIsOfFiles, PassRead
<1> QED BY <1>1, <1>2, InitDb DEF PassInv

LEMMA PassNextInv == PassInv /\ [PassNext]_passVars => PassInv'
<1> SUFFICES ASSUME PassInv, [PassNext]_passVars PROVE PassInv'
  OBVIOUS
<1> DEFINE DbSame == UNCHANGED <<db, version, saved, committed>>
<1>0. ASSUME DbSame
      PROVE  DbInv' /\ (RollsBack <=> RollsBack') /\ FirstRows' = FirstRows
             /\ SecondRows' = SecondRows
  BY <1>0 DEF PassInv, DbInv, DbType, CommittedAreOlder, LogInv, JournalInv, ImageRows,
     RollsBack, FirstRows, SecondRows, WholeImage, Apply
<1>1. CASE Writes
  <2>1. DbInv'
    BY <1>1, WritesDb DEF PassInv
  <2>2. CopyType' /\ CopyIsOfFiles' /\ PassRead'
    BY <1>1 DEF Writes, PassInv, CopyType, CopyIsOfFiles, PassRead
  <2> QED BY <2>1, <2>2 DEF PassInv
<1>2. CASE Acquire
  <2> PICK lost \in SUBSET {f \in Files : db[f] # NoSidecar} :
         /\ copy' = [f \in Files |-> IF f \in lost THEN NoSidecar ELSE db[f]]
         /\ entry' = [f \in Files |-> CASE f \in lost -> "unavailable"
                                     [] db[f] = NoSidecar -> "absent"
                                     [] OTHER -> "value"]
    BY <1>2 DEF Acquire
  <2>1. DbSame /\ pass' = [pass EXCEPT !.pc = "resolve"] /\ changed' = changed
    BY <1>2 DEF Acquire
  <2>2. pass'.pc = "resolve" /\ pass'.state = "none" /\ pass'.recovered = {}
    BY <1>2, <2>1 DEF Acquire, PassInv, CopyType, PassRead
  <2>3. CopyType'
    BY <2>1, <2>2 DEF PassInv, CopyType, PassPcs, PassStates
  <2>4. CopyIsOfFiles'
    BY <2>1 DEF CopyIsOfFiles, Complete
  <2>5. PassRead'
    BY <2>2 DEF PassRead
  <2> QED BY <1>0, <2>1, <2>3, <2>4, <2>5 DEF PassInv
<1>3. CASE Drift
  <2>1. DbSame /\ entry' = entry /\ pass' = pass /\ pass.pc \in {"first", "second"}
    BY <1>3 DEF Drift
  <2>2. PICK f \in Files \ changed :
           changed' = changed \cup {f} /\ copy' = [copy EXCEPT ![f] = [p \in DbPages |-> 0]]
    BY <1>3 DEF Drift
  <2>3. CopyType'
    BY <2>1, <2>2 DEF PassInv, CopyType
  <2>4. CopyIsOfFiles'
    BY <2>1, <2>2 DEF PassInv, CopyType, CopyIsOfFiles, Complete
  <2>5. PassRead'
    BY <1>0, <2>1 DEF PassInv, PassRead, Complete
  <2> QED BY <1>0, <2>1, <2>3, <2>4, <2>5 DEF PassInv
<1> DEFINE Read == DbSame /\ UNCHANGED <<copy, entry, changed>>
<1>4. CASE Resolve
  <2>1. /\ Read /\ pass.pc = "resolve" /\ pass'.pc \in {"first", "unread"}
        /\ pass'.state = "none" /\ pass'.recovered = {} /\ DOMAIN pass' = DOMAIN pass
    BY <1>4 DEF Resolve, PassInv, CopyType, PassRead
  <2>2. CopyType' /\ CopyIsOfFiles' /\ PassRead'
    BY <2>1 DEF PassInv, CopyType, PassPcs, PassStates, CopyIsOfFiles, PassRead, Complete
  <2> QED BY <1>0, <2>1, <2>2 DEF PassInv
<1>5. CASE ReadCommitted
  <2>1. Read /\ pass.pc = "first" /\ pass.state = "none" /\ pass.recovered = {}
    BY <1>5 DEF ReadCommitted, PassInv, PassRead
  <2>2. /\ DOMAIN pass' = DOMAIN pass /\ pass'.state = "none" /\ pass'.recovered = {}
        /\ pass'.pc \in {"refused", "failed", "second", "done"}
    <3>1. CASE Drifted(CommittedFiles)
      BY <1>5, <2>1, <3>1 DEF ReadCommitted, PassInv, CopyType
    <3>2. CASE ~Drifted(CommittedFiles)
      <4>1. \/ pass' = [pass EXCEPT !.pc = "failed"]
            \/ \E pc \in {"second", "done"}, rows \in {ImageRows(Immutable), ImageRows(ReadWrite)} :
                  pass' = [pass EXCEPT !.pc = pc, !.committed = rows]
        BY <1>5, <3>2 DEF ReadCommitted
      <4> QED BY <2>1, <4>1 DEF PassInv, CopyType
    <3> QED BY <3>1, <3>2
  <2>3. CopyType' /\ CopyIsOfFiles'
    <3>1. CopyType'
      BY <2>1, <2>2 DEF PassInv, CopyType, PassPcs, PassStates
    <3>2. CopyIsOfFiles'
      BY <2>1 DEF PassInv, CopyIsOfFiles, Complete
    <3> QED BY <3>1, <3>2
  <2>4. ASSUME pass'.pc \in {"second", "done"}, Complete
        PROVE  /\ pass'.committed = FirstRows
               /\ pass'.pc = "second" => RollsBack \/ db.wal # NoSidecar
    <3>1. /\ ~Drifted(CommittedFiles)
          /\ pass'.pc = (IF Supplied("wal") \/ Supplied("journal") THEN "second" ELSE "done")
          /\ pass'.committed = ImageRows(IF CommittedIsReadWrite THEN ReadWrite ELSE Immutable)
      BY <1>5, <2>4 DEF ReadCommitted, PassInv, CopyType
    <3> QED BY <2>1, <2>4, <3>1, CopyReads DEF RollsBack
  <2>5. PassRead'
    BY <1>0, <2>1, <2>2, <2>4 DEF PassRead, Complete
  <2> QED BY <1>0, <2>1, <2>3, <2>5 DEF PassInv
<1>6. CASE ReadSidecar
  <2>1. Read /\ pass.pc = "second" /\ pass.state = "none" /\ pass.recovered = {}
    BY <1>6 DEF ReadSidecar, PassInv, PassRead
  <2>2. /\ DOMAIN pass' = DOMAIN pass /\ pass'.state \in PassStates
        /\ pass'.state = "none" => pass'.recovered = {}
        /\ pass'.pc \in {"refused", "done"}
    <3>1. CASE Drifted(SidecarFiles)
      <4>1. pass' = [pass EXCEPT !.pc = "refused", !.committed = {}]
        BY <1>6, <3>1 DEF ReadSidecar
      <4> QED BY <2>1, <4>1 DEF PassInv, CopyType, PassStates
    <3>2. CASE ~Drifted(SidecarFiles)
      <4>1. \/ pass' = [pass EXCEPT !.pc = "done"]
            \/ \E rows, state : /\ state \in {"wal_resident", "journal_resident"}
                               /\ pass' = [pass EXCEPT !.pc = "done", !.recovered = rows,
                                                       !.state = state]
        BY <1>6, <3>2 DEF ReadSidecar
      <4> QED BY <2>1, <4>1 DEF PassInv, CopyType, PassStates
    <3> QED BY <3>1, <3>2
  <2>3. CopyType' /\ CopyIsOfFiles'
    <3>1. CopyType'
      BY <2>1, <2>2 DEF PassInv, CopyType, PassPcs
    <3>2. CopyIsOfFiles'
      BY <2>1 DEF PassInv, CopyIsOfFiles, Complete
    <3> QED BY <3>1, <3>2
  <2>4. ASSUME pass'.pc = "done", Complete
        PROVE  /\ pass'.committed = FirstRows
               /\ pass'.state # "none" =>
                     /\ pass'.recovered = SecondRows \ FirstRows
                     /\ pass'.state = (IF db.wal # NoSidecar THEN "wal_resident"
                                                            ELSE "journal_resident")
                     /\ RollsBack \/ db.wal # NoSidecar
                     /\ {"main", CitedBy(pass'.state)} \cap changed = {}
    <3>1. /\ ~Drifted(SidecarFiles) /\ pass'.committed = pass.committed
          /\ pass'.state # "none" =>
                /\ pass'.recovered = SidecarOnly(pass.committed,
                       ImageRows(IF CommittedIsReadWrite THEN Immutable ELSE ReadWrite))
                /\ pass'.state = (IF Supplied("wal") THEN "wal_resident"
                                                     ELSE "journal_resident")
      BY <1>6, <2>1, <2>4 DEF ReadSidecar, PassInv, CopyType
    <3>2. pass.committed = FirstRows /\ (RollsBack \/ db.wal # NoSidecar)
      BY <2>1, <2>4 DEF PassInv, PassRead
    <3>3. /\ Supplied("wal") <=> db.wal # NoSidecar
          /\ CommittedIsReadWrite <=> RollsBack
          /\ SecondRows = ImageRows(IF CommittedIsReadWrite THEN Immutable ELSE ReadWrite)
      BY <2>1, <2>4, <3>1, <3>2, CopyReads
    <3>4. pass'.state # "none" => {"main", CitedBy(pass'.state)} \cap changed = {}
      BY <3>1, <3>3 DEF Drifted, SidecarFiles, CitedBy, RollsBack
    <3> QED BY <3>1, <3>2, <3>3, <3>4 DEF SidecarOnly
  <2>5. PassRead'
    BY <1>0, <2>1, <2>2, <2>4 DEF PassRead, Complete
  <2> QED BY <1>0, <2>1, <2>3, <2>5 DEF PassInv
<1>7. CASE UNCHANGED passVars
  <2>1. Read /\ pass' = pass
    BY <1>7 DEF passVars
  <2>2. CopyType' /\ CopyIsOfFiles' /\ PassRead'
    BY <1>0, <2>1 DEF PassInv, CopyType, CopyIsOfFiles, PassRead, Complete
  <2> QED BY <1>0, <2>1, <2>2 DEF PassInv
<1> QED BY <1>1, <1>2, <1>3, <1>4, <1>5, <1>6, <1>7 DEF PassNext

LEMMA PassInvariant == PassSpec => []PassInv
BY PassInitInv, PassNextInv, PTL DEF PassSpec

--------------------------------------------------------------------------------
LEMMA CommitStatesInv == PassInv => CommitStatesAreTrue
<1> SUFFICES ASSUME PassInv, pass.pc = "done", Complete
             PROVE  /\ pass.committed \subseteq committed
                    /\ ~Supplied("wal") => pass.committed = ImageRows(saved)
                    /\ pass.state # "none" =>
                          ImageRows(saved) \subseteq pass.committed \cup pass.recovered
                    /\ pass.state = "wal_resident" => pass.recovered \subseteq ImageRows(saved)
                    /\ pass.state = "journal_resident" => pass.recovered \cap committed = {}
                    /\ \A row \in pass.recovered :
                          /\ row[1] \in DOMAIN copy[CitedBy(pass.state)]
                          /\ copy[CitedBy(pass.state)][row[1]] = row[2]
  BY DEF CommitStatesAreTrue, Complete
<1>1. /\ pass.committed = FirstRows /\ WholeImage = saved
      /\ Supplied("wal") <=> db.wal # NoSidecar
      /\ ImageRows(saved) \subseteq committed
  BY CopyReads, WholeIsSaved DEF PassInv, PassRead, DbInv, CommittedAreOlder
<1>2. ~RollsBack /\ db.wal = NoSidecar => db.main = saved
  BY <1>1 DEF RollsBack, WholeImage, Apply
<1>3. pass.committed \subseteq committed
  <2>1. CASE RollsBack \/ db.wal = NoSidecar
    BY <1>1, <1>2, <2>1 DEF FirstRows
  <2>2. CASE ~RollsBack /\ db.wal # NoSidecar
    <3>1. db.mode = "wal"
      BY <2>2, DbFields DEF PassInv, DbInv, JournalInv
    <3>2. ImageRows(db.main) \subseteq committed
      BY <3>1 DEF PassInv, DbInv, LogInv, ImageRows
    <3> QED BY <1>1, <2>2, <3>2 DEF FirstRows
  <2> QED BY <2>1, <2>2
<1>4. ~Supplied("wal") => pass.committed = ImageRows(saved)
  BY <1>1, <1>2 DEF FirstRows
<1>5. CASE pass.state = "none"
  <2>1. pass.recovered = {}
    BY <1>5 DEF PassInv, PassRead
  <2> QED BY <1>3, <1>4, <1>5, <2>1
<1>6. CASE pass.state # "none"
  <2>1. /\ pass.recovered = SecondRows \ FirstRows
        /\ pass.state = (IF db.wal # NoSidecar THEN "wal_resident" ELSE "journal_resident")
        /\ RollsBack \/ db.wal # NoSidecar
        /\ "main" \notin changed /\ CitedBy(pass.state) \notin changed
    BY <1>6 DEF PassInv, PassRead
  <2>2. ImageRows(saved) \subseteq pass.committed \cup pass.recovered
    BY <1>1, <2>1 DEF FirstRows, SecondRows
  <2>3. copy["main"] = db["main"] /\ copy[CitedBy(pass.state)] = db[CitedBy(pass.state)]
    BY <2>1 DEF PassInv, CopyIsOfFiles, Files, CitedBy
  <2>4. CASE db.wal # NoSidecar
    <3>1. /\ pass.state = "wal_resident" /\ ~RollsBack /\ CitedBy(pass.state) = "wal"
          /\ pass.recovered = ImageRows(WholeImage) \ ImageRows(db.main)
      BY <2>1, <2>4 DEF RollsBack, CitedBy, FirstRows, SecondRows
    <3>2. db.mode = "wal"
      BY <2>4, DbFields DEF PassInv, DbInv, JournalInv
    <3>3. ASSUME NEW row \in pass.recovered
          PROVE  row[1] \in DOMAIN db.wal /\ db.wal[row[1]] = row[2]
      <4>1. PICK p \in DbPages : row = <<p, saved[p]>> /\ saved[p] # 0
        BY <1>1, <3>1 DEF ImageRows
      <4>2. db.main[p] # saved[p]
        BY <3>1, <4>1 DEF ImageRows
      <4>3. p \in DOMAIN db.wal /\ db.wal[p] = saved[p]
        BY <2>4, <3>2, <4>2 DEF PassInv, DbInv, LogInv
      <4> QED BY <4>1, <4>3
    <3> QED BY <1>1, <1>3, <1>4, <2>2, <2>3, <3>1, <3>3
  <2>5. CASE db.wal = NoSidecar
    <3>1. /\ pass.state = "journal_resident" /\ RollsBack /\ CitedBy(pass.state) = "main"
          /\ pass.recovered = ImageRows(db.main) \ ImageRows(saved)
      BY <1>1, <2>1, <2>5 DEF CitedBy, FirstRows, SecondRows
    <3>2. db.mode = "journal"
      BY <3>1, DbFields DEF RollsBack, PassInv, DbInv, LogInv
    <3>3. ASSUME NEW row \in pass.recovered
          PROVE  row \notin committed /\ row[1] \in DOMAIN db.main /\ db.main[row[1]] = row[2]
      <4>1. PICK p \in DbPages : row = <<p, db.main[p]>> /\ db.main[p] # 0
        BY <3>1 DEF ImageRows
      <4>2. db.main[p] # saved[p]
        BY <3>1, <4>1 DEF ImageRows
      <4>3. db.cache # NoTxn /\ db.main[p] = version
        BY <3>2, <4>1, <4>2 DEF PassInv, DbInv, JournalInv
      <4> QED BY <4>1, <4>3, DbFields DEF PassInv, DbInv, CommittedAreOlder
    <3> QED BY <1>3, <1>4, <2>2, <2>3, <3>1, <3>3
  <2> QED BY <2>4, <2>5
<1> QED BY <1>5, <1>6

\* The Commit State of every row that a read gives is true, when no sidecar was
\* lost, whatever the browser was doing when it stopped
\* (core/src/sqlite-artifact.ts:793-811).
THEOREM CommitStatesHold == PassSpec => []CommitStatesAreTrue
BY PassInvariant, CommitStatesInv, PTL
================================================================================
