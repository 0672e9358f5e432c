--------------------------- MODULE Acquisition_proofs ---------------------------
(***************************************************************************)
(* Proofs about the acquisition of a live Source: its type invariant, that *)
(* the Working Copy is the one that the entries tell of, that nothing is   *)
(* kept from a directory that was given up, that what nobody touched is    *)
(* acquired, and that the Manifest is whole where it says so; for each     *)
(* tree of files, whatever the browser does to it and whichever calls      *)
(* fail.                                                                   *)
(*                                                                         *)
(* All of it follows from one inductive invariant, AcquisitionInv, which   *)
(* ties the frames of the walk to the entries: what a frame names and has  *)
(* inspected has an entry, what it has still to do has none, nor has       *)
(* anything below that.                                                    *)
(***************************************************************************)
EXTENDS Acquisition, TLAPS

(* The tree of the Source.                                                 *)

LEMMA ParentFacts ==
    ASSUME NEW p \in Paths
    PROVE  /\ Parent[p] \in Dirs \cup {Root} /\ p # Root /\ Root \notin Dirs
           /\ p \in Files <=> p \notin Dirs
  BY TreeAssumption DEF Paths

LEMMA AncestorsOfTop ==
    ASSUME NEW p \in Paths, Parent[p] = Root
    PROVE  Ancestors(p) = {}
<1>1. ClosedUp({}) /\ Parent[p] \in {} \cup {Root}
  BY DEF ClosedUp
<1> QED
  BY <1>1 DEF Ancestors

LEMMA AncestorsClosed ==
    ASSUME NEW p \in Paths
    PROVE  /\ Ancestors(p) \subseteq Dirs /\ Ancestors(p) \subseteq Paths
           /\ ClosedUp(Ancestors(p))
           /\ Parent[p] \in Ancestors(p) \cup {Root}
<1>1. Ancestors(p) \subseteq Dirs
  BY DEF Ancestors
<1>2. Parent[p] \in Ancestors(p) \cup {Root}
  BY ParentFacts DEF Ancestors
<1>3. ASSUME NEW d \in Ancestors(p), Parent[d] # Root PROVE Parent[d] \in Ancestors(p)
  <2>1. d \in Paths /\ Parent[d] \in Dirs
    BY <1>1, <1>3, ParentFacts DEF Paths
  <2>2. ASSUME NEW S \in SUBSET Dirs, ClosedUp(S), Parent[p] \in S \cup {Root}
        PROVE  Parent[d] \in S
    BY <2>2, <1>3 DEF ClosedUp, Ancestors
  <2> QED
    BY <2>1, <2>2 DEF Ancestors
<1> QED
  BY <1>1, <1>2, <1>3 DEF ClosedUp, Paths

\* The set is the least one.
LEMMA AncestorsLeast ==
    ASSUME NEW p \in Paths, NEW S \in SUBSET Dirs, ClosedUp(S), Parent[p] \in S \cup {Root}
    PROVE  Ancestors(p) \subseteq S
  BY DEF Ancestors

LEMMA AncestorsTransitive ==
    ASSUME NEW p \in Paths, NEW d \in Ancestors(p)
    PROVE  d \in Paths /\ Ancestors(d) \subseteq Ancestors(p)
<1>1. d \in Paths /\ Ancestors(p) \in SUBSET Dirs /\ ClosedUp(Ancestors(p))
  BY AncestorsClosed
<1>2. Parent[d] \in Ancestors(p) \cup {Root}
  BY <1>1 DEF ClosedUp
<1> QED
  BY <1>1, <1>2, AncestorsLeast

LEMMA AncestorsStep ==
    ASSUME NEW p \in Paths, Parent[p] # Root
    PROVE  /\ Parent[p] \in Paths /\ Parent[p] \in Dirs
           /\ Ancestors(p) = {Parent[p]} \cup Ancestors(Parent[p])
<1> DEFINE d == Parent[p]
           S == {d} \cup Ancestors(d)
<1>1. d \in Dirs /\ d \in Paths
  BY ParentFacts DEF Paths
<1>2. S \in SUBSET Dirs /\ ClosedUp(S)
  BY <1>1, AncestorsClosed DEF ClosedUp
<1>3. Ancestors(p) \subseteq S
  BY <1>2, AncestorsLeast
<1>4. S \subseteq Ancestors(p)
  <2>1. d \in Ancestors(p)
    BY AncestorsClosed
  <2> QED
    BY <2>1, AncestorsTransitive
<1> QED
  BY <1>1, <1>3, <1>4

\* Each directory above p holds p or another directory above it.
LEMMA AncestorsHold ==
    ASSUME NEW p \in Paths, NEW d \in Ancestors(p)
    PROVE  \E q \in {p} \cup Ancestors(p) : Parent[q] = d
<1> DEFINE S == {e \in Ancestors(p) : \E q \in {p} \cup Ancestors(p) : Parent[q] = e}
<1>1. S \in SUBSET Dirs /\ Parent[p] \in S \cup {Root}
  BY AncestorsClosed
<1>2. ClosedUp(S)
  BY AncestorsClosed DEF ClosedUp
<1> QED
  BY <1>1, <1>2, AncestorsLeast

\* Nothing is above itself.
LEMMA Acyclic ==
    ASSUME NEW p \in Paths
    PROVE  p \notin Ancestors(p)
<1> SUFFICES ASSUME p \in Ancestors(p) PROVE FALSE
  OBVIOUS
<1> DEFINE S == {a \in Ancestors(p) : p \in {a} \cup Ancestors(a)}
<1>1. \A a \in Paths : p \in Ancestors(a) =>
         Parent[a] # Root /\ Parent[a] \in Paths /\ p \in {Parent[a]} \cup Ancestors(Parent[a])
  BY AncestorsOfTop, AncestorsStep
<1>2. Parent[p] \in S
  BY <1>1, AncestorsClosed
<1>3. ClosedUp(S)
  <2> SUFFICES ASSUME NEW a \in S PROVE Parent[a] \in S \cup {Root}
    BY DEF ClosedUp
  <2>1. a \in Paths /\ Parent[a] \in Ancestors(p) \cup {Root}
    BY AncestorsClosed DEF ClosedUp
  <2> QED
    BY <2>1, <1>1, <1>2
<1>4. Ancestors(p) \subseteq S
  <2>1. S \in SUBSET Dirs
    BY AncestorsClosed
  <2> QED
    BY <2>1, <1>2, <1>3, AncestorsLeast
<1>5. \A a \in {p} \cup Ancestors(p) : Parent[a] # Root
  BY <1>1, <1>4, AncestorsClosed
<1> QED
  BY <1>5, RootAssumption

LEMMA WithinFacts ==
    ASSUME NEW d \in Paths
    PROVE  /\ d \in Within(d) /\ Within(d) \subseteq Paths
           /\ \A e \in Ancestors(d) : e \in Paths /\ e \notin Within(d)
           /\ \A p \in Paths : \A e \in Ancestors(p) : e \in Within(d) => p \in Within(d)
<1>1. ASSUME NEW e \in Ancestors(d) PROVE e \in Paths /\ e \notin Within(d)
  <2>1. e \in Paths /\ e # d /\ Ancestors(e) \subseteq Ancestors(d)
    BY AncestorsTransitive, Acyclic
  <2> QED
    BY <2>1, Acyclic DEF Within
<1>2. ASSUME NEW p \in Paths, NEW e \in Ancestors(p), e \in Within(d) PROVE p \in Within(d)
  BY <1>2, AncestorsTransitive DEF Within
<1> QED
  BY <1>1, <1>2 DEF Within

--------------------------------------------------------------------------------
(* The inductive invariant of the acquisition.                             *)

IsPairs(f, S, T) == f \in [DOMAIN f -> T] /\ DOMAIN f \subseteq S

WalkType ==
    /\ src \subseteq Paths /\ changes \in 0..MaxChanges
    /\ ver \in [Nodes -> 1..(changes + 1)]
    /\ attempt \in 1..Attempts /\ result \in {"scanning", "acquired", "failed"}
    /\ stack \in Seq(Frame) /\ look \in [path : Nodes, ver : Versions]
    /\ IsPairs(entries, Paths, EntryType) /\ IsPairs(copies, Copyable, Versions)
    /\ profiles \subseteq Profiles /\ dirs \subseteq Dirs
    /\ start \in [src : SUBSET Paths, ver : [Nodes -> Versions]]

\* Versions only grow, and what has the version it had is still there.
VersionsInv ==
    /\ \A n \in Nodes : start.ver[n] <= ver[n]
    /\ \A p \in start.src : ver[p] = start.ver[p] => p \in src
    /\ \A p \in start.src : Ancestors(p) \subseteq start.src
    /\ \A p \in src : Ancestors(p) \subseteq src

\* A version that was read since the attempt began.
ReadSince(n, v) == start.ver[n] <= v /\ v <= ver[n]

\* The node under inspection is one that the directory on top has, or the root.
LookInv ==
    /\ look # NoNode =>
         /\ result = "scanning" /\ ReadSince(look.path, look.ver)
         /\ IF look.path = Root THEN stack = << >>
            ELSE stack # << >> /\ look.path \in Top.names \ Top.todo
    /\ result = "scanning" /\ stack = << >> => look # NoNode /\ look.path = Root
    /\ result # "scanning" => look = NoNode /\ Len(stack) <= 1 /\ (stack # << >> => Top.todo = {})

\* The frames go down from the root, each in a directory of the one before,
\* whose entry has its value; and of an unchanged directory a frame has all names.
FrameInv(i) ==
    /\ stack[i].todo \subseteq stack[i].names
    /\ \A q \in stack[i].names : Parent[q] = stack[i].dir
    /\ ReadSince(stack[i].dir, stack[i].ver)
    /\ ver[stack[i].dir] = stack[i].ver => Children(src, stack[i].dir) = stack[i].names
    /\ IF i = 1 THEN stack[i].dir = Root
       ELSE /\ stack[i].dir \in stack[i - 1].names \ stack[i - 1].todo
            /\ stack[i].dir \in DOMAIN entries /\ entries[stack[i].dir].state = "value"

FramesInv ==
    /\ \A i \in 1..Len(stack) : FrameInv(i)
    /\ \A i, j \in 1..Len(stack) : 1 < i /\ i < j => stack[i].dir \in Ancestors(stack[j].dir)

\* There are entries of those names of a frame that were inspected, and of
\* nothing below one that was not.
ListingInv ==
    /\ result = "scanning" /\ stack = << >> => DOMAIN entries = {}
    /\ result = "scanning" =>
         /\ \A i \in 1..Len(stack), q \in Paths : Parent[q] = stack[i].dir =>
              (q \in DOMAIN entries <=>
                 q \in stack[i].names /\ q \notin stack[i].todo /\ q # look.path)
         /\ \A p \in DOMAIN entries : entries[p].state # "absent"
    /\ \A p \in DOMAIN entries : result = "scanning" \/ entries[p].state = "value" =>
         \A d \in Ancestors(p) : d \in DOMAIN entries /\ entries[d].state = "value"

\* The Working Copy has the files that the entries call for, and unless a
\* directory was lost no directory but theirs.
CopyInv ==
    /\ CopiedEntries = DOMAIN copies
    /\ \A p \in DOMAIN copies : copies[p] = entries[p].ver /\ Ancestors(p) \subseteq dirs
    /\ (\A d \in DOMAIN entries \cap Dirs : entries[d].state = "value") =>
         dirs \subseteq AllowedWorkingDirectories

\* What is untouched is still to be read, or was acquired.
Acquired(p) ==
    /\ p \in DOMAIN entries /\ entries[p].state = "value"
    /\ p \in Copyable => p \in DOMAIN copies /\ copies[p] = start.ver[p]
Line(p) == {p} \cup Ancestors(p)
Ahead(p) ==
    \/ look.path \in Line(p)
    \/ \E i \in 1..Len(stack) : stack[i].todo \cap Line(p) # {}
SeenInv ==
    \A p \in Files \cap start.src : Untouched(p) =>
        \/ result = "failed" \/ (result = "scanning" /\ stack = << >>)
        \/ (result = "scanning" /\ Ahead(p))
        \/ Acquired(p)

AcquisitionInv ==
    WalkType /\ VersionsInv /\ LookInv /\ FramesInv /\ ListingInv /\ CopyInv /\ SeenInv

LEMMA AcquisitionInitInv == ASSUME Init PROVE AcquisitionInv
<1>1. WalkType
  <2>1. src \subseteq Paths /\ ver \in [Nodes -> 1..(changes + 1)] /\ changes \in 0..MaxChanges
    BY TreeAssumption DEF Init
  <2>2. look \in [path : Nodes, ver : Versions]
    BY TreeAssumption DEF Init, Nodes, Versions
  <2>3. start \in [src : SUBSET Paths, ver : [Nodes -> Versions]]
    BY <2>1, TreeAssumption DEF Init, Versions
  <2>4. IsPairs(entries, Paths, EntryType) /\ IsPairs(copies, Copyable, Versions)
    BY DEF Init, IsPairs, Empty
  <2> QED
    BY <2>1, <2>2, <2>3, <2>4 DEF Init, WalkType, Attempts
<1>2. start.src = src /\ start.ver = ver /\ \A n \in Nodes : ver[n] = 1
  BY DEF Init
<1>3. VersionsInv
  BY <1>1, <1>2 DEF Init, VersionsInv, Paths
<1>4. LookInv
  BY <1>2 DEF Init, LookInv, NoNode, ReadSince, Nodes
<1>5. FramesInv /\ ListingInv
  BY DEF Init, FramesInv, ListingInv, Empty
<1>6. CopyInv
  BY DEF Init, CopyInv, CopiedEntries, Empty
<1>7. SeenInv
  BY DEF Init, SeenInv
<1> QED
  BY <1>1, <1>3, <1>4, <1>5, <1>6, <1>7 DEF AcquisitionInv

--------------------------------------------------------------------------------
(* The browser.                                                            *)

\* What a file or directory that is made or removed leaves behind.
LEMMA ChangeInv ==
    ASSUME AcquisitionInv, NEW S \in SUBSET Paths, NEW touched \in SUBSET Nodes,
           Change(S, touched), \A p \in S : Ancestors(p) \subseteq S,
           \A p \in (S \ src) \cup (src \ S) : p \in touched /\ Parent[p] \in touched
    PROVE  AcquisitionInv'
<1> WalkType /\ VersionsInv
  BY DEF AcquisitionInv
<1>1. /\ src' = S /\ changes' = changes + 1 /\ changes < MaxChanges /\ result = "scanning"
      /\ ver' = [n \in Nodes |-> IF n \in touched THEN ver[n] + 1 ELSE ver[n]]
      /\ UNCHANGED <<attempt, stack, look, entries, profiles, copies, dirs, result, start>>
  BY DEF Change
<1>2. \A n \in Nodes : /\ ver[n] \in 1..(changes + 1) /\ start.ver[n] \in Nat
                       /\ ver[n] <= ver'[n] /\ (ver'[n] = ver[n] => n \notin touched)
  BY <1>1, TreeAssumption DEF WalkType, Versions
<1>3. WalkType'
  <2>1. ver' \in [Nodes -> 1..(changes' + 1)]
    BY <1>1, <1>2, TreeAssumption DEF WalkType
  <2>2. changes' \in 0..MaxChanges
    BY <1>1, TreeAssumption DEF WalkType
  <2> QED
    BY <1>1, <2>1, <2>2 DEF WalkType
<1>4. VersionsInv'
  <2>1. \A n \in Nodes : start'.ver[n] <= ver'[n]
    BY <1>1, <1>2 DEF VersionsInv, WalkType
  <2>2. ASSUME NEW p \in start'.src, ver'[p] = start'.ver[p] PROVE p \in src'
    <3>1. p \in Paths /\ p \in Nodes /\ start.ver[p] <= ver[p]
      BY <1>1 DEF WalkType, Nodes, VersionsInv
    <3>2. ver[p] = start.ver[p] /\ p \notin touched
      BY <1>1, <1>2, <2>2, <3>1
    <3> QED
      BY <1>1, <3>2, <2>2 DEF VersionsInv
  <2> QED
    BY <1>1, <2>1, <2>2 DEF VersionsInv
<1>5. \A n \in Nodes, v \in Nat : ReadSince(n, v) => ReadSince(n, v)'
  BY <1>1, <1>2 DEF ReadSince
<1>6. LookInv'
  <2>1. look.path \in Nodes /\ look.ver \in Nat
    BY DEF WalkType, Versions
  <2> QED
    BY <1>1, <1>5, <2>1 DEF AcquisitionInv, LookInv, Top
<1>7. FramesInv'
  <2> FramesInv
    BY DEF AcquisitionInv
  <2>0. stack' = stack
    BY <1>1
  <2> SUFFICES ASSUME NEW i \in 1..Len(stack) PROVE FrameInv(i)'
    BY <2>0 DEF FramesInv
  <2>1. FrameInv(i) /\ stack[i] \in Frame
    BY DEF FramesInv, WalkType
  <2>2. stack[i].dir \in Nodes /\ stack[i].ver \in Nat
    BY <2>1 DEF Frame, Nodes, Paths, Versions
  <2>3. ReadSince(stack[i].dir, stack[i].ver)'
    BY <1>1, <1>5, <2>1, <2>2 DEF FrameInv
  <2>4. ASSUME ver'[stack[i].dir] = stack[i].ver
        PROVE  Children(src', stack[i].dir) = stack[i].names
    <3>1. ver[stack[i].dir] = stack[i].ver /\ stack[i].dir \notin touched
      BY <1>2, <2>1, <2>2, <2>4 DEF FrameInv, ReadSince
    <3>2. Children(src', stack[i].dir) = Children(src, stack[i].dir)
      BY <1>1, <3>1 DEF Children
    <3> QED
      BY <3>1, <3>2, <2>1 DEF FrameInv
  <2> QED
    BY <1>1, <2>1, <2>3, <2>4 DEF FrameInv, Children
<1>8. ListingInv' /\ CopyInv'
  BY <1>1 DEF AcquisitionInv, ListingInv, CopyInv, CopiedEntries, AllowedWorkingDirectories
<1>9. SeenInv'
  <2> SUFFICES ASSUME NEW p \in Files \cap start.src, Untouched(p)'
               PROVE  stack = << >> \/ Ahead(p) \/ Acquired(p)
    BY <1>1 DEF SeenInv, Ahead, Acquired, Line
  <2>1. \A q \in {p} \cup Ancestors(p) : q \in Nodes /\ start.ver[q] <= ver[q]
    BY AncestorsClosed DEF Paths, Nodes, VersionsInv
  <2>2. \A q \in {p} \cup Ancestors(p) : ver[q] = start.ver[q]
    BY <1>1, <1>2, <2>1 DEF Untouched
  <2>3. Untouched(p)
    BY <2>2 DEF Untouched
  <2> QED
    BY <1>1, <2>3 DEF AcquisitionInv, SeenInv
<1> QED
  BY <1>3, <1>4, <1>6, <1>7, <1>8, <1>9 DEF AcquisitionInv

LEMMA BrowserInv == ASSUME AcquisitionInv, Browser PROVE AcquisitionInv'
<1> VersionsInv /\ src \subseteq Paths
  BY DEF AcquisitionInv, WalkType
<1>1. PICK p \in Paths : WriteFile(p) \/ CreateNode(p) \/ RemoveNode(p)
  BY DEF Browser
<1>2. p \in Nodes /\ Parent[p] \in Nodes
  BY ParentFacts DEF Nodes, Paths
<1>3. CASE WriteFile(p)
  BY <1>2, <1>3, ChangeInv DEF WriteFile, VersionsInv
<1>4. CASE CreateNode(p)
  <2> DEFINE S == src \cup {p}
  <2>1. S \in SUBSET Paths /\ \A q \in S : Ancestors(q) \subseteq S
    BY <1>4 DEF CreateNode, VersionsInv
  <2>2. Change(S, {p, Parent[p]}) /\ {p, Parent[p]} \in SUBSET Nodes
    BY <1>2, <1>4 DEF CreateNode
  <2>3. \A q \in (S \ src) \cup (src \ S) : q \in {p, Parent[p]} /\ Parent[q] \in {p, Parent[p]}
    OBVIOUS
  <2> HIDE DEF S
  <2> QED
    BY <2>1, <2>2, <2>3, ChangeInv
<1>5. CASE RemoveNode(p)
  <2> DEFINE S == src \ {p}
  <2>1. \A q \in S : p \notin Ancestors(q)
    BY <1>5, AncestorsHold DEF RemoveNode, Children, VersionsInv
  <2>2. S \in SUBSET Paths /\ \A q \in S : Ancestors(q) \subseteq S
    BY <2>1 DEF VersionsInv
  <2>3. Change(S, {p, Parent[p]}) /\ {p, Parent[p]} \in SUBSET Nodes
    BY <1>2, <1>5 DEF RemoveNode
  <2>4. \A q \in (S \ src) \cup (src \ S) : q \in {p, Parent[p]} /\ Parent[q] \in {p, Parent[p]}
    OBVIOUS
  <2> HIDE DEF S
  <2> QED
    BY <2>2, <2>3, <2>4, ChangeInv
<1> QED
  BY <1>1, <1>3, <1>4, <1>5

--------------------------------------------------------------------------------
(* The frames of the walk.                                                 *)

\* Each frame has its type.
LEMMA FrameType ==
    ASSUME WalkType, NEW i \in 1..Len(stack)
    PROVE  /\ stack[i] \in Frame /\ stack[i].dir \in Nodes /\ stack[i].ver \in Nat
           /\ stack[i].names \subseteq Paths /\ stack[i].todo \subseteq Paths
<1>1. stack[i] \in Frame
  BY DEF WalkType
<1>2. Versions \subseteq Nat /\ Dirs \cup {Root} \subseteq Nodes
  BY TreeAssumption DEF Versions, Nodes, Paths
<1> QED
  BY <1>1, <1>2 DEF Frame

LEMMA TopIsLast ==
    ASSUME WalkType, stack # << >>
    PROVE  Len(stack) \in 1..Len(stack) /\ Len(stack) \in Nat /\ Top = stack[Len(stack)]
  BY DEF WalkType, Top, Last

LEMMA TookFacts ==
    ASSUME WalkType, stack # << >>, NEW p, stack' = Took(p)
    PROVE  /\ stack' \in Seq(Frame) /\ Len(stack') = Len(stack)
           /\ \A i \in 1..Len(stack) :
                /\ stack'[i].dir = stack[i].dir /\ stack'[i].ver = stack[i].ver
                /\ stack'[i].names = stack[i].names
                /\ stack'[i].todo = IF i = Len(stack) THEN stack[i].todo \ {p} ELSE stack[i].todo
<1>1. stack \in Seq(Frame) /\ Len(stack) \in 1..Len(stack)
  BY TopIsLast DEF WalkType
<1> DEFINE f == [stack[Len(stack)] EXCEPT !.todo = @ \ {p}]
<1>2. /\ f \in Frame /\ f.dir = stack[Len(stack)].dir /\ f.ver = stack[Len(stack)].ver
      /\ f.names = stack[Len(stack)].names /\ f.todo = stack[Len(stack)].todo \ {p}
  BY <1>1, FrameType DEF Frame
<1>3. stack' = [stack EXCEPT ![Len(stack)] = f]
  BY DEF Took
<1> HIDE DEF f
<1>4. /\ stack' \in Seq(Frame) /\ Len(stack') = Len(stack)
      /\ \A i \in 1..Len(stack) : stack'[i] = IF i = Len(stack) THEN f ELSE stack[i]
  BY <1>1, <1>2, <1>3
<1> QED
  BY <1>2, <1>4

LEMMA PushFacts ==
    ASSUME WalkType, NEW d \in Dirs \cup {Root}, Push(d)
    PROVE  /\ stack' \in Seq(Frame) /\ Len(stack') = Len(stack) + 1 /\ Len(stack) \in Nat
           /\ \A i \in 1..Len(stack) : stack'[i] = stack[i]
           /\ stack'[Len(stack) + 1] =
                [dir |-> d, ver |-> look.ver, names |-> Children(src, d), todo |-> Children(src, d)]
<1> DEFINE f == [dir |-> d, ver |-> look.ver, names |-> Children(src, d),
                 todo |-> Children(src, d)]
<1>1. f \in Frame /\ stack \in Seq(Frame)
  BY DEF WalkType, Frame, Children
<1>2. stack' = Append(stack, f)
  BY DEF Push
<1> HIDE DEF f
<1>3. /\ stack' \in Seq(Frame) /\ Len(stack') = Len(stack) + 1 /\ Len(stack) \in Nat
      /\ \A i \in 1..Len(stack) : stack'[i] = stack[i]
      /\ stack'[Len(stack) + 1] = f
  BY <1>1, <1>2
<1> QED
  BY <1>3 DEF f

LEMMA FrontFacts ==
    ASSUME WalkType, Len(stack) > 1, stack' = Front(stack)
    PROVE  /\ stack' \in Seq(Frame) /\ Len(stack') = Len(stack) - 1 /\ Len(stack') \in Nat
           /\ stack # << >> /\ stack' # << >>
           /\ \A i \in 1..Len(stack') : i \in 1..Len(stack) /\ stack'[i] = stack[i]
<1>1. stack \in Seq(Frame) /\ Len(stack) \in Nat /\ stack' = SubSeq(stack, 1, Len(stack) - 1)
  BY DEF WalkType, Front
<1>2. /\ stack' \in Seq(Frame) /\ Len(stack') = Len(stack) - 1
      /\ \A i \in 1..(Len(stack) - 1) : stack'[i] = stack[i]
  BY <1>1
<1>3. stack # << >> /\ stack' # << >>
  <2>1. Len(stack') # 0 /\ Len(stack) # 0
    BY <1>1, <1>2
  <2> QED
    BY <2>1
<1>4. \A i \in 1..Len(stack') : i \in 1..Len(stack) /\ i \in 1..(Len(stack) - 1)
  BY <1>1, <1>2
<1>5. Len(stack') \in Nat
  BY <1>2
<1> QED
  BY <1>2, <1>3, <1>4, <1>5

\* What is named in frame n: the directories of the frames up to it are above.
LEMMA AboveName ==
    ASSUME WalkType, FramesInv, NEW n \in 1..Len(stack), NEW p \in stack[n].names
    PROVE  /\ p \in Paths /\ p \in Nodes /\ Parent[p] = stack[n].dir
           /\ \A i \in 1..n : (i = 1 /\ stack[i].dir = Root) \/ stack[i].dir \in Ancestors(p)
<1>1. p \in Paths /\ Parent[p] = stack[n].dir /\ FrameInv(n)
  BY FrameType DEF FramesInv, FrameInv
<1>2. \A i \in 1..n : i \in 1..Len(stack) /\ i <= n
  BY DEF WalkType
<1>3. CASE n = 1
  BY <1>1, <1>2, <1>3 DEF FrameInv, Nodes
<1>4. CASE n # 1
  <2>1. stack[n].dir \in stack[n - 1].names /\ n - 1 \in 1..Len(stack) /\ 1 < n /\ 1 \in 1..Len(stack)
    BY <1>1, <1>2, <1>4 DEF FrameInv, WalkType
  <2>2. stack[n].dir \in Paths /\ Parent[p] # Root
    BY <1>1, <2>1, FrameType, ParentFacts
  <2>3. Ancestors(p) = {stack[n].dir} \cup Ancestors(stack[n].dir)
    BY <1>1, <2>2, AncestorsStep
  <2>4. \A i \in 1..n : 1 < i => stack[i].dir \in Ancestors(p)
    BY <1>2, <2>3 DEF FramesInv
  <2>5. stack[1].dir = Root
    BY <2>1 DEF FramesInv, FrameInv
  <2> QED
    BY <1>1, <2>4, <2>5 DEF Nodes
<1> QED
  BY <1>3, <1>4

\* Frames are of different directories.
LEMMA FramesDiffer ==
    ASSUME WalkType, FramesInv, NEW i \in 1..Len(stack), NEW j \in 1..Len(stack), i # j
    PROVE  stack[i].dir # stack[j].dir
<1>1. ASSUME NEW k \in 1..Len(stack), NEW m \in 1..Len(stack), k < m
      PROVE  stack[k].dir # stack[m].dir
  <2>1. m # 1 /\ m - 1 \in 1..Len(stack) /\ k \in 1..(m - 1)
    BY <1>1 DEF WalkType
  <2>2. stack[m].dir \in stack[m - 1].names
    BY <2>1 DEF FramesInv, FrameInv
  <2>3. stack[m].dir \in Paths /\ (stack[k].dir = Root \/ stack[k].dir \in Ancestors(stack[m].dir))
    BY <2>1, <2>2, AboveName
  <2> QED
    BY <2>3, Acyclic, ParentFacts
<1>2. i < j \/ j < i
  BY DEF WalkType
<1> QED
  BY <1>1, <1>2

\* Frames that stay and whose directories keep their value.
LEMMA FramesKept ==
    ASSUME WalkType, FramesInv, UNCHANGED <<sourceVars, start>>,
           Len(stack') \in Nat, Len(stack') <= Len(stack),
           \A i \in 1..Len(stack') :
              /\ stack'[i].dir = stack[i].dir /\ stack'[i].ver = stack[i].ver
              /\ stack'[i].names = stack[i].names /\ stack'[i].todo \subseteq stack[i].todo,
           \A i \in 1..Len(stack') : i > 1 =>
              stack[i].dir \in DOMAIN entries' /\ entries'[stack[i].dir].state = "value"
    PROVE  FramesInv'
<1>1. Len(stack) \in Nat /\ \A i \in 1..Len(stack') : i \in 1..Len(stack)
  BY DEF WalkType
<1>2. ASSUME NEW i \in 1..Len(stack') PROVE FrameInv(i)'
  <2>1. FrameInv(i) /\ (i # 1 => i - 1 \in 1..Len(stack') /\ i > 1)
    BY <1>1 DEF FramesInv
  <2>2. \A n, v : ReadSince(n, v) => ReadSince(n, v)'
    BY DEF ReadSince, sourceVars
  <2>3. Children(src', stack[i].dir) = Children(src, stack[i].dir) /\ ver' = ver
    BY DEF Children, sourceVars
  <2>4. i # 1 => stack'[i].dir \in stack'[i - 1].names \ stack'[i - 1].todo
    BY <2>1 DEF FrameInv
  <2> QED
    BY <2>1, <2>2, <2>3, <2>4 DEF FrameInv
<1> QED
  BY <1>1, <1>2 DEF FramesInv

\* A frame for a name of the one on top, or for the root.
LEMMA FramesPushed ==
    ASSUME WalkType, FramesInv, UNCHANGED <<sourceVars, start>>, NEW d \in Dirs \cup {Root}, Push(d),
           ReadSince(d, look.ver),
           IF stack = << >> THEN d = Root
           ELSE /\ d \in Top.names \ Top.todo /\ d \in DOMAIN entries'
                /\ entries'[d].state = "value",
           \A i \in 1..Len(stack) : i > 1 =>
              stack[i].dir \in DOMAIN entries' /\ entries'[stack[i].dir].state = "value"
    PROVE  FramesInv'
<1> DEFINE n == Len(stack)
<1>1. /\ n \in Nat /\ Len(stack') = n + 1 /\ \A i \in 1..n : stack'[i] = stack[i]
      /\ stack'[n + 1] =
            [dir |-> d, ver |-> look.ver, names |-> Children(src, d), todo |-> Children(src, d)]
  BY PushFacts
<1>2. \A m, v : ReadSince(m, v) => ReadSince(m, v)'
  BY DEF ReadSince, sourceVars
<1>3. \A e : Children(src', e) = Children(src, e)
  BY DEF Children, sourceVars
<1>4. \A i \in 1..(n + 1) : i \in 1..n \/ i = n + 1
  BY <1>1
<1>5. \A i \in 1..n : i # 1 => i - 1 \in 1..n /\ i > 1
  BY <1>1
<1>6. ASSUME NEW i \in 1..n PROVE FrameInv(i)'
  <2>1. FrameInv(i)
    BY DEF FramesInv
  <2> QED
    BY <1>1, <1>2, <1>3, <1>5, <2>1 DEF FrameInv, sourceVars
<1>7. ASSUME NEW k, k = n + 1 PROVE FrameInv(k)'
  <2>1. k = 1 <=> stack = << >>
    BY <1>1, <1>7 DEF WalkType
  <2>2. stack # << >> => Top = stack[n] /\ n \in 1..n 
    BY TopIsLast
  <2>3. \A q \in Children(src, d) : Parent[q] = d
    BY DEF Children
  <2> QED
    <3>1. /\ stack'[k].dir = d /\ stack'[k].ver = look.ver
          /\ stack'[k].names = Children(src, d) /\ stack'[k].todo = Children(src, d)
      BY <1>1, <1>7
    <3>2. k # 1 => stack'[k - 1] = Top
      <4>1. k - 1 = n
        BY <1>1, <1>7
      <4>2. stack # << >> => stack'[n] = stack[n] /\ stack[n] = Top
        BY <1>1, <2>2
      <4> QED
        BY <2>1, <4>1, <4>2
    <3>3. /\ Children(src', d) = Children(src, d) 
          /\ start'.ver[d] <= look.ver /\ look.ver <= ver'[d]
      BY <1>3 DEF ReadSince, sourceVars
    <3> HIDE DEF n
    <3> QED
      BY <2>1, <2>3, <3>1, <3>2, <3>3 DEF FrameInv, ReadSince
<1>8. ASSUME NEW i \in 1..(n + 1), NEW j \in 1..(n + 1), 1 < i, i < j
      PROVE  stack'[i].dir \in Ancestors(stack'[j].dir)
  <2>1. i \in 1..n
    BY <1>1, <1>8
  <2>2. CASE j \in 1..n
    BY <1>1, <1>8, <2>1, <2>2 DEF FramesInv
  <2>3. CASE j = n + 1
    <3>1. stack # << >> /\ Top = stack[n] /\ n \in 1..n /\ i \in 1..n
      BY <2>1, <1>1, TopIsLast
    <3>2. d \in stack[n].names
      BY <3>1
    <3>3. stack[i].dir \in Ancestors(d)
      BY <1>8, <3>1, <3>2, AboveName
    <3> QED
      BY <1>1, <2>1, <2>3, <3>3
  <2> QED
    BY <1>4, <2>2, <2>3
<1>9. \A i \in 1..Len(stack') : FrameInv(i)'
  BY <1>1, <1>4, <1>6, <1>7
<1>10. \A i, j \in 1..Len(stack') : 1 < i /\ i < j => stack'[i].dir \in Ancestors(stack'[j].dir)
  BY <1>1, <1>8
<1> QED
  BY <1>9, <1>10 DEF FramesInv

--------------------------------------------------------------------------------
(* The entries of the walk.                                                *)

\* The directories above what a frame names have their values.
LEMMA AboveHasValue ==
    ASSUME WalkType, FramesInv, ListingInv, NEW n \in 1..Len(stack), NEW p \in stack[n].names
    PROVE  \A d \in Ancestors(p) : d \in DOMAIN entries /\ entries[d].state = "value"
<1>1. p \in Paths /\ Parent[p] = stack[n].dir
  BY AboveName
<1>2. CASE stack[n].dir = Root
  BY <1>1, <1>2, AncestorsOfTop
<1>3. CASE stack[n].dir # Root
  <2>1. /\ stack[n].dir \in DOMAIN entries /\ entries[stack[n].dir].state = "value"
        /\ Ancestors(p) = {stack[n].dir} \cup Ancestors(stack[n].dir)
    BY <1>1, <1>3, AncestorsStep DEF FramesInv, FrameInv
  <2> QED
    BY <2>1 DEF ListingInv
<1> QED
  BY <1>2, <1>3

\* What has not been inspected has no entry, nor has what is below it.
LEMMA NotInspected ==
    ASSUME WalkType, FramesInv, ListingInv, result = "scanning",
           NEW n \in 1..Len(stack), NEW p \in stack[n].names, p \in stack[n].todo \/ p = look.path
    PROVE  \A q \in Within(p) : q \notin DOMAIN entries
<1>1. p \in Paths /\ Parent[p] = stack[n].dir
  BY AboveName
<1>2. p \notin DOMAIN entries
  BY <1>1 DEF ListingInv
<1> QED
  BY <1>2 DEF Within, ListingInv

\* The entries after a step, of which those of frames 1..n tell what is there.
ListedTo(n, p) ==
    /\ \A i \in 1..n, q \in Paths : Parent[q] = stack[i].dir =>
          (q \in DOMAIN entries' <=> q \in stack[i].names /\ (q \notin stack[i].todo \/ q = p))
    /\ \A q \in DOMAIN entries' :
          /\ entries'[q].state # "absent"
          /\ \A d \in Ancestors(q) : d \in DOMAIN entries' /\ entries'[d].state = "value"
    /\ \A i \in 1..n : i > 1 =>
          stack[i].dir \in DOMAIN entries' /\ entries'[stack[i].dir].state = "value"

\* One more entry, of the node under inspection or of the next name.
LEMMA EntryAdded ==
    ASSUME WalkType, FramesInv, ListingInv, result = "scanning", stack # << >>,
           NEW p \in stack[Len(stack)].names,
           \/ look.path = p /\ p \notin stack[Len(stack)].todo
           \/ look = NoNode /\ p \in stack[Len(stack)].todo,
           NEW e \in EntryType, e.state # "absent", entries' = With(entries, p, e)
    PROVE  /\ p \in Paths /\ p \notin DOMAIN entries /\ IsPairs(entries, Paths, EntryType)'
           /\ DOMAIN entries' = DOMAIN entries \cup {p} /\ entries'[p] = e
           /\ \A q \in DOMAIN entries : entries'[q] = entries[q]
           /\ ListedTo(Len(stack), p)
<1> DEFINE n == Len(stack)
<1>1. n \in 1..n /\ n \in Nat
  BY TopIsLast
<1>2. p \in Paths /\ Parent[p] = stack[n].dir
  BY <1>1, AboveName
<1>3. p \notin DOMAIN entries
  <2>1. p \in Within(p)
    BY <1>2 DEF Within
  <2> QED
    BY <1>1, <2>1, NotInspected
<1>4. /\ DOMAIN entries' = DOMAIN entries \cup {p} /\ entries'[p] = e
      /\ \A q \in DOMAIN entries : entries'[q] = entries[q]
  BY <1>3 DEF With
<1>5. IsPairs(entries, Paths, EntryType)'
  <2>1. entries' \in [DOMAIN entries' -> EntryType]
    BY <1>4 DEF With, WalkType, IsPairs
  <2> QED
    BY <2>1, <1>2, <1>4 DEF WalkType, IsPairs
<1>6. \A i \in 1..n, q \in Paths : Parent[q] = stack[i].dir =>
          (q \in DOMAIN entries' <=> q \in stack[i].names /\ (q \notin stack[i].todo \/ q = p))
  <2> SUFFICES ASSUME NEW i \in 1..n, NEW q \in Paths, Parent[q] = stack[i].dir
               PROVE  q \in DOMAIN entries' <=>
                         q \in stack[i].names /\ (q \notin stack[i].todo \/ q = p)
    OBVIOUS
  <2>1. q \in DOMAIN entries <=> q \in stack[i].names /\ q \notin stack[i].todo /\ q # look.path
    BY DEF ListingInv
  <2>2. q # Root
    BY ParentFacts
  <2>3. CASE q = p
    <3>1. i = n
      BY <1>1, <1>2, <2>3, FramesDiffer
    <3> QED
      BY <2>3, <3>1, <1>4
  <2>4. CASE q # p
    BY <1>4, <2>1, <2>2, <2>4 DEF NoNode
  <2> QED
    BY <2>3, <2>4
<1>7. ASSUME NEW q \in DOMAIN entries'
      PROVE  /\ entries'[q].state # "absent"
             /\ \A d \in Ancestors(q) : d \in DOMAIN entries' /\ entries'[d].state = "value"
  <2>1. CASE q = p
    BY <1>1, <1>4, <2>1, AboveHasValue
  <2>2. CASE q \in DOMAIN entries
    BY <1>4, <2>2 DEF ListingInv
  <2> QED
    BY <1>4, <2>1, <2>2
<1>8. \A i \in 1..n : i > 1 =>
          stack[i].dir \in DOMAIN entries' /\ entries'[stack[i].dir].state = "value"
  BY <1>4 DEF FramesInv, FrameInv
<1> QED
  BY <1>2, <1>3, <1>4, <1>5, <1>6, <1>7, <1>8 DEF ListedTo

\* A directory that is given up takes with it all that is below, and nothing that
\* is above it or beside.
LEMMA DirectoryLost ==
    ASSUME WalkType, FramesInv, ListingInv, result = "scanning",
           NEW n \in 1..Len(stack), NEW d \in stack[n].names, d \in Dirs, d \notin stack[n].todo,
           look = NoNode \/ look.path = d, Discard(d)
    PROVE  /\ d \in Paths /\ IsPairs(entries, Paths, EntryType)'
           /\ DOMAIN entries' = (DOMAIN entries \ Within(d)) \cup {d}
           /\ entries'[d] = Unavailable("dir")
           /\ \A q \in DOMAIN entries \ Within(d) : entries'[q] = entries[q]
           /\ DOMAIN copies' = DOMAIN copies \ Within(d)
           /\ \A q \in DOMAIN copies \ Within(d) : copies'[q] = copies[q]
           /\ dirs' = dirs \ Within(d)
           /\ ListedTo(n, d)
<1>1. d \in Paths /\ Parent[d] = stack[n].dir /\ n \in Nat
      /\ \A i \in 1..n :
           /\ i \in 1..Len(stack)
           /\ (i = 1 /\ stack[i].dir = Root) \/ stack[i].dir \in Ancestors(d)
  BY AboveName DEF WalkType
<1>2. d \in Within(d)
  BY <1>1 DEF Within
<1>3. /\ DOMAIN entries' = (DOMAIN entries \ Within(d)) \cup {d}
      /\ entries'[d] = Unavailable("dir")
      /\ \A q \in DOMAIN entries \ Within(d) : entries'[q] = entries[q]
      /\ DOMAIN copies' = DOMAIN copies \ Within(d)
      /\ \A q \in DOMAIN copies \ Within(d) : copies'[q] = copies[q]
      /\ dirs' = dirs \ Within(d)
  BY <1>2 DEF Discard, With, Without
<1>4. Unavailable("dir") \in EntryType /\ Unavailable("dir").state = "unavailable"
  BY TreeAssumption DEF Unavailable, Entry, EntryType, Versions
<1>5. IsPairs(entries, Paths, EntryType)'
  <2>1. entries' \in [DOMAIN entries' -> EntryType]
    <3>1. \A q \in DOMAIN entries' : entries'[q] \in EntryType
      BY <1>3, <1>4 DEF WalkType, IsPairs
    <3> QED
      BY <3>1 DEF Discard, With
  <2> QED
    BY <2>1, <1>1, <1>3 DEF WalkType, IsPairs
<1>6. \A i \in 1..n, q \in Paths : Parent[q] = stack[i].dir =>
          (q \in DOMAIN entries' <=> q \in stack[i].names /\ (q \notin stack[i].todo \/ q = d))
  <2> SUFFICES ASSUME NEW i \in 1..n, NEW q \in Paths, Parent[q] = stack[i].dir
               PROVE  q \in DOMAIN entries' <=>
                         q \in stack[i].names /\ (q \notin stack[i].todo \/ q = d)
    OBVIOUS
  <2>1. q \in DOMAIN entries <=> q \in stack[i].names /\ q \notin stack[i].todo /\ q # look.path
    BY <1>1 DEF ListingInv
  <2>2. q # Root
    BY ParentFacts
  <2>3. CASE q = d
    <3>1. i = n
      BY <1>1, <2>3, FramesDiffer
    <3> QED
      BY <2>3, <3>1, <1>3
  <2>4. CASE q # d
    <3>1. d \notin Ancestors(q)
      <4>1. CASE Parent[q] = Root
        BY <4>1, AncestorsOfTop
      <4>2. CASE Parent[q] # Root
        <5>1. Parent[q] \in Ancestors(d) /\ Ancestors(q) = {Parent[q]} \cup Ancestors(Parent[q])
          BY <1>1, <4>2, AncestorsStep
        <5>2. Parent[q] # d /\ Ancestors(Parent[q]) \subseteq Ancestors(d) /\ d \notin Ancestors(d)
          BY <1>1, <5>1, AncestorsTransitive, Acyclic
        <5> QED
          BY <5>1, <5>2
      <4> QED
        BY <4>1, <4>2
    <3>2. q \notin Within(d)
      BY <2>4, <3>1 DEF Within
    <3> QED
      BY <1>3, <2>1, <2>2, <2>4, <3>2 DEF NoNode
  <2> QED
    BY <2>3, <2>4
<1>7. ASSUME NEW e \in DOMAIN entries, entries[e].state = "value", e \notin Within(d)
      PROVE  e \in DOMAIN entries' /\ entries'[e].state = "value"
  BY <1>3, <1>7
<1>8. ASSUME NEW q \in DOMAIN entries'
      PROVE  /\ entries'[q].state # "absent"
             /\ \A e \in Ancestors(q) : e \in DOMAIN entries' /\ entries'[e].state = "value"
  <2>1. CASE q = d
    <3>1. \A e \in Ancestors(d) : e \in DOMAIN entries /\ entries[e].state = "value" /\ e \notin Within(d)
      BY <1>1, AboveHasValue, WithinFacts
    <3> QED
      BY <1>3, <1>4, <1>7, <2>1, <3>1
  <2>2. CASE q \in DOMAIN entries \ Within(d)
    <3>1. q \in Paths /\ \A e \in Ancestors(q) : e \notin Within(d)
      BY <1>1, <2>2, WithinFacts DEF WalkType, IsPairs
    <3>2. /\ entries[q].state # "absent"
          /\ \A e \in Ancestors(q) : e \in DOMAIN entries /\ entries[e].state = "value"
      BY <2>2 DEF ListingInv
    <3> QED
      BY <1>3, <1>7, <2>2, <3>1, <3>2
  <2> QED
    BY <1>3, <2>1, <2>2
<1>9. ASSUME NEW i \in 1..n, i > 1
      PROVE  stack[i].dir \in DOMAIN entries' /\ entries'[stack[i].dir].state = "value"
  <2>1. stack[i].dir \in DOMAIN entries /\ entries[stack[i].dir].state = "value"
    <3>1. i \in 1..Len(stack) /\ i # 1
      BY <1>1, <1>9
    <3>2. FrameInv(i)
      BY <3>1 DEF FramesInv
    <3> QED
      BY <3>1, <3>2 DEF FrameInv
  <2>2. stack[i].dir \in Ancestors(d)
    BY <1>1, <1>9
  <2> QED
    BY <1>1, <1>7, <2>1, <2>2, WithinFacts
<1> QED
  BY <1>1, <1>3, <1>5, <1>6, <1>8, <1>9 DEF ListedTo

\* What ListedTo says is what the invariant does, when frames 1..n remain.
LEMMA ListingAfter ==
    ASSUME NEW n \in Nat, NEW p, ListedTo(n, p), n # 0, look' = NoNode,
           result' = "scanning", Len(stack') = n, stack' # << >>,
           \A i \in 1..n :
              /\ stack'[i].dir = stack[i].dir /\ stack'[i].names = stack[i].names
              /\ \A q \in Paths : Parent[q] = stack[i].dir =>
                    (q \notin stack'[i].todo <=> q \notin stack[i].todo \/ q = p)
    PROVE  ListingInv'
<1>1. \A i \in 1..Len(stack'), q \in Paths : Parent[q] = stack'[i].dir =>
         (q \in DOMAIN entries' <=>
            q \in stack'[i].names /\ q \notin stack'[i].todo /\ q # look'.path)
  BY ParentFacts DEF ListedTo, NoNode
<1> QED
  BY <1>1 DEF ListedTo, ListingInv

\* The node that is looked at is named by the frame on top.
LEMMA LookedAt ==
    ASSUME AcquisitionInv, look # NoNode, look.path # Root
    PROVE  /\ result = "scanning" /\ stack # << >> /\ Top = stack[Len(stack)]
           /\ Len(stack) \in 1..Len(stack)
           /\ look.path \in Paths /\ look.path \in stack[Len(stack)].names
           /\ look.path \notin stack[Len(stack)].todo
           /\ Parent[look.path] = stack[Len(stack)].dir
           /\ look.ver \in Nat /\ ReadSince(look.path, look.ver)
<1>1. WalkType /\ LookInv /\ FramesInv
  BY DEF AcquisitionInv
<1>2. stack # << >> /\ result = "scanning" /\ look.path \in Top.names \ Top.todo
      /\ ReadSince(look.path, look.ver)
  BY <1>1 DEF LookInv
<1>3. Top = stack[Len(stack)] /\ Len(stack) \in 1..Len(stack)
  BY <1>1, <1>2, TopIsLast
<1>4. look.ver \in Nat
  BY <1>1, TreeAssumption DEF WalkType, Versions
<1> QED
  BY <1>1, <1>2, <1>3, <1>4, AboveName

\* So is the one that comes next.
LEMMA ComesNext ==
    ASSUME AcquisitionInv, look = NoNode, stack # << >>, NEW p, NextName(p)
    PROVE  /\ result = "scanning" /\ Top = stack[Len(stack)]
           /\ Len(stack) \in 1..Len(stack)
           /\ p \in Paths /\ p \in Nodes /\ p # Root
           /\ p \in stack[Len(stack)].todo /\ p \in stack[Len(stack)].names
           /\ Parent[p] = stack[Len(stack)].dir
<1>1. WalkType /\ LookInv /\ FramesInv
  BY DEF AcquisitionInv
<1>2. Top = stack[Len(stack)] /\ Len(stack) \in 1..Len(stack) /\ p \in Top.todo
  BY <1>1, TopIsLast DEF NextName
<1>3. p \in stack[Len(stack)].names
  BY <1>1, <1>2 DEF FramesInv, FrameInv
<1> QED
  BY <1>1, <1>2, <1>3, AboveName, ParentFacts DEF LookInv

LEMMA UntouchedFacts ==
    ASSUME WalkType, VersionsInv, NEW p \in Files \cap start.src, Untouched(p)
    PROVE  /\ p \in Paths /\ p \in Line(p) /\ Root \notin Line(p)
           /\ \A q \in Line(p) :
                /\ q \in Paths /\ q \in src /\ q \notin Faulty
                /\ q \in start.src /\ ver[q] = start.ver[q]
                /\ \A v \in Nat : ReadSince(q, v) => v = ver[q]
                /\ q \in Files => q = p
<1>1. p \in Paths /\ Ancestors(p) \subseteq Paths /\ Ancestors(p) \subseteq Dirs
  BY AncestorsClosed DEF Paths
<1>2. ASSUME NEW q \in Line(p)
      PROVE  /\ q \in Paths /\ q \in src /\ q \notin Faulty
             /\ q \in start.src /\ ver[q] = start.ver[q]
             /\ q \in Files => q = p
  <2>1. q \in Paths /\ (q \in Files => q = p) /\ q \in start.src
    BY <1>1, ParentFacts DEF Line, VersionsInv
  <2>2. q \notin Faulty /\ ver[q] = start.ver[q]
    BY DEF Line, Untouched
  <2> QED
    BY <2>1, <2>2 DEF VersionsInv
<1>3. \A q \in Line(p), v \in Nat : ReadSince(q, v) => v = ver[q]
  <2>1. \A q \in Line(p) : ver[q] \in Nat
    BY <1>2, TreeAssumption DEF WalkType, Nodes
  <2> QED
    BY <1>2, <2>1 DEF ReadSince
<1> QED
  BY <1>1, <1>2, <1>3, TreeAssumption DEF Line

\* The versions do not change while the walk goes on.
LEMMA VersionsKept ==
    ASSUME VersionsInv, UNCHANGED <<sourceVars, start>>
    PROVE  VersionsInv'
  BY DEF VersionsInv, sourceVars

--------------------------------------------------------------------------------
(* The steps of the walk.                                                  *)

LEMMA LstatInv == ASSUME AcquisitionInv, NEW p \in Paths, Lstat(p) PROVE AcquisitionInv'
<1> WalkType /\ VersionsInv /\ LookInv /\ FramesInv /\ ListingInv /\ CopyInv /\ SeenInv
  BY DEF AcquisitionInv
<1> DEFINE n == Len(stack)
<1>1. /\ look = NoNode /\ stack # << >> /\ NextName(p) /\ stack' = Took(p)
      /\ look' = [path |-> p, ver |-> ver[p]]
      /\ UNCHANGED <<sourceVars, attempt, entries, profiles, copies, dirs, result, start>>
  BY DEF Lstat
<1>2. /\ result = "scanning" /\ n \in 1..n /\ p \in Nodes /\ p # Root
      /\ p \in stack[n].todo /\ p \in stack[n].names /\ Parent[p] = stack[n].dir
  BY <1>1, ComesNext
<1>3. /\ stack' \in Seq(Frame) /\ Len(stack') = n /\ n \in Nat
      /\ \A i \in 1..n :
           /\ stack'[i].dir = stack[i].dir /\ stack'[i].ver = stack[i].ver
           /\ stack'[i].names = stack[i].names
           /\ stack'[i].todo = IF i = n THEN stack[i].todo \ {p} ELSE stack[i].todo
  BY <1>1, TookFacts, TopIsLast
<1>4. stack' # << >> /\ Top' = stack'[n]
  <2>1. Len(stack') # 0
    BY <1>2, <1>3
  <2> QED
    BY <1>3, <2>1 DEF Top, Last
<1>5. ver[p] \in 1..(changes + 1) /\ start.ver[p] <= ver[p] /\ ver[p] \in Versions /\ ver[p] \in Nat
  BY <1>2, TreeAssumption DEF WalkType, VersionsInv, Versions
<1>6. WalkType'
  BY <1>1, <1>2, <1>3, <1>5 DEF WalkType, sourceVars, IsPairs
<1>7. LookInv'
  <2>1. Top'.names = stack[n].names /\ Top'.todo = stack[n].todo \ {p}
    BY <1>2, <1>3, <1>4
  <2>2. look'.path = p /\ look'.ver = ver[p] /\ ver' = ver /\ start' = start /\ result' = result
    BY <1>1 DEF sourceVars
  <2> QED
    BY <1>2, <1>4, <1>5, <2>1, <2>2 DEF LookInv, ReadSince
<1>8. FramesInv'
  <2>1. \A i \in 1..n : i > 1 => stack[i].dir \in DOMAIN entries' /\ entries'[stack[i].dir].state = "value"
    BY <1>1 DEF FramesInv, FrameInv
  <2>2. /\ Len(stack') \in Nat /\ Len(stack') <= Len(stack)
        /\ \A i \in 1..Len(stack') :
             /\ stack'[i].dir = stack[i].dir /\ stack'[i].ver = stack[i].ver
             /\ stack'[i].names = stack[i].names /\ stack'[i].todo \subseteq stack[i].todo
    <3>1. \A i \in 1..n : stack'[i].todo \subseteq stack[i].todo
      BY <1>3
    <3>2. Len(stack') \in Nat /\ Len(stack') <= Len(stack) /\ 1..Len(stack') = 1..n
      BY <1>3
    <3> QED
      BY <1>3, <3>1, <3>2
  <2> QED
    BY <1>1, <1>3, <2>1, <2>2, FramesKept
<1>9. ListingInv'
  <2>1. ASSUME NEW i \in 1..n, NEW q \in Paths, Parent[q] = stack[i].dir
        PROVE  q \in DOMAIN entries <=>
                  q \in stack'[i].names /\ q \notin stack'[i].todo /\ q # p
    <3>1. q \in DOMAIN entries <=> q \in stack[i].names /\ q \notin stack[i].todo
      BY <1>1, <1>2, <2>1, ParentFacts DEF ListingInv, NoNode
    <3>2. q = p => i = n
      BY <1>2, <2>1, FramesDiffer
    <3> QED
      BY <1>2, <1>3, <3>1, <3>2
  <2> QED
    <3>1. /\ \A i \in 1..Len(stack'), q \in Paths : Parent[q] = stack'[i].dir =>
                (q \in DOMAIN entries <=>
                   q \in stack'[i].names /\ q \notin stack'[i].todo /\ q # look'.path)
          /\ entries' = entries /\ result' = result
      <4>1. 1..Len(stack') = 1..n /\ look'.path = p /\ \A i \in 1..n : stack'[i].dir = stack[i].dir
        BY <1>1, <1>3
      <4> HIDE DEF n
      <4> QED
        BY <1>1, <2>1, <4>1
    <3> QED
      BY <1>4, <3>1 DEF ListingInv
<1>10. CopyInv'
  BY <1>1 DEF CopyInv, CopiedEntries, AllowedWorkingDirectories
<1>11. SeenInv'
  <2> SUFFICES ASSUME NEW q \in Files \cap start.src, Untouched(q) PROVE Ahead(q)' \/ Acquired(q)'
    BY <1>1, <1>2 DEF SeenInv, Untouched, sourceVars
  <2>1. CASE Acquired(q)
    BY <1>1, <2>1 DEF Acquired
  <2>2. CASE Ahead(q)
    <3>1. look.path \notin Line(q)
      BY <1>1, UntouchedFacts DEF NoNode
    <3>2. PICK i \in 1..n : stack[i].todo \cap Line(q) # {}
      BY <2>2, <3>1 DEF Ahead
    <3>3. p \in Line(q) \/ stack'[i].todo \cap Line(q) # {}
      BY <1>3, <3>2
    <3> QED
      BY <1>1, <1>3, <3>3 DEF Ahead, Line
  <2> QED
    BY <1>1, <1>2, <2>1, <2>2 DEF SeenInv
<1> QED
  BY <1>1, <1>6, <1>7, <1>8, <1>9, <1>10, <1>11, VersionsKept DEF AcquisitionInv

\* An entry without a copy leaves the copied ones as they are.
LEMMA CopiedKept ==
    ASSUME CopyInv, NEW p, p \notin DOMAIN entries, DOMAIN entries' = DOMAIN entries \cup {p},
           \A q \in DOMAIN entries : entries'[q] = entries[q], ~entries'[p].copied,
           copies' = copies
    PROVE  /\ CopiedEntries' = CopiedEntries
           /\ AllowedWorkingDirectories' = AllowedWorkingDirectories
           /\ CopiedEntries' = DOMAIN copies'
           /\ \A q \in DOMAIN copies' : copies'[q] = entries'[q].ver
           /\ (\A d \in DOMAIN entries' \cap Dirs : entries'[d].state = "value") =>
                 dirs \subseteq AllowedWorkingDirectories
<1>1. CopiedEntries' = CopiedEntries /\ CopiedEntries = DOMAIN copies
  BY DEF CopyInv, CopiedEntries
<1>2. AllowedWorkingDirectories' = AllowedWorkingDirectories
  BY <1>1 DEF AllowedWorkingDirectories
<1>3. \A q \in DOMAIN copies' : copies'[q] = entries'[q].ver
  BY <1>1 DEF CopyInv, CopiedEntries
<1> QED
  BY <1>1, <1>2, <1>3 DEF CopyInv

\* A step that ends the inspection of p, which frames 1..n stay for.
LEMMA InspectedInv ==
    ASSUME AcquisitionInv, UNCHANGED <<sourceVars, start, result>>,
           result = "scanning", look' = NoNode, stack # << >>,
           NEW p \in stack[Len(stack)].names, ListedTo(Len(stack), p),
           stack' \in Seq(Frame), Len(stack') = Len(stack),
           \A i \in 1..Len(stack) :
              /\ stack'[i].dir = stack[i].dir /\ stack'[i].ver = stack[i].ver
              /\ stack'[i].names = stack[i].names
              /\ stack'[i].todo = IF i = Len(stack) THEN stack[i].todo \ {p} ELSE stack[i].todo
    PROVE  VersionsInv' /\ LookInv' /\ FramesInv' /\ ListingInv'
<1> WalkType /\ VersionsInv /\ FramesInv
  BY DEF AcquisitionInv
<1> DEFINE n == Len(stack)
<1>1. n \in Nat /\ n \in 1..n /\ Len(stack') # 0
  BY TopIsLast
<1>2. stack' # << >>
  BY <1>1
<1>3. LookInv'
  BY <1>2 DEF LookInv
<1>4. FramesInv'
  <2>1. \A i \in 1..n : i > 1 => stack[i].dir \in DOMAIN entries' /\ entries'[stack[i].dir].state = "value"
    BY DEF ListedTo
  <2>2. \A i \in 1..n : stack'[i].todo \subseteq stack[i].todo
    OBVIOUS
  <2>3. Len(stack') \in Nat /\ Len(stack') <= Len(stack) /\ 1..Len(stack') = 1..n
    BY <1>1
  <2> QED
    BY <2>1, <2>2, <2>3, FramesKept
<1>5. ListingInv'
  <2>1. Parent[p] = stack[n].dir
    BY <1>1, AboveName
  <2>2. ASSUME NEW i \in 1..n, NEW q \in Paths, Parent[q] = stack[i].dir
        PROVE  q \notin stack'[i].todo <=> q \notin stack[i].todo \/ q = p
    <3>1. q = p => i = n
      BY <1>1, <2>1, <2>2, FramesDiffer
    <3> QED
      BY <3>1
  <2> QED
    BY <1>1, <1>2, <2>2, ListingAfter
<1> QED
  BY <1>3, <1>4, <1>5, VersionsKept

LEMMA LstatFailsInv == ASSUME AcquisitionInv, NEW p \in Paths, LstatFails(p) PROVE AcquisitionInv'
<1> WalkType /\ VersionsInv /\ LookInv /\ FramesInv /\ ListingInv /\ CopyInv /\ SeenInv
  BY DEF AcquisitionInv
<1> DEFINE n == Len(stack)
           e == Unavailable("file")
<1>1. /\ look = NoNode /\ stack # << >> /\ NextName(p) /\ stack' = Took(p)
      /\ entries' = With(entries, p, e) /\ (p \notin src \/ p \in Faulty)
      /\ UNCHANGED <<sourceVars, attempt, look, profiles, copies, dirs, result, start>>
  BY DEF LstatFails
<1>2. /\ result = "scanning" /\ n \in 1..n /\ p \in Paths
      /\ p \in stack[n].todo /\ p \in stack[n].names
  BY <1>1, ComesNext
<1>3. /\ stack' \in Seq(Frame) /\ Len(stack') = n
      /\ \A i \in 1..n :
           /\ stack'[i].dir = stack[i].dir /\ stack'[i].ver = stack[i].ver
           /\ stack'[i].names = stack[i].names
           /\ stack'[i].todo = IF i = n THEN stack[i].todo \ {p} ELSE stack[i].todo
  BY <1>1, TookFacts
<1>4. e \in EntryType /\ e.state = "unavailable" /\ ~e.copied
  BY TreeAssumption DEF Unavailable, Entry, EntryType, Versions
<1> HIDE DEF e
<1>5. /\ p \notin DOMAIN entries /\ IsPairs(entries, Paths, EntryType)'
      /\ DOMAIN entries' = DOMAIN entries \cup {p} /\ entries'[p] = e
      /\ \A q \in DOMAIN entries : entries'[q] = entries[q]
      /\ ListedTo(Len(stack), p)
  BY <1>1, <1>2, <1>4, EntryAdded
<1>6. WalkType'
  BY <1>1, <1>3, <1>5 DEF WalkType, sourceVars, IsPairs
<1>7. VersionsInv' /\ LookInv' /\ FramesInv' /\ ListingInv'
  BY <1>1, <1>2, <1>3, <1>5, InspectedInv
<1>8. CopyInv'
  BY <1>1, <1>4, <1>5, CopiedKept DEF CopyInv
<1>9. SeenInv'
  <2> SUFFICES ASSUME NEW q \in Files \cap start.src, Untouched(q) PROVE Ahead(q)' \/ Acquired(q)'
    BY <1>1, <1>2 DEF SeenInv, Untouched, sourceVars
  <2>1. CASE Acquired(q)
    BY <1>1, <1>5, <2>1 DEF Acquired
  <2>2. CASE Ahead(q)
    <3>1. look.path \notin Line(q) /\ p \notin Line(q)
      BY <1>1, UntouchedFacts DEF NoNode
    <3>2. PICK i \in 1..n : stack[i].todo \cap Line(q) # {}
      BY <2>2, <3>1 DEF Ahead
    <3>3. stack'[i].todo \cap Line(q) # {}
      BY <1>3, <3>1, <3>2
    <3> QED
      BY <1>1, <1>3, <3>3 DEF Ahead, Line
  <2> QED
    BY <1>1, <1>2, <2>1, <2>2 DEF SeenInv
<1> QED
  BY <1>6, <1>7, <1>8, <1>9 DEF AcquisitionInv

\* What was ahead stays so when a file is dealt with, but for that file.
LEMMA AheadOfFile ==
    ASSUME WalkType, VersionsInv, SeenInv, NEW q \in Files \cap start.src, Untouched(q),
           look.path \in Files, q # look.path, stack # << >>, result = "scanning", stack' = stack
    PROVE  Ahead(q)' \/ Acquired(q)
<1>1. look.path \notin Line(q)
  BY UntouchedFacts
<1>2. Ahead(q) => Ahead(q)'
  BY <1>1 DEF Ahead, Line
<1> QED
  BY <1>2 DEF SeenInv

\* An untouched file that is looked at is there as it was at the start.
LEMMA LookIsCurrent ==
    ASSUME WalkType, VersionsInv, NEW q \in Files \cap start.src, Untouched(q),
           look.path \in Line(q), ReadSince(look.path, look.ver), look.ver \in Nat
    PROVE  look.path \in src /\ look.path \notin Faulty /\ look.ver = ver[look.path]
           /\ ver[look.path] = start.ver[look.path]
  BY UntouchedFacts

LEMMA ReadFileInv == ASSUME AcquisitionInv, NEW p \in Paths, ReadFile(p) PROVE AcquisitionInv'
<1> WalkType /\ VersionsInv /\ LookInv /\ FramesInv /\ ListingInv /\ CopyInv /\ SeenInv
  BY DEF AcquisitionInv
<1> DEFINE n == Len(stack)
           b == p \in Copyable
           e == Entry("value", "file", b, look.ver)
<1>1. /\ look.path = p /\ p \in Files /\ p \in src /\ ver[p] = look.ver
      /\ entries' = With(entries, p, e) /\ look' = NoNode
      /\ UNCHANGED <<sourceVars, attempt, stack, profiles, result, start>>
  BY DEF ReadFile, Stable
<1>2. /\ p # Root /\ look # NoNode
  BY <1>1, ParentFacts DEF NoNode
<1>3. /\ result = "scanning" /\ stack # << >> /\ n \in 1..n
      /\ p \in stack[n].names /\ p \notin stack[n].todo
      /\ look.ver \in Nat /\ ReadSince(p, look.ver)
  BY <1>1, <1>2, LookedAt
<1>4. e \in EntryType /\ e.state = "value" /\ e.copied = b /\ e.ver = look.ver
  <2>1. b \in BOOLEAN /\ look.ver \in Versions
    BY DEF WalkType
  <2> HIDE DEF b
  <2> QED
    BY <2>1 DEF Entry, EntryType
<1>5. \/ b /\ copies' = With(copies, p, ver[p]) /\ dirs' = dirs \cup Ancestors(p)
      \/ ~b /\ copies' = copies /\ dirs' = dirs
  BY DEF ReadFile
<1>6. /\ Ancestors(p) \subseteq Dirs /\ ver[p] \in Versions /\ (b => p \in Copyable)
  BY <1>1, AncestorsClosed DEF WalkType
<1> HIDE DEF b, e
<1>7. /\ p \notin DOMAIN entries /\ IsPairs(entries, Paths, EntryType)'
      /\ DOMAIN entries' = DOMAIN entries \cup {p} /\ entries'[p] = e
      /\ \A q \in DOMAIN entries : entries'[q] = entries[q]
      /\ ListedTo(Len(stack), p)
  BY <1>1, <1>3, <1>4, EntryAdded
<1>8. /\ p \notin DOMAIN copies
      /\ b => /\ DOMAIN copies' = DOMAIN copies \cup {p} /\ copies'[p] = ver[p]
              /\ \A q \in DOMAIN copies : copies'[q] = copies[q]
  <2>1. p \notin DOMAIN copies
    BY <1>7 DEF CopyInv, CopiedEntries
  <2> QED
    BY <1>5, <2>1 DEF With
<1>9. WalkType'
  <2>1. IsPairs(copies, Copyable, Versions)'
    <3>1. CASE b
      <4>1. copies' \in [DOMAIN copies' -> Versions]
        BY <1>5, <1>6, <1>8, <3>1 DEF With, WalkType, IsPairs
      <4> QED
        BY <1>6, <1>8, <3>1, <4>1 DEF WalkType, IsPairs
    <3>2. CASE ~b
      BY <1>5, <3>2 DEF WalkType, IsPairs
    <3> QED
      BY <3>1, <3>2
  <2>2. look' \in [path : Nodes, ver : Versions]
    BY <1>1, TreeAssumption DEF NoNode, Nodes, Versions
  <2> QED
    BY <1>1, <1>5, <1>6, <1>7, <2>1, <2>2 DEF WalkType, sourceVars
<1>10. VersionsInv' /\ LookInv' /\ FramesInv' /\ ListingInv'
  <2>1. stack' = stack /\ stack \in Seq(Frame) /\ stack[n].todo \ {p} = stack[n].todo
    BY <1>1, <1>3 DEF WalkType
  <2> QED
    BY <1>1, <1>3, <1>7, <2>1, InspectedInv
<1>11. CopyInv'
  <2>1. CASE ~b
    BY <1>4, <1>5, <1>7, <2>1, CopiedKept DEF CopyInv
  <2>2. CASE b
    <3>1. CopiedEntries' = CopiedEntries \cup {p}
      BY <1>4, <1>7, <2>2 DEF CopiedEntries
    <3>2. CopiedEntries' = DOMAIN copies' /\ p \in CopiedEntries'
      BY <1>8, <2>2, <3>1 DEF CopyInv
    <3>3. \A q \in DOMAIN copies' : copies'[q] = entries'[q].ver /\ Ancestors(q) \subseteq dirs'
      BY <1>1, <1>4, <1>5, <1>7, <1>8, <2>2 DEF CopyInv, CopiedEntries
    <3>4. (\A d \in DOMAIN entries' \cap Dirs : entries'[d].state = "value") =>
             dirs' \subseteq AllowedWorkingDirectories'
      BY <1>5, <1>7, <2>2, <3>1, <3>2 DEF CopyInv, AllowedWorkingDirectories
    <3> QED
      BY <3>2, <3>3, <3>4 DEF CopyInv
  <2> QED
    BY <2>1, <2>2
<1>12. SeenInv'
  <2> SUFFICES ASSUME NEW q \in Files \cap start.src, Untouched(q) PROVE Ahead(q)' \/ Acquired(q)'
    BY <1>1, <1>3 DEF SeenInv, Untouched, sourceVars
  <2>1. CASE q = p
    <3>1. look.ver = start.ver[p]
      BY <1>1, <1>3, <2>1, UntouchedFacts, LookIsCurrent
    <3> QED
      BY <1>1, <1>4, <1>7, <1>8, <2>1, <3>1 DEF Acquired, b
  <2>2. CASE q # p
    <3>1. Ahead(q)' \/ Acquired(q)
      BY <1>1, <1>3, <2>2, AheadOfFile
    <3>2. Acquired(q) => Acquired(q)'
      BY <1>1, <1>5, <1>7, <1>8, <2>2 DEF Acquired
    <3> QED
      BY <3>1, <3>2
  <2> QED
    BY <2>1, <2>2
<1> QED
  BY <1>9, <1>10, <1>11, <1>12 DEF AcquisitionInv

LEMMA ReadFileFailsInv ==
    ASSUME AcquisitionInv, NEW p \in Paths, ReadFileFails(p)
    PROVE  AcquisitionInv'
<1> WalkType /\ VersionsInv /\ LookInv /\ FramesInv /\ ListingInv /\ CopyInv /\ SeenInv
  BY DEF AcquisitionInv
<1> DEFINE n == Len(stack)
           e == Unavailable("file")
<1>1. /\ look.path = p /\ p \in Files /\ (p \notin src \/ ver[p] # look.ver \/ p \in Faulty)
      /\ entries' = With(entries, p, e) /\ look' = NoNode
      /\ UNCHANGED <<sourceVars, attempt, stack, profiles, copies, result, start>>
  BY DEF ReadFileFails, Stable
<1>2. /\ p # Root /\ look # NoNode
  BY <1>1, ParentFacts DEF NoNode
<1>3. /\ result = "scanning" /\ stack # << >> /\ n \in 1..n
      /\ p \in stack[n].names /\ p \notin stack[n].todo
      /\ look.ver \in Nat /\ ReadSince(p, look.ver)
  BY <1>1, <1>2, LookedAt
<1>4. e \in EntryType /\ e.state = "unavailable" /\ ~e.copied
  BY TreeAssumption DEF Unavailable, Entry, EntryType, Versions
<1>5. \/ dirs' = (dirs \cup Ancestors(p)) \ EmptyParents(p)
      \/ dirs' = dirs
  BY DEF ReadFileFails
<1> HIDE DEF e
<1>6. /\ p \notin DOMAIN entries /\ IsPairs(entries, Paths, EntryType)'
      /\ DOMAIN entries' = DOMAIN entries \cup {p} /\ entries'[p] = e
      /\ \A q \in DOMAIN entries : entries'[q] = entries[q]
      /\ ListedTo(Len(stack), p)
  BY <1>1, <1>3, <1>4, EntryAdded
<1>7. WalkType'
  <2>1. look' \in [path : Nodes, ver : Versions]
    BY <1>1, TreeAssumption DEF NoNode, Nodes, Versions
  <2>2. dirs' \subseteq Dirs
    BY <1>5, AncestorsClosed DEF WalkType
  <2> QED
    BY <1>1, <1>6, <2>1, <2>2 DEF WalkType, sourceVars, IsPairs
<1>8. VersionsInv' /\ LookInv' /\ FramesInv' /\ ListingInv'
  <2>1. stack' = stack /\ stack \in Seq(Frame) /\ stack[n].todo \ {p} = stack[n].todo
    BY <1>1, <1>3 DEF WalkType
  <2> QED
    BY <1>1, <1>3, <1>6, <2>1, InspectedInv
<1>9. CopyInv'
  <2>1. /\ CopiedEntries' = DOMAIN copies' /\ CopiedEntries' = CopiedEntries
        /\ AllowedWorkingDirectories' = AllowedWorkingDirectories
        /\ \A q \in DOMAIN copies' : copies'[q] = entries'[q].ver
        /\ (\A d \in DOMAIN entries' \cap Dirs : entries'[d].state = "value") =>
              dirs \subseteq AllowedWorkingDirectories
    BY <1>1, <1>4, <1>6, CopiedKept
  <2>2. \A q \in DOMAIN copies : Ancestors(q) \subseteq dirs'
    BY <1>5 DEF CopyInv, EmptyParents
  <2>3. dirs \subseteq AllowedWorkingDirectories => dirs' \subseteq AllowedWorkingDirectories
    <3> SUFFICES ASSUME dirs \subseteq AllowedWorkingDirectories, NEW d \in Ancestors(p),
                        d \notin EmptyParents(p)
                 PROVE  d \in AllowedWorkingDirectories
      BY <1>5
    <3>1. PICK q \in DOMAIN copies \cup (dirs \ Ancestors(p)) : d \in Ancestors(q)
      BY DEF EmptyParents
    <3>2. CASE q \in DOMAIN copies
      BY <3>1, <3>2 DEF AllowedWorkingDirectories, CopyInv
    <3>3. CASE q \in dirs
      <4>1. PICK r \in CopiedEntries : q \in Ancestors(r)
        BY <3>3 DEF AllowedWorkingDirectories
      <4>2. r \in Paths
        BY DEF CopiedEntries, WalkType, IsPairs
      <4>3. d \in Ancestors(r)
        BY <3>1, <4>1, <4>2, AncestorsTransitive
      <4> QED
        BY <4>3 DEF AllowedWorkingDirectories
    <3> QED
      BY <3>1, <3>2, <3>3
  <2> QED
    BY <1>1, <2>1, <2>2, <2>3 DEF CopyInv
<1>10. SeenInv'
  <2> SUFFICES ASSUME NEW q \in Files \cap start.src, Untouched(q) PROVE Ahead(q)' \/ Acquired(q)'
    BY <1>1, <1>3 DEF SeenInv, Untouched, sourceVars
  <2>1. q # p
    BY <1>1, <1>3, UntouchedFacts, LookIsCurrent
  <2>2. Ahead(q)' \/ Acquired(q)
    BY <1>1, <1>3, <2>1, AheadOfFile
  <2>3. Acquired(q) => Acquired(q)'
    BY <1>1, <1>6 DEF Acquired
  <2> QED
    BY <2>2, <2>3
<1> QED
  BY <1>7, <1>8, <1>9, <1>10 DEF AcquisitionInv

LEMMA NoNodeType == NoNode \in [path : Nodes, ver : Versions]
  BY TreeAssumption DEF NoNode, Nodes, Versions

LEMMA ReadRootInv == ASSUME AcquisitionInv, ReadRoot PROVE AcquisitionInv'
<1> WalkType /\ VersionsInv /\ LookInv /\ FramesInv /\ ListingInv /\ CopyInv /\ SeenInv
  BY DEF AcquisitionInv
<1>1. /\ look # NoNode /\ look.path = Root /\ Push(Root) /\ look' = NoNode
      /\ UNCHANGED <<sourceVars, attempt, entries, profiles, copies, dirs, result, start>>
  BY DEF ReadRoot
<1>2. stack = << >> /\ result = "scanning" /\ ReadSince(Root, look.ver) /\ DOMAIN entries = {}
  BY <1>1 DEF LookInv, ListingInv
<1>3. Len(stack) = 0
  BY <1>2
<1>4. /\ stack' \in Seq(Frame) /\ Len(stack') = 1 /\ 1..Len(stack') = {1}
      /\ stack'[1].dir = Root /\ stack'[1].names = Children(src, Root)
      /\ stack'[1].todo = Children(src, Root)
  <2>1. /\ stack' \in Seq(Frame) /\ Len(stack') = 1
        /\ stack'[1] = [dir |-> Root, ver |-> look.ver, names |-> Children(src, Root),
                        todo |-> Children(src, Root)]
    BY <1>1, <1>3, PushFacts
  <2> QED
    BY <2>1
<1>5. stack' # << >>
  <2>1. Len(stack') # 0
    BY <1>4
  <2> QED
    BY <2>1
<1>6. WalkType'
  BY <1>1, <1>4, NoNodeType DEF WalkType, sourceVars, IsPairs
<1>7. LookInv'
  BY <1>1, <1>2, <1>5 DEF LookInv
<1>8. FramesInv'
  BY <1>1, <1>2, <1>3, FramesPushed
<1>9. ListingInv'
  BY <1>1, <1>2, <1>4, <1>5 DEF ListingInv
<1>10. CopyInv'
  BY <1>1 DEF CopyInv, CopiedEntries, AllowedWorkingDirectories
<1>11. SeenInv'
  <2> SUFFICES ASSUME NEW q \in Files \cap start.src, Untouched(q) PROVE Ahead(q)'
    BY <1>1, <1>2 DEF SeenInv, Untouched, sourceVars
  <2>1. PICK a \in Line(q) : Parent[a] = Root
    BY UntouchedFacts, RootAssumption DEF Line
  <2>2. a \in src
    BY UntouchedFacts
  <2>3. a \in stack'[1].todo
    BY <1>4, <2>1, <2>2 DEF Children
  <2> QED
    BY <1>4, <2>3 DEF Ahead, Line
<1> QED
  BY <1>1, <1>6, <1>7, <1>8, <1>9, <1>10, <1>11, VersionsKept DEF AcquisitionInv

\* What is ahead when the directory d is looked at is itself below d, and then one
\* of the names in d leads to it; or it is beside, and it stays ahead.
LEMMA AheadOfDirectory ==
    ASSUME WalkType, VersionsInv, NEW q \in Files \cap start.src, Untouched(q),
           NEW d \in Dirs, d \in Line(q)
    PROVE  Children(src, d) \cap Line(q) # {}
<1>1. d \in Ancestors(q) /\ q \in Paths
  BY UntouchedFacts, ParentFacts DEF Line
<1>2. PICK r \in Line(q) : Parent[r] = d
  BY <1>1, AncestorsHold DEF Line
<1>3. r \in src
  BY UntouchedFacts
<1> QED
  BY <1>2, <1>3 DEF Children

LEMMA ReadDirectoryInv ==
    ASSUME AcquisitionInv, NEW d \in Paths, ReadDirectory(d)
    PROVE  AcquisitionInv'
<1> WalkType /\ VersionsInv /\ LookInv /\ FramesInv /\ ListingInv /\ CopyInv /\ SeenInv
  BY DEF AcquisitionInv
<1> DEFINE n == Len(stack)
           e == Entry("value", "dir", FALSE, look.ver)
<1>1. /\ look.path = d /\ d \in Dirs /\ d \in src
      /\ entries' = With(entries, d, e) /\ Push(d) /\ look' = NoNode
      /\ profiles' = profiles \cup ({d} \cap Profiles)
      /\ UNCHANGED <<sourceVars, attempt, copies, dirs, result, start>>
  BY DEF ReadDirectory
<1>2. d # Root /\ look # NoNode
  BY <1>1, ParentFacts DEF NoNode
<1>3. /\ result = "scanning" /\ stack # << >> /\ n \in 1..n /\ Top = stack[n]
      /\ d \in stack[n].names /\ d \notin stack[n].todo /\ Parent[d] = stack[n].dir
      /\ look.ver \in Nat /\ ReadSince(d, look.ver)
  BY <1>1, <1>2, LookedAt
<1>4. e \in EntryType /\ e.state = "value" /\ ~e.copied
  BY DEF Entry, EntryType, WalkType
<1> HIDE DEF e
<1>5. /\ d \notin DOMAIN entries /\ IsPairs(entries, Paths, EntryType)'
      /\ DOMAIN entries' = DOMAIN entries \cup {d} /\ entries'[d] = e
      /\ \A q \in DOMAIN entries : entries'[q] = entries[q]
      /\ ListedTo(Len(stack), d)
  BY <1>1, <1>3, <1>4, EntryAdded
<1>6. /\ stack' \in Seq(Frame) /\ Len(stack') = n + 1 /\ n \in Nat
      /\ \A i \in 1..n : stack'[i] = stack[i]
      /\ stack'[n + 1].dir = d /\ stack'[n + 1].names = Children(src, d)
      /\ stack'[n + 1].todo = Children(src, d)
  <2>1. /\ stack' \in Seq(Frame) /\ Len(stack') = n + 1 /\ n \in Nat
        /\ \A i \in 1..n : stack'[i] = stack[i]
        /\ stack'[n + 1] = [dir |-> d, ver |-> look.ver, names |-> Children(src, d),
                            todo |-> Children(src, d)]
    BY <1>1, PushFacts
  <2> QED
    BY <2>1
<1>7. stack' # << >> /\ \A i \in 1..Len(stack') : i \in 1..n \/ i = n + 1
  <2>1. Len(stack') # 0
    BY <1>6
  <2> QED
    BY <1>6, <2>1
<1>8. WalkType'
  BY <1>1, <1>5, <1>6, NoNodeType DEF WalkType, sourceVars, IsPairs
<1>9. LookInv'
  BY <1>1, <1>3, <1>7 DEF LookInv
<1>10. FramesInv'
  <2>1. \A i \in 1..Len(stack) : i > 1 =>
           stack[i].dir \in DOMAIN entries' /\ entries'[stack[i].dir].state = "value"
    BY <1>5 DEF ListedTo
  <2>2. d \in Top.names \ Top.todo /\ d \in DOMAIN entries' /\ entries'[d].state = "value"
    BY <1>3, <1>4, <1>5
  <2> QED
    BY <1>1, <1>3, <2>1, <2>2, FramesPushed
<1>11. ListingInv'
  <2>1. ASSUME NEW i \in 1..Len(stack'), NEW q \in Paths, Parent[q] = stack'[i].dir
        PROVE  q \in DOMAIN entries' <=>
                  q \in stack'[i].names /\ q \notin stack'[i].todo /\ q # Root
    <3>1. CASE i \in 1..n
      <4>1. q \in DOMAIN entries' <=> q \in stack[i].names /\ (q \notin stack[i].todo \/ q = d)
        BY <1>5, <1>6, <2>1, <3>1 DEF ListedTo
      <4>2. q = d => i = n
        BY <1>3, <1>6, <2>1, <3>1, FramesDiffer
      <4> QED
        BY <1>3, <1>6, <3>1, <4>1, <4>2, ParentFacts
    <3>2. CASE i = n + 1
      <4>1. Parent[q] = d
        BY <1>6, <2>1, <3>2
      <4>2. d \in Ancestors(q)
        BY <1>2, <4>1, AncestorsClosed
      <4>3. q # d /\ q \in Within(d)
        BY <4>2, Acyclic DEF Within
      <4>4. q \notin DOMAIN entries
        BY <1>1, <1>3, <4>3, NotInspected
      <4> QED
        BY <1>5, <1>6, <3>2, <4>3, <4>4
    <3> QED
      BY <1>7, <3>1, <3>2
  <2>2. look'.path = Root
    BY <1>1 DEF NoNode
  <2> QED
    BY <1>1, <1>5, <1>7, <2>1, <2>2 DEF ListingInv, ListedTo
<1>12. CopyInv'
  BY <1>1, <1>4, <1>5, CopiedKept DEF CopyInv
<1>13. SeenInv'
  <2> SUFFICES ASSUME NEW q \in Files \cap start.src, Untouched(q) PROVE Ahead(q)' \/ Acquired(q)'
    BY <1>1, <1>3 DEF SeenInv, Untouched, sourceVars
  <2>1. CASE Acquired(q)
    BY <1>1, <1>5, <2>1 DEF Acquired
  <2>2. CASE d \in Line(q)
    <3>1. n + 1 \in 1..Len(stack') /\ stack'[n + 1].todo \cap Line(q) # {}
      BY <1>1, <1>6, <2>2, AheadOfDirectory
    <3> QED
      BY <3>1 DEF Ahead, Line
  <2>3. CASE Ahead(q) /\ d \notin Line(q)
    <3>1. PICK i \in 1..n : stack[i].todo \cap Line(q) # {}
      BY <1>1, <2>3 DEF Ahead
    <3>2. i \in 1..Len(stack') /\ stack'[i].todo \cap Line(q) # {}
      BY <1>6, <3>1
    <3> QED
      BY <3>2 DEF Ahead, Line
  <2> QED
    BY <1>3, <2>1, <2>2, <2>3 DEF SeenInv
<1> QED
  BY <1>1, <1>8, <1>9, <1>10, <1>11, <1>12, <1>13, VersionsKept DEF AcquisitionInv

\* A directory that is given up takes its copies with it.
LEMMA LostCopyInv ==
    ASSUME WalkType, CopyInv, NEW d \in Paths, d \in Dirs,
           DOMAIN entries' = (DOMAIN entries \ Within(d)) \cup {d},
           entries'[d] = Unavailable("dir"),
           \A q \in DOMAIN entries \ Within(d) : entries'[q] = entries[q],
           Discard(d), DOMAIN copies' = DOMAIN copies \ Within(d),
           \A q \in DOMAIN copies \ Within(d) : copies'[q] = copies[q],
           dirs' = dirs \ Within(d)
    PROVE  CopyInv' /\ IsPairs(copies, Copyable, Versions)' /\ dirs' \subseteq Dirs
<1>1. /\ entries'[d].state = "unavailable" /\ ~entries'[d].copied
  BY DEF Unavailable, Entry
<1>2. CopiedEntries' = CopiedEntries \ Within(d)
  BY <1>1, WithinFacts DEF CopiedEntries
<1>3. \A q \in DOMAIN copies' : copies'[q] = entries'[q].ver
  BY <1>2 DEF CopyInv, CopiedEntries
<1>4. \A q \in DOMAIN copies' : Ancestors(q) \subseteq dirs'
  <2>1. DOMAIN copies \subseteq Paths
    BY DEF CopyInv, CopiedEntries, WalkType, IsPairs
  <2> QED
    BY <2>1, WithinFacts DEF CopyInv
<1>5. ~\A e \in DOMAIN entries' \cap Dirs : entries'[e].state = "value"
  BY <1>1
<1>6. IsPairs(copies, Copyable, Versions)'
  <2>1. copies' \in [DOMAIN copies' -> Versions]
    BY DEF Discard, Without, WalkType, IsPairs
  <2> QED
    BY <2>1 DEF WalkType, IsPairs
<1>7. CopiedEntries' = DOMAIN copies'
  BY <1>2 DEF CopyInv
<1> QED
  BY <1>3, <1>4, <1>5, <1>6, <1>7 DEF CopyInv, WalkType

\* A file that is untouched is not below a directory that was given up.
LEMMA AcquiredKept ==
    ASSUME WalkType, VersionsInv, NEW q \in Files \cap start.src, Untouched(q), Acquired(q),
           NEW d \in Dirs, d \notin Line(q), UNCHANGED start,
           DOMAIN entries' = (DOMAIN entries \ Within(d)) \cup {d},
           \A p \in DOMAIN entries \ Within(d) : entries'[p] = entries[p],
           DOMAIN copies' = DOMAIN copies \ Within(d),
           \A p \in DOMAIN copies \ Within(d) : copies'[p] = copies[p]
    PROVE  Acquired(q)'
<1>1. q \notin Within(d)
  BY DEF Line, Within
<1> QED
  BY <1>1 DEF Acquired

LEMMA ReadDirectoryFailsInv ==
    ASSUME AcquisitionInv, NEW d \in Paths, ReadDirectoryFails(d)
    PROVE  AcquisitionInv'
<1> WalkType /\ VersionsInv /\ LookInv /\ FramesInv /\ ListingInv /\ CopyInv /\ SeenInv
  BY DEF AcquisitionInv
<1> DEFINE n == Len(stack)
<1>1. /\ look.path = d /\ d \in Dirs /\ (d \notin src \/ d \in Faulty)
      /\ Discard(d) /\ look' = NoNode /\ profiles' = profiles \cup ({d} \cap Profiles)
      /\ UNCHANGED <<sourceVars, attempt, stack, result, start>>
  BY DEF ReadDirectoryFails
<1>2. d # Root /\ look # NoNode
  BY <1>1, ParentFacts DEF NoNode
<1>3. /\ result = "scanning" /\ stack # << >> /\ n \in 1..n
      /\ d \in stack[n].names /\ d \notin stack[n].todo
      /\ look.ver \in Nat /\ ReadSince(d, look.ver)
  BY <1>1, <1>2, LookedAt
<1>4. /\ IsPairs(entries, Paths, EntryType)'
      /\ DOMAIN entries' = (DOMAIN entries \ Within(d)) \cup {d}
      /\ entries'[d] = Unavailable("dir")
      /\ \A q \in DOMAIN entries \ Within(d) : entries'[q] = entries[q]
      /\ DOMAIN copies' = DOMAIN copies \ Within(d)
      /\ \A q \in DOMAIN copies \ Within(d) : copies'[q] = copies[q]
      /\ dirs' = dirs \ Within(d)
      /\ ListedTo(n, d)
  BY <1>1, <1>3, DirectoryLost
<1>5. CopyInv' /\ IsPairs(copies, Copyable, Versions)' /\ dirs' \subseteq Dirs
  BY <1>1, <1>4, LostCopyInv
<1>6. WalkType'
  BY <1>1, <1>4, <1>5, NoNodeType DEF WalkType, sourceVars
<1>7. VersionsInv' /\ LookInv' /\ FramesInv' /\ ListingInv'
  <2>1. stack' = stack /\ stack \in Seq(Frame) /\ stack[n].todo \ {d} = stack[n].todo
    BY <1>1, <1>3 DEF WalkType
  <2> QED
    BY <1>1, <1>3, <1>4, <2>1, InspectedInv
<1>8. SeenInv'
  <2> SUFFICES ASSUME NEW q \in Files \cap start.src, Untouched(q) PROVE Ahead(q)' \/ Acquired(q)'
    BY <1>1, <1>3 DEF SeenInv, Untouched, sourceVars
  <2>1. d \notin Line(q)
    BY <1>1, UntouchedFacts
  <2>2. Ahead(q) => Ahead(q)'
    BY <1>1, <2>1 DEF Ahead, Line
  <2>3. Acquired(q) => Acquired(q)'
    BY <1>1, <1>4, <2>1, AcquiredKept
  <2> QED
    BY <1>3, <2>2, <2>3 DEF SeenInv
<1> QED
  BY <1>5, <1>6, <1>7, <1>8 DEF AcquisitionInv

\* The frame that ends: of a directory of the frame below, that was read whole
\* if nothing in it has changed.
LEMMA TopFrame ==
    ASSUME AcquisitionInv, Len(stack) > 1
    PROVE  /\ result = "scanning" /\ stack # << >>
           /\ Len(stack) - 1 \in 1..Len(stack) /\ Len(stack) - 1 \in Nat
           /\ Top = stack[Len(stack)] /\ FrameInv(Len(stack))
           /\ Top.dir \in Dirs /\ Top.dir \in Paths /\ Top.ver \in Nat
           /\ Top.dir \in stack[Len(stack) - 1].names
           /\ Top.dir \notin stack[Len(stack) - 1].todo
           /\ ReadSince(Top.dir, Top.ver)
<1> WalkType /\ LookInv /\ FramesInv
  BY DEF AcquisitionInv
<1> DEFINE n == Len(stack)
<1>1. n \in Nat /\ n \in 1..n /\ n - 1 \in 1..n /\ n - 1 \in Nat /\ n # 1 /\ ~(n <= 1)
  <2>1. n \in Nat /\ n > 1
    BY DEF WalkType
  <2> HIDE DEF n
  <2> QED
    BY <2>1
<1>2. stack # << >>
  BY <1>1
<1>3. Top = stack[n] /\ FrameInv(n)
  BY <1>1, <1>2, TopIsLast DEF FramesInv
<1>4. result = "scanning"
  BY <1>1 DEF LookInv, WalkType
<1>5. stack[n].dir \in stack[n - 1].names \ stack[n - 1].todo /\ ReadSince(stack[n].dir, stack[n].ver)
  BY <1>1, <1>3 DEF FrameInv
<1>6. stack[n].dir \in Paths /\ stack[n].dir \in Dirs /\ stack[n].ver \in Nat
  <2>1. stack[n].dir \in Paths
    BY <1>1, <1>5, AboveName
  <2>2. stack[n] \in Frame /\ stack[n].ver \in Nat
    BY <1>1, FrameType
  <2> QED
    BY <2>1, <2>2, ParentFacts DEF Frame
<1> QED
  BY <1>1, <1>2, <1>3, <1>4, <1>5, <1>6

LEMMA FinishDirectoryInv == ASSUME AcquisitionInv, FinishDirectory PROVE AcquisitionInv'
<1> WalkType /\ VersionsInv /\ LookInv /\ FramesInv /\ ListingInv /\ CopyInv /\ SeenInv
  BY DEF AcquisitionInv
<1> DEFINE n == Len(stack) - 1
           d == Top.dir
<1>1. /\ look = NoNode /\ Len(stack) > 1 /\ Top.todo = {} /\ stack' = Front(stack)
      /\ \/ UNCHANGED <<entries, copies, dirs>>
         \/ (~Unchanged(Top) \/ d \in Faulty) /\ Discard(d)
      /\ UNCHANGED <<sourceVars, attempt, look, profiles, result, start>>
  BY DEF FinishDirectory
<1>2. /\ result = "scanning" /\ n \in 1..Len(stack) /\ n \in Nat
      /\ Top = stack[Len(stack)] /\ FrameInv(Len(stack)) /\ d \in Dirs /\ d \in Paths /\ Top.ver \in Nat
      /\ d \in stack[n].names /\ d \notin stack[n].todo /\ ReadSince(d, Top.ver)
  BY <1>1, TopFrame
<1>3. /\ stack' \in Seq(Frame) /\ Len(stack') = n /\ stack' # << >>
      /\ \A i \in 1..n : i \in 1..Len(stack) /\ stack'[i] = stack[i]
  BY <1>1, FrontFacts
<1>4. n # 0 /\ n <= Len(stack) /\ 1..Len(stack') = 1..n
      /\ \A i \in 1..Len(stack) : i \in 1..n \/ i = Len(stack)
  <2> DEFINE m == Len(stack)
  <2>1. m \in Nat /\ m > 1
    BY <1>1 DEF WalkType
  <2> HIDE DEF m
  <2>2. m - 1 # 0 /\ m - 1 <= m /\ \A i \in 1..m : i \in 1..(m - 1) \/ i = m
    BY <2>1
  <2> QED
    BY <1>3, <2>2 DEF m
<1>5. ASSUME NEW q \in Files \cap start.src, Untouched(q)
      PROVE  /\ Ahead(q) => Ahead(q)'
             /\ d \in Line(q) => Unchanged(Top) /\ d \notin Faulty
  <2>1. Ahead(q) => Ahead(q)'
    <3> SUFFICES ASSUME Ahead(q) PROVE Ahead(q)'
      OBVIOUS
    <3>1. look.path \notin Line(q)
      BY <1>1, <1>5, UntouchedFacts DEF NoNode
    <3>2. PICK i \in 1..Len(stack) : stack[i].todo \cap Line(q) # {}
      BY <3>1 DEF Ahead
    <3>3. i # Len(stack)
      BY <1>1, <1>2, <3>2
    <3>4. i \in 1..n /\ stack'[i].todo \cap Line(q) # {}
      BY <1>3, <1>4, <3>2, <3>3
    <3>5. i \in 1..Len(stack')
      BY <1>4, <3>4
    <3> QED
      BY <3>4, <3>5 DEF Ahead, Line
  <2>2. ASSUME d \in Line(q) PROVE Unchanged(Top) /\ d \notin Faulty
    <3>1. d \in src /\ d \notin Faulty /\ ver[d] = Top.ver
      BY <1>2, <1>5, <2>2, UntouchedFacts
    <3>2. Children(src, d) = Top.names
      BY <1>2, <3>1 DEF FrameInv
    <3> QED
      BY <3>1, <3>2 DEF Unchanged
  <2> QED
    BY <2>1, <2>2
<1>6. LookInv'
  BY <1>1, <1>2, <1>3 DEF LookInv
<1>7. CASE UNCHANGED <<entries, copies, dirs>>
  <2>1. WalkType'
    BY <1>1, <1>3, <1>7 DEF WalkType, sourceVars, IsPairs
  <2>2. FramesInv'
    <3>1. \A i \in 1..n : i > 1 =>
             stack[i].dir \in DOMAIN entries' /\ entries'[stack[i].dir].state = "value"
      BY <1>3, <1>7 DEF FramesInv, FrameInv
    <3> QED
      BY <1>1, <1>2, <1>3, <1>4, <3>1, FramesKept
  <2>3. ListingInv'
    <3>1. \A i \in 1..Len(stack'), q \in Paths : Parent[q] = stack'[i].dir =>
             (q \in DOMAIN entries <=>
                q \in stack'[i].names /\ q \notin stack'[i].todo /\ q # look'.path)
      BY <1>1, <1>2, <1>3, <1>4 DEF ListingInv
    <3> QED
      BY <1>1, <1>3, <1>7, <3>1 DEF ListingInv
  <2>4. CopyInv'
    BY <1>7 DEF CopyInv, CopiedEntries, AllowedWorkingDirectories
  <2>5. SeenInv'
    <3> SUFFICES ASSUME NEW q \in Files \cap start.src, Untouched(q)
                 PROVE  Ahead(q)' \/ Acquired(q)'
      BY <1>1, <1>2 DEF SeenInv, Untouched, sourceVars
    <3>1. Ahead(q)' \/ Acquired(q)
      BY <1>2, <1>3, <1>5, FrontFacts, <1>1 DEF SeenInv
    <3> QED
      BY <1>1, <1>7, <3>1 DEF Acquired
  <2> QED
    BY <1>1, <1>6, <2>1, <2>2, <2>3, <2>4, <2>5, VersionsKept DEF AcquisitionInv
<1>8. CASE (~Unchanged(Top) \/ d \in Faulty) /\ Discard(d)
  <2>1. /\ IsPairs(entries, Paths, EntryType)'
        /\ DOMAIN entries' = (DOMAIN entries \ Within(d)) \cup {d}
        /\ entries'[d] = Unavailable("dir")
        /\ \A q \in DOMAIN entries \ Within(d) : entries'[q] = entries[q]
        /\ DOMAIN copies' = DOMAIN copies \ Within(d)
        /\ \A q \in DOMAIN copies \ Within(d) : copies'[q] = copies[q]
        /\ dirs' = dirs \ Within(d)
        /\ ListedTo(n, d)
    <3> HIDE DEF n, d
    <3> QED
      BY <1>1, <1>2, <1>8, DirectoryLost
  <2>2. CopyInv' /\ IsPairs(copies, Copyable, Versions)' /\ dirs' \subseteq Dirs
    <3> HIDE DEF d
    <3> QED
      BY <1>2, <1>8, <2>1, LostCopyInv
  <2>3. WalkType'
    BY <1>1, <1>3, <2>1, <2>2 DEF WalkType, sourceVars
  <2>4. FramesInv'
    <3>1. \A i \in 1..n : i > 1 =>
             stack[i].dir \in DOMAIN entries' /\ entries'[stack[i].dir].state = "value"
      BY <2>1 DEF ListedTo
    <3> QED
      BY <1>1, <1>2, <1>3, <1>4, <3>1, FramesKept
  <2>5. ListingInv'
    <3>1. ASSUME NEW i \in 1..n, NEW q \in Paths, Parent[q] = stack[i].dir
          PROVE  q \notin stack'[i].todo <=> q \notin stack[i].todo \/ q = d
      <4>1. q = d => i = n
        <5>1. Parent[d] = stack[n].dir
          BY <1>2, AboveName
        <5> QED
          BY <1>2, <1>3, <3>1, <5>1, FramesDiffer
      <4> QED
        BY <1>2, <1>3, <4>1
    <3> HIDE DEF n, d
    <3> QED
      BY <1>1, <1>2, <1>3, <1>4, <2>1, <3>1, ListingAfter
  <2>6. SeenInv'
    <3> SUFFICES ASSUME NEW q \in Files \cap start.src, Untouched(q)
                 PROVE  Ahead(q)' \/ Acquired(q)'
      BY <1>1, <1>2 DEF SeenInv, Untouched, sourceVars
    <3>1. d \notin Line(q)
      BY <1>5, <1>8
    <3>2. Ahead(q)' \/ Acquired(q)
      BY <1>2, <1>3, <1>5, FrontFacts, <1>1 DEF SeenInv
    <3>3. Acquired(q) => Acquired(q)'
      <4> HIDE DEF d
      <4> QED
        BY <1>1, <1>2, <2>1, <3>1, AcquiredKept
    <3> QED
      BY <3>2, <3>3
  <2> QED
    BY <1>1, <1>6, <2>2, <2>3, <2>4, <2>5, <2>6, VersionsKept DEF AcquisitionInv
<1> QED
  BY <1>1, <1>7, <1>8

--------------------------------------------------------------------------------
(* How an attempt ends.                                                    *)

LEMMA RootFrame ==
    ASSUME AcquisitionInv, RootWalked
    PROVE  /\ look = NoNode /\ Len(stack) = 1 /\ stack # << >> /\ Top = stack[1] /\ Top.todo = {}
           /\ Top.dir = Root /\ \A i \in 1..Len(stack) : i = 1
<1> WalkType /\ FramesInv
  BY DEF AcquisitionInv
<1>1. look = NoNode /\ Len(stack) = 1 /\ Top.todo = {}
  BY DEF RootWalked
<1>2. stack # << >>
  BY <1>1
<1>3. Top = stack[1] /\ 1 \in 1..Len(stack) /\ \A i \in 1..Len(stack) : i = 1
  BY <1>1, <1>2, TopIsLast
<1>4. stack[1].dir = Root
  BY <1>3 DEF FramesInv, FrameInv
<1> QED
  BY <1>1, <1>2, <1>3, <1>4

LEMMA FinishScanInv == ASSUME AcquisitionInv, FinishScan PROVE AcquisitionInv'
<1> WalkType /\ VersionsInv /\ LookInv /\ FramesInv /\ ListingInv /\ CopyInv /\ SeenInv
  BY DEF AcquisitionInv
<1>1. /\ result = "scanning" /\ entries' = WithExpected /\ result' = "acquired"
      /\ UNCHANGED <<sourceVars, attempt, stack, look, profiles, copies, dirs, start>>
      /\ look = NoNode /\ Len(stack) = 1 /\ stack # << >> /\ Top = stack[1] /\ Top.todo = {}
      /\ \A i \in 1..Len(stack) : i = 1
  BY RootFrame DEF FinishScan
<1>2. /\ DOMAIN entries' = DOMAIN entries \cup ExpectedNow
      /\ \A q \in DOMAIN entries : entries'[q] = entries[q]
      /\ \A q \in DOMAIN entries' \ DOMAIN entries :
            entries'[q] \in {Unavailable("file"), Entry("absent", "absent", FALSE, 0)}
  BY <1>1 DEF WithExpected
<1>3. \A e \in {Unavailable("file"), Entry("absent", "absent", FALSE, 0)} :
         e \in EntryType /\ e.state # "value" /\ ~e.copied
  <2>1. 0 \in Versions
    BY TreeAssumption DEF Versions
  <2>2. /\ Unavailable("file") \in EntryType /\ Unavailable("file").state # "value"
        /\ ~Unavailable("file").copied
    BY <2>1 DEF Unavailable, Entry, EntryType
  <2>3. /\ Entry("absent", "absent", FALSE, 0) \in EntryType
        /\ Entry("absent", "absent", FALSE, 0).state # "value"
        /\ ~Entry("absent", "absent", FALSE, 0).copied
    BY <2>1 DEF Entry, EntryType
  <2> QED
    BY <2>2, <2>3
<1>4. ExpectedNow \subseteq Files /\ ExpectedNow \subseteq Paths
  BY TreeAssumption DEF ExpectedNow, Paths
<1>5. WalkType'
  <2>1. \A q \in DOMAIN entries' : entries'[q] \in EntryType
    BY <1>2, <1>3 DEF WalkType, IsPairs
  <2>2. entries' \in [DOMAIN entries' -> EntryType]
    BY <1>1, <2>1 DEF WithExpected
  <2> QED
    BY <1>1, <1>2, <1>4, <2>2 DEF WalkType, sourceVars, IsPairs
<1>6. LookInv'
  BY <1>1 DEF LookInv, Top
<1>7. FramesInv'
  BY <1>1, FramesKept
<1>8. ListingInv'
  <2>1. ASSUME NEW p \in DOMAIN entries', entries'[p].state = "value", NEW d \in Ancestors(p)
        PROVE  d \in DOMAIN entries' /\ entries'[d].state = "value"
    BY <1>1, <1>2, <1>3, <2>1 DEF ListingInv
  <2> QED
    BY <1>1, <2>1 DEF ListingInv
<1>9. CopyInv'
  <2>1. CopiedEntries' = CopiedEntries
    BY <1>2, <1>3 DEF CopiedEntries
  <2>2. AllowedWorkingDirectories' = AllowedWorkingDirectories
    BY <2>1 DEF AllowedWorkingDirectories
  <2>3. \A q \in DOMAIN copies : entries'[q] = entries[q]
    BY <1>2 DEF CopyInv, CopiedEntries
  <2> QED
    BY <1>1, <1>2, <2>1, <2>2, <2>3 DEF CopyInv
<1>10. SeenInv'
  <2> SUFFICES ASSUME NEW q \in Files \cap start.src, Untouched(q) PROVE Acquired(q)'
    BY <1>1 DEF SeenInv, Untouched, sourceVars
  <2>1. ~Ahead(q)
    BY <1>1, UntouchedFacts DEF Ahead, NoNode
  <2>2. Acquired(q)
    BY <1>1, <2>1 DEF SeenInv
  <2> QED
    BY <1>1, <1>2, <2>2 DEF Acquired
<1> QED
  BY <1>1, <1>5, <1>6, <1>7, <1>8, <1>9, <1>10, VersionsKept DEF AcquisitionInv

LEMMA RetryInv == ASSUME AcquisitionInv, Retry PROVE AcquisitionInv'
<1> WalkType /\ VersionsInv
  BY DEF AcquisitionInv
<1>1. /\ result = "scanning" /\ attempt < Attempts /\ attempt' = attempt + 1
      /\ stack' = << >> /\ look' = [path |-> Root, ver |-> ver[Root]]
      /\ entries' = Empty /\ profiles' = {} /\ copies' = Empty /\ dirs' = {}
      /\ start' = [src |-> src, ver |-> ver]
      /\ UNCHANGED <<sourceVars, result>>
  BY DEF Retry
<1>2. \A m \in Nodes : ver[m] \in 1..(changes + 1) /\ ver[m] \in Versions /\ ver[m] \in Nat /\ ver[m] # 0
  BY TreeAssumption DEF WalkType, Versions
<1>3. Root \in Nodes
  BY DEF Nodes
<1>4. WalkType'
  <2>1. look' \in [path : Nodes, ver : Versions]
    BY <1>1, <1>2, <1>3
  <2>2. start' \in [src : SUBSET Paths, ver : [Nodes -> Versions]]
    BY <1>1, <1>2 DEF WalkType
  <2>3. IsPairs(entries, Paths, EntryType)' /\ IsPairs(copies, Copyable, Versions)'
    BY <1>1 DEF IsPairs, Empty
  <2>4. attempt' \in 1..Attempts
    BY <1>1 DEF WalkType, Attempts
  <2> QED
    BY <1>1, <2>1, <2>2, <2>3, <2>4 DEF WalkType, sourceVars
<1>5. VersionsInv'
  BY <1>1, <1>2 DEF VersionsInv, sourceVars
<1>6. LookInv'
  BY <1>1, <1>2, <1>3 DEF LookInv, NoNode, ReadSince, sourceVars
<1>7. FramesInv' /\ ListingInv' /\ CopyInv' /\ SeenInv'
  BY <1>1 DEF FramesInv, ListingInv, CopyInv, CopiedEntries, SeenInv, Empty
<1> QED
  BY <1>4, <1>5, <1>6, <1>7 DEF AcquisitionInv

\* When an acquisition fails nothing is read any more.
LEMMA FailedInv ==
    ASSUME AcquisitionInv, result' = "failed",
           UNCHANGED <<sourceVars, attempt, entries, profiles, copies, dirs, start>>,
           look' = NoNode,
           \/ stack' = << >>
           \/ UNCHANGED stack /\ Len(stack) = 1 /\ stack # << >> /\ Top.todo = {}
    PROVE  AcquisitionInv'
<1> WalkType /\ VersionsInv /\ FramesInv /\ ListingInv /\ CopyInv
  BY DEF AcquisitionInv
<1>1. WalkType'
  <2>1. stack' \in Seq(Frame)
    <3>1. CASE stack' = << >>
      BY <3>1
    <3>2. CASE UNCHANGED stack
      BY <3>2 DEF WalkType
    <3> QED
      BY <3>1, <3>2
  <2> QED
    BY <2>1, NoNodeType DEF WalkType, sourceVars, IsPairs
<1>2. Len(stack') \in Nat /\ Len(stack') <= 1 /\ (stack' # << >> => Top'.todo = {})
  <2>1. CASE stack' = << >>
    BY <2>1
  <2>2. CASE UNCHANGED stack /\ Len(stack) = 1 /\ Top.todo = {}
    BY <2>2 DEF Top
  <2> QED
    BY <2>1, <2>2
<1>3. LookInv'
  BY <1>2 DEF LookInv
<1>4. FramesInv'
  <2>1. CASE stack' = << >>
    BY <2>1 DEF FramesInv
  <2>2. CASE UNCHANGED stack
    BY <2>2, FramesKept, <1>2 DEF FramesInv, FrameInv
  <2> QED
    BY <2>1, <2>2
<1>5. ListingInv' /\ CopyInv' /\ SeenInv'
  BY DEF ListingInv, CopyInv, CopiedEntries, AllowedWorkingDirectories, SeenInv
<1> QED
  BY <1>1, <1>3, <1>4, <1>5, VersionsKept DEF AcquisitionInv

LEMMA AcquisitionStepInv == ASSUME AcquisitionInv, [Next]_vars PROVE AcquisitionInv'
<1>1. CASE Browser
  BY <1>1, BrowserInv
<1>2. CASE Scan
  <2>1. CASE Abort
    BY <2>1, FailedInv DEF Abort
  <2>2. CASE GiveUp
    BY <2>2, RootFrame, FailedInv DEF GiveUp
  <2> QED
    BY <1>2, <2>1, <2>2, ReadRootInv, FinishDirectoryInv, FinishScanInv, RetryInv, LstatInv,
       LstatFailsInv, ReadFileInv, ReadFileFailsInv, ReadDirectoryInv, ReadDirectoryFailsInv
    DEF Scan
<1>3. CASE UNCHANGED vars
  <2>1. /\ src' = src /\ ver' = ver /\ changes' = changes /\ attempt' = attempt
        /\ stack' = stack /\ look' = look /\ entries' = entries /\ profiles' = profiles
        /\ copies' = copies /\ dirs' = dirs /\ result' = result /\ start' = start
    BY <1>3 DEF vars
  <2>2. WalkType' /\ VersionsInv'
    BY <2>1 DEF AcquisitionInv, WalkType, IsPairs, VersionsInv
  <2>3. LookInv'
    BY <2>1 DEF AcquisitionInv, LookInv, ReadSince, Top
  <2>4. FramesInv'
    BY <2>1 DEF AcquisitionInv, FramesInv, FrameInv, ReadSince, Children
  <2>5. ListingInv' /\ CopyInv'
    BY <2>1 DEF AcquisitionInv, ListingInv, CopyInv, CopiedEntries, AllowedWorkingDirectories
  <2>6. SeenInv'
    BY <2>1 DEF AcquisitionInv, SeenInv, Ahead, Acquired, Untouched
  <2> QED
    BY <2>2, <2>3, <2>4, <2>5, <2>6 DEF AcquisitionInv
<1> QED
  BY <1>1, <1>2, <1>3 DEF Next, Done

LEMMA AcquisitionInvAlways == Spec => []AcquisitionInv
<1> QED
  BY AcquisitionInitInv, AcquisitionStepInv, PTL DEF Spec

--------------------------------------------------------------------------------
(* What the acquisition promises.                                          *)

LEMMA AcquisitionInvSuffices ==
    ASSUME AcquisitionInv
    PROVE  /\ TypeOK /\ CopiedAsRecorded /\ VerifiesUnlessLost
           /\ NoValueUnderLost /\ StillIsAcquired
<1> WalkType /\ VersionsInv /\ FramesInv /\ ListingInv /\ CopyInv /\ SeenInv
  BY DEF AcquisitionInv
<1>1. TypeOK
  <2>1. /\ src \subseteq Paths /\ changes \in 0..MaxChanges
        /\ attempt \in 1..Attempts /\ result \in {"scanning", "acquired", "failed"}
        /\ look \in [path : Nodes, ver : Versions]
        /\ profiles \subseteq Profiles /\ dirs \subseteq Dirs
        /\ DOMAIN copies \subseteq Copyable
        /\ \A p \in DOMAIN entries : p \in Paths /\ entries[p] \in EntryType
    BY DEF WalkType, IsPairs
  <2>2. ver \in [Nodes -> Versions]
    <3>1. 1..(changes + 1) \subseteq Versions
      BY TreeAssumption DEF WalkType, Versions
    <3> QED
      BY <3>1 DEF WalkType
  <2>3. \A i \in DOMAIN stack : stack[i] \in Frame
    BY DEF WalkType
  <2>4. \A i \in 2..Len(stack) : Parent[stack[i].dir] = stack[i - 1].dir
    <3> SUFFICES ASSUME NEW i \in 2..Len(stack) PROVE Parent[stack[i].dir] = stack[i - 1].dir
      OBVIOUS
    <3>1. i \in 1..Len(stack) /\ i - 1 \in 1..Len(stack) /\ i # 1
      BY DEF WalkType
    <3> QED
      BY <3>1, AboveName DEF FramesInv, FrameInv
  <2>5. \A p \in DOMAIN copies : copies[p] \in Versions /\ Ancestors(p) \subseteq dirs
    BY DEF WalkType, IsPairs, CopyInv
  <2> QED
    BY <2>1, <2>2, <2>3, <2>4, <2>5 DEF TypeOK
<1>2. CopiedAsRecorded
  BY DEF CopiedAsRecorded, EntryIssues, CopyInv
<1>3. VerifiesUnlessLost
  BY DEF VerifiesUnlessLost, Issues, EntryIssues, UnexpectedEntries, CopyInv
<1>4. NoValueUnderLost
  BY DEF NoValueUnderLost, ListingInv
<1>5. StillIsAcquired
  BY DEF StillIsAcquired, SeenInv, Acquired
<1> QED
  BY <1>1, <1>2, <1>3, <1>4, <1>5

\* The type invariant, with the path of frames from the root down and the
\* directories of the files in the Working Copy.
THEOREM AcquisitionTypes == Spec => []TypeOK
<1> QED
  BY AcquisitionInvAlways, AcquisitionInvSuffices, PTL

\* Whatever was discarded by discardDirectoryObservation or tried again, and
\* whatever the browser changed meanwhile, each entry that is copied has its file
\* with the bytes that were recorded, and each file its entry.
THEOREM CopiesMatchEntries == Spec => []CopiedAsRecorded
<1> QED
  BY AcquisitionInvAlways, AcquisitionInvSuffices, PTL

\* Unless a directory was lost, verifySource finds nothing wrong.
THEOREM UnlessLostVerifies == Spec => []VerifiesUnlessLost
<1> QED
  BY AcquisitionInvAlways, AcquisitionInvSuffices, PTL

\* An entry with a value is in no directory that inspectDirectory gave up.
THEOREM NothingKeptUnderLost == Spec => []NoValueUnderLost
<1> QED
  BY AcquisitionInvAlways, AcquisitionInvSuffices, PTL

\* A file that nothing touched since the attempt began, and no failing call is in
\* the way of, is acquired by a scan that ends.
THEOREM UntouchedIsAcquired == Spec => []StillIsAcquired
<1> QED
  BY AcquisitionInvAlways, AcquisitionInvSuffices, PTL

--------------------------------------------------------------------------------
(* The scan of a directory that ends.                                      *)

\* Only two actions end one.
LEMMA OnlyFinishes ==
    ASSUME AcquisitionInv, Next, ~FinishDirectory, ~FinishScan, NEW d
    PROVE  ~Keeps(d)
<1> WalkType
  BY DEF AcquisitionInv
<1>1. result = "scanning" /\ result' = "acquired" => FALSE
  BY DEF Next, Browser, Change, WriteFile, CreateNode, RemoveNode, Scan, Done, vars, Abort,
     ReadRoot, Retry, GiveUp, Lstat, LstatFails, ReadFile, ReadFileFails, ReadDirectory,
     ReadDirectoryFails
<1>2. ASSUME Len(stack) > 1, stack' = Front(stack) PROVE FALSE
  <2>1. Len(stack') = Len(stack) - 1 /\ stack # << >> /\ Len(stack) \in Nat
    <3>1. Len(stack') = Len(stack) - 1 /\ stack # << >>
      BY <1>2, FrontFacts
    <3>2. Len(stack) \in Nat
      BY DEF WalkType
    <3> QED
      BY <3>1, <3>2
  <2>2. \A e \in Dirs \cup {Root} : ~Push(e)
    <3> SUFFICES ASSUME NEW e \in Dirs \cup {Root}, Push(e) PROVE FALSE
      OBVIOUS
    <3>1. Len(stack') = Len(stack) + 1
      BY PushFacts
    <3> QED
      BY <2>1, <3>1
  <2>3. \A p : stack' # Took(p)
    BY <2>1, TookFacts
  <2>4. ~UNCHANGED stack /\ stack' # << >> /\ ~(Len(stack) = 1)
    BY <1>2, <2>1, FrontFacts
  <2> QED
    BY <2>2, <2>3, <2>4 DEF Next, Browser, Change, WriteFile, CreateNode, RemoveNode, Scan, Done, vars,
       Abort, ReadRoot, Retry, GiveUp, RootWalked, Lstat, LstatFails, ReadFile, ReadFileFails,
       ReadDirectory, ReadDirectoryFails
<1> QED
  BY <1>1, <1>2 DEF Keeps

LEMMA KeptIsWhole ==
    ASSUME AcquisitionInv, Next, NEW d \in Dirs \cup {Root}, Keeps(d)
    PROVE  Listed(d)' = Children(src, d)
<1> WalkType /\ FramesInv /\ ListingInv
  BY DEF AcquisitionInv
<1>1. FinishDirectory \/ FinishScan
  BY OnlyFinishes
<1>2. CASE FinishScan
  <2>1. /\ result = "scanning" /\ look = NoNode /\ Len(stack) = 1 /\ Top = stack[1] /\ Top.todo = {}
        /\ Top.dir = Root /\ stack' = stack /\ entries' = WithExpected
        /\ Children(src, Root) = Top.names
    BY <1>2, RootFrame DEF FinishScan, Unchanged
  <2>2. d = Root
    BY <1>2, <2>1 DEF Keeps
  <2>3. \A q \in Paths : Parent[q] = Root => (q \in DOMAIN entries <=> q \in Top.names)
    BY <2>1, ParentFacts DEF ListingInv, NoNode
  <2>4. \A q \in DOMAIN entries' : Parent[q] = Root /\ q \notin DOMAIN entries =>
           entries'[q].state = "absent"
    <3> SUFFICES ASSUME NEW q \in ExpectedNow, Parent[q] = Root, q \notin DOMAIN entries
                 PROVE  entries'[q].state = "absent"
      BY <2>1 DEF WithExpected
    <3>1. Ancestors(q) = {} /\ q \in Paths
      BY AncestorsOfTop, TreeAssumption DEF ExpectedNow, Paths
    <3>2. ~HasUnavailableParent(q)
      BY <3>1 DEF HasUnavailableParent
    <3> QED
      BY <2>1, <3>2 DEF WithExpected, Entry
  <2>5. \A q \in DOMAIN entries : q \in DOMAIN entries' /\ entries'[q].state # "absent" /\ q \in Paths
    BY <2>1 DEF WithExpected, ListingInv, WalkType, IsPairs
  <2>6. Listed(Root)' = {q \in DOMAIN entries : Parent[q] = Root}
    BY <2>4, <2>5 DEF Listed
  <2>7. Children(src, Root) \subseteq Paths /\ \A q \in Children(src, Root) : Parent[q] = Root
    BY DEF Children, WalkType
  <2> QED
    BY <2>1, <2>2, <2>3, <2>5, <2>6, <2>7
<1>3. CASE FinishDirectory
  <2>1. /\ Len(stack) > 1 /\ look = NoNode /\ Top.todo = {} /\ result' = result
        /\ \/ Unchanged(Top) /\ entries' = entries
           \/ Discard(Top.dir)
    BY <1>3 DEF FinishDirectory
  <2>2. /\ result = "scanning" /\ Top = stack[Len(stack)] /\ Top.dir \in Paths
        /\ Len(stack) \in 1..Len(stack)
    BY <2>1, TopFrame, TopIsLast
  <2>3. d = Top.dir /\ entries'[d].state = "value"
    BY <2>1, <2>2 DEF Keeps
  <2>4. ~Discard(Top.dir)
    BY <2>3 DEF Discard, With, Unavailable, Entry
  <2>5. Children(src, d) = Top.names /\ entries' = entries
    BY <2>1, <2>3, <2>4 DEF Unchanged
  <2>6. \A q \in Paths : Parent[q] = d => (q \in DOMAIN entries <=> q \in Top.names)
    BY <2>1, <2>2, <2>3, ParentFacts DEF ListingInv, NoNode
  <2>7. \A q \in DOMAIN entries : q \in Paths /\ entries[q].state # "absent"
    BY <2>2 DEF ListingInv, WalkType, IsPairs
  <2>8. Listed(d)' = {q \in DOMAIN entries : Parent[q] = d}
    BY <2>5, <2>7 DEF Listed
  <2>9. Children(src, d) \subseteq Paths /\ \A q \in Children(src, d) : Parent[q] = d
    BY DEF Children, WalkType
  <2> QED
    BY <2>5, <2>6, <2>7, <2>8, <2>9
<1> QED
  BY <1>1, <1>2, <1>3

\* When inspectDirectory keeps what it read of a directory, or scanOnce ends, the
\* Manifest has an entry for each name that is there, and for no other that it
\* does not call absent.
THEOREM KeepsWhatIsThere == Spec => ListsWhatIsThere
<1>1. AcquisitionInv /\ [Next]_vars =>
         [\A d \in Dirs \cup {Root} : Keeps(d) => Listed(d)' = Children(src, d)]_vars
  BY KeptIsWhole
<1> QED
  BY <1>1, AcquisitionInvAlways, PTL DEF Spec, ListsWhatIsThere
================================================================================
