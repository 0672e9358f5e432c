---------------------------- MODULE CaseUsers_proofs ---------------------------
(***************************************************************************)
(* Proofs about what works on a Case beside the Case store: the payload    *)
(* files of its Analysis Runs, its pages (FindingQuery), the loops over    *)
(* them (PageLoops) and the lists of the dashboard (DashboardLists); and   *)
(* that a behaviour of CaseUsers is one of each part, so that what the     *)
(* proofs of SqlitePasses and ExtractPublish say holds of it.              *)
(***************************************************************************)
EXTENDS CaseUsers, SqlitePasses_proofs, ExtractPublish_proofs, SequenceTheorems

(***************************************************************************)
(* Payload files.                                                          *)
(*                                                                         *)
(* A name is in danger while it has a payload that a loss of power would   *)
(* take.  Only the call that renamed it may have it then, or it is among   *)
(* those that a stopped call left; so what a call has dealt with is either *)
(* safe, or in danger by its own doing, which its sync ends, or kept.      *)
(***************************************************************************)

Safe(p) == file[p] = "whole" /\ synced[p] = "whole"

InDanger(p) == file[p] = "whole" /\ synced[p] # "whole"

PayloadRuns ==
    [pc : {"idle", "open", "write"}, todo : SUBSET Payloads, call : SUBSET Payloads,
     renamed : SUBSET Payloads, cites : SUBSET Payloads, calls : Nat, done : Nat]

PayloadShape ==
    /\ analysis \in PayloadRuns
    /\ analysis.pc # "write" => analysis.renamed = {} /\ analysis.todo = {}

DangerIsKnown == \A p \in Payloads : InDanger(p) => p \in left \cup analysis.renamed

\* What the call under way has dealt with.
DealtWith ==
    analysis.pc = "write" =>
        \A p \in analysis.call \ (analysis.todo \cup kept) :
            file[p] = "whole" /\ (Safe(p) \/ p \in analysis.renamed)

\* What the calls that returned have dealt with, and the run will cite.
ReadyToCite == \A p \in analysis.cites \ kept : Safe(p)

CitedAreSafe == \A p \in cited \ kept : Safe(p)

PayloadInv ==
    PayloadType /\ PayloadShape /\ DangerIsKnown /\ DealtWith /\ ReadyToCite /\ CitedAreSafe

--------------------------------------------------------------------------------
LEMMA PayloadInitInv == PayloadInit => PayloadInv
BY DEF PayloadInit, PayloadInv, PayloadType, FileStates, PayloadShape, PayloadRuns, Idle,
   DangerIsKnown, InDanger, DealtWith, ReadyToCite, CitedAreSafe, Safe

LEMMA IdleShape ==
    ASSUME NEW n \in Nat
    PROVE  /\ Idle(n) \in PayloadRuns /\ Idle(n).pc = "idle" /\ Idle(n).done = n
           /\ Idle(n).todo = {} /\ Idle(n).call = {} /\ Idle(n).renamed = {}
           /\ Idle(n).cites = {}
BY DEF Idle, PayloadRuns

\* Every way in which a run ends or a call stops, and leaves the disk alone.
LEMMA CallStops ==
    ASSUME PayloadInv, analysis' \in PayloadRuns, analysis'.pc # "write",
           analysis'.renamed = {}, analysis'.todo = {},
           analysis'.cites \subseteq analysis.cites,
           UNCHANGED <<directory, file, synced, cited, kept>>, LeaveNames
    PROVE  PayloadInv'
<1> USE DEF PayloadInv
<1>1. PayloadType' /\ PayloadShape'
  BY DEF PayloadType, PayloadShape, LeaveNames, PayloadRuns
<1>2. DangerIsKnown'
  BY DEF DangerIsKnown, InDanger, LeaveNames
<1>3. DealtWith' /\ ReadyToCite' /\ CitedAreSafe'
  BY DEF DealtWith, ReadyToCite, CitedAreSafe, Safe
<1> QED BY <1>1, <1>2, <1>3

LEMMA BeginAnalysisInv == ASSUME PayloadInv, BeginAnalysis PROVE PayloadInv'
<1> USE DEF PayloadInv
<1>1. analysis.done \in Nat /\ analysis.renamed = {}
  BY DEF BeginAnalysis, PayloadShape, PayloadRuns
<1>2. /\ analysis' \in PayloadRuns /\ analysis'.pc = "open" /\ analysis'.todo = {}
      /\ analysis'.call = {} /\ analysis'.renamed = {} /\ analysis'.cites = {}
  BY <1>1 DEF BeginAnalysis, Idle, PayloadRuns
<1>3. UNCHANGED <<directory, file, synced, cited, left, kept>>
  BY DEF BeginAnalysis
<1>4. PayloadType' /\ PayloadShape'
  BY <1>2, <1>3 DEF PayloadType, PayloadShape
<1>5. DangerIsKnown' /\ DealtWith' /\ ReadyToCite' /\ CitedAreSafe'
  BY <1>1, <1>2, <1>3 DEF DangerIsKnown, InDanger, DealtWith, ReadyToCite, CitedAreSafe, Safe
<1> QED BY <1>4, <1>5

LEMMA BeginCallInv == ASSUME PayloadInv, BeginCall PROVE PayloadInv'
<1> USE DEF PayloadInv
<1> PICK ps \in SUBSET Payloads :
        analysis' = [analysis EXCEPT !.pc = "write", !.todo = ps, !.call = ps, !.calls = @ + 1]
  BY DEF BeginCall
<1>1. /\ analysis' \in PayloadRuns /\ analysis'.pc = "write" /\ analysis'.todo = ps
      /\ analysis'.call = ps /\ analysis'.renamed = analysis.renamed
      /\ analysis'.cites = analysis.cites
  <2>1. analysis \in PayloadRuns
    BY DEF PayloadShape
  <2>2. analysis' = [pc |-> "write", todo |-> ps, call |-> ps, renamed |-> analysis.renamed,
                     cites |-> analysis.cites, calls |-> analysis.calls + 1,
                     done |-> analysis.done]
    BY <2>1 DEF PayloadRuns
  <2>3. analysis.calls + 1 \in Nat /\ analysis.done \in Nat
    BY <2>1 DEF PayloadRuns
  <2> QED BY <2>1, <2>2, <2>3 DEF PayloadRuns
<1>2. UNCHANGED <<directory, file, synced, cited, left, kept>>
  BY DEF BeginCall
<1>3. PayloadType' /\ PayloadShape'
  BY <1>1, <1>2 DEF PayloadType, PayloadShape
<1>4. DangerIsKnown' /\ DealtWith' /\ ReadyToCite' /\ CitedAreSafe'
  BY <1>1, <1>2 DEF DangerIsKnown, InDanger, DealtWith, ReadyToCite, CitedAreSafe, Safe
<1> QED BY <1>3, <1>4

LEMMA WritePayloadInv ==
    ASSUME PayloadInv, NEW p \in Payloads, WritePayload(p) PROVE PayloadInv'
<1> USE DEF PayloadInv
<1>1. analysis.pc = "write" /\ p \in analysis.todo /\ UNCHANGED <<directory, synced, cited>>
  BY DEF WritePayload
<1>2. CASE HoldsPayload(p)
  <2>1. /\ analysis' = [analysis EXCEPT !.todo = @ \ {p}]
        /\ kept' = kept \cup ({p} \cap left) /\ UNCHANGED <<file, left>>
    BY <1>2 DEF WritePayload
  <2>2. /\ analysis' \in PayloadRuns /\ analysis'.pc = "write"
        /\ analysis'.todo = analysis.todo \ {p} /\ analysis'.call = analysis.call
        /\ analysis'.renamed = analysis.renamed /\ analysis'.cites = analysis.cites
    BY <1>1, <2>1 DEF PayloadShape, PayloadRuns
  <2>3. PayloadType' /\ PayloadShape'
    BY <1>1, <2>1, <2>2 DEF PayloadType, PayloadShape
  <2>4. DangerIsKnown' /\ ReadyToCite' /\ CitedAreSafe'
    BY <1>1, <2>1, <2>2 DEF DangerIsKnown, InDanger, ReadyToCite, CitedAreSafe, Safe
  <2>5. p \notin kept' => file[p] = "whole" /\ (Safe(p) \/ p \in analysis.renamed)
    BY <1>2, <2>1 DEF HoldsPayload, DangerIsKnown, InDanger, Safe
  <2>6. DealtWith'
    BY <1>1, <2>1, <2>2, <2>5 DEF DealtWith, Safe
  <2> QED BY <2>3, <2>4, <2>6
<1>3. CASE ~HoldsPayload(p)
  <2>1. /\ file' = [file EXCEPT ![p] = "whole"]
        /\ analysis' = [analysis EXCEPT !.todo = @ \ {p}, !.renamed = @ \cup {p}]
        /\ left' = left \ {p} /\ kept' = kept /\ file[p] # "whole"
    BY <1>3 DEF WritePayload, HoldsPayload
  <2>2. /\ analysis' \in PayloadRuns /\ analysis'.pc = "write"
        /\ analysis'.todo = analysis.todo \ {p} /\ analysis'.call = analysis.call
        /\ analysis'.renamed = analysis.renamed \cup {p} /\ analysis'.cites = analysis.cites
    BY <1>1, <2>1 DEF PayloadShape, PayloadRuns
  <2>3. file' \in [Payloads -> FileStates] /\ file'[p] = "whole"
        /\ \A q \in Payloads \ {p} : file'[q] = file[q]
    BY <2>1 DEF PayloadType, FileStates
  <2>4. PayloadType' /\ PayloadShape'
    BY <1>1, <2>1, <2>2, <2>3 DEF PayloadType, PayloadShape
  <2>5. \A q \in Payloads : Safe(q) => Safe(q)'
    BY <1>1, <2>1, <2>3 DEF Safe
  <2>6. DangerIsKnown'
    BY <1>1, <2>1, <2>2, <2>3 DEF DangerIsKnown, InDanger
  <2>7. ReadyToCite' /\ CitedAreSafe'
    BY <1>1, <2>1, <2>2, <2>5 DEF PayloadType, ReadyToCite, CitedAreSafe
  <2>8. DealtWith'
    BY <1>1, <2>1, <2>2, <2>3, <2>5 DEF PayloadType, DealtWith
  <2> QED BY <2>4, <2>6, <2>7, <2>8
<1> QED BY <1>2, <1>3

LEMMA EndCallInv == ASSUME PayloadInv, EndCall PROVE PayloadInv'
<1> USE DEF PayloadInv
<1>1. /\ analysis.pc = "write" /\ analysis.todo = {}
      /\ analysis' = [analysis EXCEPT !.pc = "open", !.call = {}, !.renamed = {},
                                      !.cites = @ \cup analysis.call]
      /\ UNCHANGED <<directory, file, cited>>
  BY DEF EndCall
<1>2. /\ analysis' \in PayloadRuns /\ analysis'.pc = "open" /\ analysis'.todo = {}
      /\ analysis'.call = {} /\ analysis'.renamed = {}
      /\ analysis'.cites = analysis.cites \cup analysis.call
  BY <1>1 DEF PayloadShape, PayloadRuns
<1>3. CASE SyncsDirectory
  <2>1. synced' = file /\ left' = {} /\ kept' = {p \in kept : file[p] # "whole"}
    BY <1>1, <1>3 DEF EndCall, SettleNames
  <2>2. PayloadType' /\ PayloadShape'
    BY <1>1, <1>2, <2>1 DEF PayloadType, PayloadShape
  <2>3. \A p \in Payloads : file[p] = "whole" => Safe(p)'
    BY <1>1, <2>1 DEF Safe
  <2>4. DangerIsKnown'
    BY <1>1, <2>1 DEF DangerIsKnown, InDanger
  <2>5. \A p \in Payloads \ kept' : p \in kept => Safe(p)'
    BY <2>1, <2>3
  <2>6. ReadyToCite'
    BY <1>1, <1>2, <2>3, <2>5 DEF PayloadType, ReadyToCite, DealtWith, Safe
  <2>7. CitedAreSafe'
    BY <1>1, <2>3, <2>5 DEF PayloadType, CitedAreSafe, Safe
  <2> QED BY <1>2, <2>2, <2>4, <2>6, <2>7 DEF DealtWith
<1>4. CASE ~SyncsDirectory
  <2>1. UNCHANGED <<synced, left, kept>> /\ analysis.renamed = {}
    BY <1>4 DEF EndCall, SyncsDirectory
  <2>2. PayloadType' /\ PayloadShape'
    BY <1>1, <1>2, <2>1 DEF PayloadType, PayloadShape
  <2>3. DangerIsKnown' /\ CitedAreSafe'
    BY <1>1, <1>2, <2>1 DEF DangerIsKnown, InDanger, CitedAreSafe, Safe
  <2>4. ReadyToCite'
    BY <1>1, <1>2, <2>1 DEF ReadyToCite, DealtWith, Safe
  <2> QED BY <1>2, <2>2, <2>3, <2>4 DEF DealtWith
<1> QED BY <1>3, <1>4

LEMMA LosePowerInv == ASSUME PayloadInv, LosePower PROVE PayloadInv'
<1> USE DEF PayloadInv
<1> PICK lost \in SUBSET {p \in Payloads : file[p] # synced[p]} :
      file' = [p \in Payloads |-> IF p \in lost THEN synced[p] ELSE file[p]]
  BY DEF LosePower
<1>1. /\ synced' = file' /\ left' = {} /\ kept' = {p \in kept : file'[p] # "whole"}
      /\ analysis' = Idle(analysis.done) /\ UNCHANGED <<directory, cited>>
  BY DEF LosePower, SettleNames
<1>2. analysis.done \in Nat
  BY DEF PayloadShape, PayloadRuns
<1>3. PayloadType' /\ PayloadShape'
  BY <1>1, <1>2, IdleShape DEF PayloadType, PayloadShape
<1>4. \A p \in Payloads : file'[p] = "whole" => Safe(p)'
  BY <1>1 DEF Safe
<1>5. \A p \in Payloads : Safe(p) => Safe(p)'
  BY <1>1 DEF Safe
<1>6. DangerIsKnown' /\ DealtWith' /\ ReadyToCite'
  BY <1>1, <1>2, IdleShape DEF DangerIsKnown, InDanger, DealtWith, ReadyToCite
<1>7. CitedAreSafe'
  BY <1>1, <1>4, <1>5 DEF PayloadType, CitedAreSafe
<1> QED BY <1>3, <1>6, <1>7

LEMMA PayloadNextInv == PayloadInv /\ [PayloadNext]_payloadVars => PayloadInv'
<1> SUFFICES ASSUME PayloadInv, [PayloadNext]_payloadVars PROVE PayloadInv'
  OBVIOUS
<1>1. analysis \in PayloadRuns /\ analysis.done \in Nat
  BY DEF PayloadInv, PayloadShape, PayloadRuns
<1>2. CASE FailCall
  <2>1. CASE directory = "favicons"
    <3>1. analysis' = [analysis EXCEPT !.pc = "open", !.todo = {}, !.call = {}, !.renamed = {}]
      BY <1>2, <2>1 DEF FailCall
    <3>2. /\ analysis' \in PayloadRuns /\ analysis'.pc = "open" /\ analysis'.renamed = {}
          /\ analysis'.todo = {} /\ analysis'.cites = analysis.cites
      BY <1>1, <3>1 DEF PayloadRuns
    <3> QED BY <1>2, <3>2, CallStops DEF FailCall
  <2>2. CASE directory # "favicons"
    <3>1. analysis' = Idle(analysis.done)
      BY <1>2, <2>2 DEF FailCall
    <3> QED BY <1>1, <1>2, <3>1, IdleShape, CallStops DEF FailCall
  <2> QED BY <2>1, <2>2
<1>3. CASE CommitRecords
  <2>1. /\ analysis' = Idle(analysis.done) /\ cited' = cited \cup analysis.cites
        /\ UNCHANGED <<directory, file, synced, left, kept>> /\ analysis.renamed = {}
    BY <1>3 DEF CommitRecords, PayloadInv, PayloadShape
  <2>2. PayloadType' /\ PayloadShape'
    BY <1>1, <2>1, IdleShape DEF PayloadInv, PayloadType, PayloadShape
  <2>3. DangerIsKnown' /\ DealtWith' /\ ReadyToCite'
    BY <1>1, <2>1, IdleShape DEF PayloadInv, DangerIsKnown, InDanger, DealtWith, ReadyToCite
  <2>4. CitedAreSafe'
    BY <2>1 DEF PayloadInv, CitedAreSafe, ReadyToCite, Safe
  <2> QED BY <2>2, <2>3, <2>4 DEF PayloadInv
<1>4. CASE KillAnalysis
  BY <1>1, <1>4, IdleShape, CallStops DEF KillAnalysis
<1>5. CASE UNCHANGED payloadVars
  BY <1>5 DEF payloadVars, PayloadInv, PayloadType, PayloadShape, DangerIsKnown, InDanger,
     DealtWith, ReadyToCite, CitedAreSafe, Safe
<1> QED BY <1>2, <1>3, <1>4, <1>5, BeginAnalysisInv, BeginCallInv, EndCallInv, LosePowerInv,
           WritePayloadInv DEF PayloadNext

--------------------------------------------------------------------------------
LEMMA PayloadInvariant == PayloadSpec => []PayloadInv
BY PayloadInitInv, PayloadNextInv, PTL DEF PayloadSpec

\* Every payload that a committed record cites is on the disk, whole, whatever
\* failed, was killed or lost power since, unless a call, of the same run or of a
\* later one, kept a file whose name a stopped call had not synced, and nobody has
\* synced or written it since (payload-files.ts 35-41).
THEOREM CitedOnDisk == PayloadSpec => []CitedPayloadsKept
<1>1. PayloadInv => CitedPayloadsKept
  BY DEF PayloadInv, CitedAreSafe, CitedPayloadsKept, Safe
<1> QED BY <1>1, PayloadInvariant, PTL

(***************************************************************************)
(* Pages of a list route.                                                  *)
(*                                                                         *)
(* The order of a route is total, so that a row's rank, how many precede   *)
(* it, names its place; and what follows a place, sorted on its own, is    *)
(* the rest of the route.                                                  *)
(***************************************************************************)
Dirs == {"asc", "desc"}
Before(S, dir, r) == {s \in S : Precedes(dir, s, r)}
Rank(S, dir, r) == Cardinality(Before(S, dir, r))

\* The order of a route is total.
LEMMA PrecedesIsOrder ==
    ASSUME NEW dir \in Dirs, NEW a \in Rows, NEW b \in Rows, NEW c \in Rows
    PROVE  /\ ~Precedes(dir, a, a)
           /\ Precedes(dir, a, b) /\ Precedes(dir, b, c) => Precedes(dir, a, c)
           /\ a = b \/ Precedes(dir, a, b) \/ Precedes(dir, b, a)
<1>1. a.key \in Int /\ b.key \in Int /\ c.key \in Int /\ a.id \in Nat /\ b.id \in Nat /\ c.id \in Nat
  BY RowsAssumption
<1>2. a.id = b.id => a = b
  BY RowsAssumption
<1>3. /\ ~Precedes(dir, a, a)
      /\ Precedes(dir, a, b) /\ Precedes(dir, b, c) => Precedes(dir, a, c)
      /\ a.id = b.id \/ Precedes(dir, a, b) \/ Precedes(dir, b, a)
  BY <1>1 DEF Precedes, Dirs
<1> QED BY <1>2, <1>3

\* A sequence that has every row of S, in the order, is what Sorted makes of S.
LEMMA SortedIs ==
    ASSUME NEW S \in SUBSET Rows, NEW dir \in Dirs, NEW n \in Nat, NEW f \in [1..n -> S],
           \A r \in S : \E i \in 1..n : f[i] = r,
           \A i, j \in 1..n : i < j => Precedes(dir, f[i], f[j])
    PROVE  Cardinality(S) = n /\ Sorted(S, dir) = f
<1>1. \A i, j \in 1..n : f[i] = f[j] => i = j
  <2> SUFFICES ASSUME NEW i \in 1..n, NEW j \in 1..n, f[i] = f[j], i # j PROVE FALSE
    OBVIOUS
  <2>1. ~Precedes(dir, f[i], f[j]) /\ ~Precedes(dir, f[j], f[i])
    BY PrecedesIsOrder
  <2> QED BY <2>1
<1>2. \A i, j \in 1..n : Precedes(dir, f[i], f[j]) => i < j
  <2> SUFFICES ASSUME NEW i \in 1..n, NEW j \in 1..n, Precedes(dir, f[i], f[j]), ~(i < j)
               PROVE FALSE
    OBVIOUS
  <2>1. f[i] \in Rows /\ f[j] \in Rows
    OBVIOUS
  <2>2. ~Precedes(dir, f[i], f[i])
    BY <2>1, PrecedesIsOrder
  <2>3. Precedes(dir, f[i], f[j]) /\ Precedes(dir, f[j], f[i]) => Precedes(dir, f[i], f[i])
    BY <2>1, PrecedesIsOrder
  <2>4. i = j \/ j < i
    OBVIOUS
  <2> QED BY <2>2, <2>3, <2>4
<1>3. Cardinality(S) = n
  <2>1. f \in Bijection(1..n, S)
    BY <1>1 DEF Bijection, Injection, Surjection, IsInjective
  <2> QED BY <2>1, FS_Interval, FS_Bijection, 1 \in Int DEF ExistsBijection
<1>4. ASSUME NEW i \in 1..n PROVE Rank(S, dir, f[i]) = i - 1
  <2> DEFINE g == [j \in 1 .. i - 1 |-> f[j]]
  <2>1. \A j \in 1 .. i - 1 : f[j] \in S /\ Precedes(dir, f[j], f[i])
    OBVIOUS
  <2>2. \A r \in Before(S, dir, f[i]) : \E j \in 1 .. i - 1 : f[j] = r
    BY <1>2 DEF Before
  <2>3. g \in Bijection(1 .. i - 1, Before(S, dir, f[i]))
    BY <1>1, <2>1, <2>2 DEF Bijection, Injection, Surjection, IsInjective, Before
  <2>4. IsFiniteSet(1 .. i - 1) /\ Cardinality(1 .. i - 1) = i - 1
    BY FS_Interval, i - 1 \in Int, 1 \in Int
  <2> QED BY <2>3, <2>4, FS_Bijection DEF ExistsBijection, Rank
<1>5. ASSUME NEW i \in 1..n
      PROVE  (CHOOSE r \in S : Rank(S, dir, r) = i - 1) = f[i]
  <2>1. \A r \in S : Rank(S, dir, r) = i - 1 => r = f[i]
    BY <1>4
  <2> QED BY <1>4, <2>1
<1>6. Sorted(S, dir) = [i \in 1..n |-> CHOOSE r \in S : Rank(S, dir, r) = i - 1]
  BY <1>3 DEF Sorted, Rank, Before
<1> HIDE DEF Sorted, Rank
<1>7. Sorted(S, dir) = [i \in 1..n |-> f[i]]
  BY <1>5, <1>6
<1> QED BY <1>3, <1>7

\* Every set of rows has such a sequence.
LEMMA SortedExists ==
    ASSUME NEW S \in SUBSET Rows, NEW dir \in Dirs
    PROVE  \E n \in Nat : \E f \in [1..n -> S] :
              /\ \A r \in S : \E i \in 1..n : f[i] = r
              /\ \A i, j \in 1..n : i < j => Precedes(dir, f[i], f[j])
<1> DEFINE n == Cardinality(S)
           rank == [r \in S |-> Rank(S, dir, r) + 1]
<1>1. IsFiniteSet(S) /\ n \in Nat
  BY RowsAssumption, FS_Subset, FS_CardinalityType
<1>2. ASSUME NEW r \in S PROVE Rank(S, dir, r) \in 0 .. n - 1
  <2>1. Before(S, dir, r) \in SUBSET (S \ {r})
    BY PrecedesIsOrder DEF Before
  <2>2. IsFiniteSet(S \ {r}) /\ Cardinality(S \ {r}) = n - 1
    BY <1>1, FS_RemoveElement
  <2>3. IsFiniteSet(Before(S, dir, r)) /\ Rank(S, dir, r) <= n - 1
    BY <2>1, <2>2, FS_Subset DEF Rank
  <2> QED BY <1>1, <2>3, FS_CardinalityType DEF Rank
<1>3. ASSUME NEW r \in S, NEW t \in S, Precedes(dir, r, t)
      PROVE  Rank(S, dir, r) < Rank(S, dir, t)
  <2>1. Before(S, dir, r) \cup {r} \in SUBSET Before(S, dir, t)
    BY <1>3, PrecedesIsOrder DEF Before
  <2>2. r \notin Before(S, dir, r)
    BY PrecedesIsOrder DEF Before
  <2>3. IsFiniteSet(Before(S, dir, r)) /\ IsFiniteSet(Before(S, dir, t))
    BY <1>1, FS_Subset DEF Before
  <2>4. Cardinality(Before(S, dir, r) \cup {r}) = Rank(S, dir, r) + 1
    BY <2>2, <2>3, FS_AddElement DEF Rank
  <2>5. Cardinality(Before(S, dir, r) \cup {r}) <= Rank(S, dir, t)
    BY <2>1, <2>3, FS_Subset DEF Rank
  <2> QED BY <1>2, <2>4, <2>5
<1>4. rank \in [S -> 1..n]
  BY <1>1, <1>2
<1>5. \A r, t \in S : rank[r] < rank[t] <=> Precedes(dir, r, t)
  <2> SUFFICES ASSUME NEW r \in S, NEW t \in S
               PROVE  rank[r] < rank[t] <=> Precedes(dir, r, t)
    OBVIOUS
  <2>1. r = t \/ Precedes(dir, r, t) \/ Precedes(dir, t, r)
    BY PrecedesIsOrder
  <2>2. r = t => ~Precedes(dir, r, t)
    BY PrecedesIsOrder
  <2>3. Rank(S, dir, r) \in Int /\ Rank(S, dir, t) \in Int
    BY <1>2
  <2>4. Precedes(dir, r, t) => Rank(S, dir, r) < Rank(S, dir, t)
    BY <1>3
  <2>5. Precedes(dir, t, r) => Rank(S, dir, t) < Rank(S, dir, r)
    BY <1>3
  <2> QED BY <2>1, <2>2, <2>3, <2>4, <2>5
<1>6. \A r, t \in S : rank[r] = rank[t] => r = t
  <2> SUFFICES ASSUME NEW r \in S, NEW t \in S, rank[r] = rank[t] PROVE r = t
    OBVIOUS
  <2> HIDE DEF rank
  <2>1. ~Precedes(dir, r, t) /\ ~Precedes(dir, t, r)
    BY <1>1, <1>4, <1>5
  <2> QED BY <2>1, PrecedesIsOrder
<1> HIDE DEF rank
<1>7. rank \in Surjection(S, 1..n)
  <2>1. rank \in Injection(S, 1..n)
    BY <1>4, <1>6 DEF Injection, IsInjective
  <2>2. IsFiniteSet(1..n) /\ Cardinality(1..n) = n
    BY <1>1, FS_Interval, 1 \in Int
  <2> QED BY <2>1, <2>2, FS_Injection
<1> DEFINE f == [i \in 1..n |-> CHOOSE r \in S : rank[r] = i]
<1>8. \A i \in 1..n : f[i] \in S /\ rank[f[i]] = i
  BY <1>7 DEF Surjection
<1>9. \A r \in S : rank[r] \in 1..n /\ f[rank[r]] = r
  BY <1>4, <1>6, <1>8
<1>10. f \in [1..n -> S]
  BY <1>8
<1> HIDE DEF f, n
<1>11. \A i, j \in 1..n : i < j => Precedes(dir, f[i], f[j])
  BY <1>5, <1>8
<1> QED BY <1>1, <1>9, <1>10, <1>11

\* What Sorted makes of a set: a sequence of its rows, each once, in the order.
LEMMA SortedFacts ==
    ASSUME NEW S \in SUBSET Rows, NEW dir \in Dirs
    PROVE  /\ Cardinality(S) \in Nat /\ Sorted(S, dir) \in Seq(Rows)
           /\ Len(Sorted(S, dir)) = Cardinality(S)
           /\ Sorted(S, dir) \in [1 .. Cardinality(S) -> S]
           /\ \A r \in S : \E i \in 1 .. Cardinality(S) : Sorted(S, dir)[i] = r
           /\ \A i, j \in 1 .. Cardinality(S) :
                 i < j <=> Precedes(dir, Sorted(S, dir)[i], Sorted(S, dir)[j])
<1> PICK n \in Nat : \E f \in [1..n -> S] :
              /\ \A r \in S : \E i \in 1..n : f[i] = r
              /\ \A i, j \in 1..n : i < j => Precedes(dir, f[i], f[j])
  BY SortedExists
<1> PICK f \in [1..n -> S] :
              /\ \A r \in S : \E i \in 1..n : f[i] = r
              /\ \A i, j \in 1..n : i < j => Precedes(dir, f[i], f[j])
  OBVIOUS
<1>1. Cardinality(S) = n /\ Sorted(S, dir) = f
  BY SortedIs
<1>2. f \in Seq(Rows) /\ Len(f) = n
  <2>1. f \in [1..n -> Rows]
    OBVIOUS
  <2> QED BY <2>1, IsASeq
<1>3. \A i, j \in 1..n : Precedes(dir, f[i], f[j]) => i < j
  <2> SUFFICES ASSUME NEW i \in 1..n, NEW j \in 1..n, Precedes(dir, f[i], f[j]), ~(i < j)
               PROVE FALSE
    OBVIOUS
  <2>1. f[i] \in Rows /\ f[j] \in Rows
    OBVIOUS
  <2>2. ~Precedes(dir, f[i], f[i])
    BY <2>1, PrecedesIsOrder
  <2>3. Precedes(dir, f[i], f[j]) /\ Precedes(dir, f[j], f[i]) => Precedes(dir, f[i], f[i])
    BY <2>1, PrecedesIsOrder
  <2>4. i = j \/ j < i
    OBVIOUS
  <2> QED BY <2>2, <2>3, <2>4
<1> QED BY <1>1, <1>2, <1>3

\* The cursor at a row, and what it means that a reader holds "rows" of a route
\* and "after".
CursorAt(c, q, r) == [print |-> Fingerprint(c, q), key |-> r.key, id |-> r.id]

ReadTo(c, q, rows, after) ==
    LET route == Route(c, q)
    IN  /\ IsPrefixOf(rows, route)
        /\ \/ rows = route /\ after = NoCursor
           \/ /\ Len(rows) \in 1 .. Len(route) - 1
              /\ after = CursorAt(c, q, route[Len(rows)])

\* The part of a sequence after its first k elements, and its beginning.
LEMMA Slice ==
    ASSUME NEW S, NEW s, NEW k \in Nat, NEW m \in Nat, k <= m,
           \A i \in k + 1 .. m : s[i] \in S
    PROVE  /\ SubSeq(s, k + 1, m) \in Seq(S) /\ Len(SubSeq(s, k + 1, m)) = m - k
           /\ \A i \in 1 .. m - k : SubSeq(s, k + 1, m)[i] = s[k + i]
<1> DEFINE t == SubSeq(s, k + 1, m)
<1>1. k + 1 \in Int /\ m \in Int
  OBVIOUS
<1>2. /\ t \in Seq(S) /\ Len(t) = IF k + 1 <= m THEN m - (k + 1) + 1 ELSE 0
      /\ \A i \in 1 .. m - (k + 1) + 1 : t[i] = s[k + 1 + i - 1]
  BY <1>1, SubSeqProperties
<1> HIDE DEF t
<1>3. Len(t) = m - k /\ m - (k + 1) + 1 = m - k
  BY <1>2
<1>4. \A i \in 1 .. m - k : k + 1 + i - 1 = k + i
  OBVIOUS
<1>5. t \in Seq(S) /\ Len(t) = m - k /\ \A i \in 1 .. m - k : t[i] = s[k + i]
  BY <1>2, <1>3, <1>4
<1> QED BY <1>5 DEF t

LEMMA Beginning ==
    ASSUME NEW S, NEW s, NEW m \in Nat, \A i \in 1..m : s[i] \in S
    PROVE  /\ SubSeq(s, 1, m) \in Seq(S) /\ Len(SubSeq(s, 1, m)) = m
           /\ \A i \in 1..m : SubSeq(s, 1, m)[i] = s[i]
<1>1. 0 \in Nat /\ 0 <= m /\ 0 + 1 = 1 /\ m - 0 = m /\ \A i \in 1..m : 0 + i = i
  OBVIOUS
<1>2. /\ SubSeq(s, 0 + 1, m) \in Seq(S) /\ Len(SubSeq(s, 0 + 1, m)) = m - 0
      /\ \A i \in 1 .. m - 0 : SubSeq(s, 0 + 1, m)[i] = s[0 + i]
  <2>1. \A i \in 0 + 1 .. m : s[i] \in S
    BY <1>1
  <2> QED BY <1>1, <2>1, Slice
<1> QED BY <1>1, <1>2

\* What follows the k-th row, sorted on its own, is the rest of the sequence.
LEMMA RestIsSorted ==
    ASSUME NEW S \in SUBSET Rows, NEW dir \in Dirs, NEW k \in 0 .. Cardinality(S)
    PROVE  LET rest == {r \in S : k = 0 \/ Precedes(dir, Sorted(S, dir)[k], r)}
           IN  Sorted(rest, dir) = SubSeq(Sorted(S, dir), k + 1, Cardinality(S))
<1> DEFINE n == Cardinality(S)
           R == Sorted(S, dir)
           rest == {r \in S : k = 0 \/ Precedes(dir, R[k], r)}
           f == [i \in 1 .. n - k |-> R[k + i]]
<1>1. n \in Nat /\ R \in [1..n -> S] /\ R \in Seq(Rows) /\ Len(R) = n
  BY SortedFacts
<1>2. \A r \in S : \E i \in 1..n : R[i] = r
  BY SortedFacts
<1>3. \A i, j \in 1..n : i < j <=> Precedes(dir, R[i], R[j])
  BY SortedFacts
<1> HIDE DEF n, R
<1>4. k \in 0..n
  BY DEF n
<1>5. \A i \in 1 .. n - k : k + i \in 1..n /\ k < k + i
  BY <1>1, <1>4
<1>6. f \in [1 .. n - k -> rest]
  <2>1. ASSUME NEW i \in 1 .. n - k PROVE R[k + i] \in rest
    <3>1. k = 0 \/ k \in 1..n
      BY <1>1, <1>4
    <3> QED BY <1>1, <1>3, <1>5, <3>1
  <2> QED BY <2>1
<1>7. \A r \in rest : \E i \in 1 .. n - k : f[i] = r
  <2> SUFFICES ASSUME NEW r \in rest PROVE \E i \in 1 .. n - k : R[k + i] = r
    OBVIOUS
  <2> PICK j \in 1..n : R[j] = r
    BY <1>2
  <2>1. k < j
    BY <1>1, <1>3, <1>4
  <2>2. j - k \in 1 .. n - k /\ k + (j - k) = j
    BY <1>1, <1>4, <2>1
  <2> QED BY <2>2
<1>8. \A i, j \in 1 .. n - k : i < j => Precedes(dir, f[i], f[j])
  <2> SUFFICES ASSUME NEW i \in 1 .. n - k, NEW j \in 1 .. n - k, i < j
               PROVE  Precedes(dir, R[k + i], R[k + j])
    OBVIOUS
  <2>1. k + i < k + j
    BY <1>4, <1>1
  <2> QED BY <1>3, <1>5, <2>1
<1>9. n - k \in Nat /\ rest \in SUBSET Rows
  BY <1>1, <1>4
<1>10. Sorted(rest, dir) = f
  <2> HIDE DEF f, rest
  <2> QED BY <1>6, <1>7, <1>8, <1>9, SortedIs
<1>11. f = SubSeq(R, k + 1, n)
  <2>1. \A i \in k + 1 .. n : R[i] \in Rows
    BY <1>1, <1>4
  <2>2. k \in Nat /\ n \in Nat /\ k <= n
    BY <1>1, <1>4
  <2>3. /\ SubSeq(R, k + 1, n) \in Seq(Rows) /\ Len(SubSeq(R, k + 1, n)) = n - k
        /\ \A i \in 1 .. n - k : SubSeq(R, k + 1, n)[i] = R[k + i]
    BY <2>1, <2>2, Slice
  <2>4. SubSeq(R, k + 1, n) = [i \in 1 .. Len(SubSeq(R, k + 1, n)) |-> SubSeq(R, k + 1, n)[i]]
    BY <2>3
  <2> QED BY <2>3, <2>4
<1> QED BY <1>10, <1>11 DEF n, R

LEMMA RouteFacts ==
    ASSUME NEW c \in Cases, NEW q \in Queries
    PROVE  /\ q.dir \in Dirs /\ Selected(c, q) \in SUBSET Rows
           /\ Route(c, q) \in Seq(Rows) /\ Len(Route(c, q)) = Cardinality(Selected(c, q))
           /\ Cardinality(Selected(c, q)) \in Nat
           /\ \A r \in Selected(c, q) : \E i \in 1 .. Len(Route(c, q)) : Route(c, q)[i] = r
<1> DEFINE S == Selected(c, q)
<1>1. q.dir \in Dirs
  BY DEF Queries, Dirs
<1>2. S \in SUBSET Rows
  BY DEF Selected
<1> HIDE DEF S
<1>3. /\ Cardinality(S) \in Nat /\ Sorted(S, q.dir) \in Seq(Rows)
      /\ Len(Sorted(S, q.dir)) = Cardinality(S)
      /\ \A r \in S : \E i \in 1 .. Cardinality(S) : Sorted(S, q.dir)[i] = r
  BY <1>1, <1>2, SortedFacts
<1> QED BY <1>1, <1>2, <1>3 DEF Route, S

LEMMA CursorAtIsCursor ==
    ASSUME NEW c \in Cases, NEW q \in Queries, NEW r \in Rows
    PROVE  CursorAt(c, q, r) \in Cursors /\ CursorAt(c, q, r) # NoCursor
<1>1. CursorAt(c, q, r) \in Cursors
  BY DEF CursorAt, Cursors
<1> QED BY <1>1, CursorAssumption

\* A page after the k-th row has the rows that follow it, and the cursor at the
\* last of them, unless it is the last of all.
LEMMA PageFacts ==
    ASSUME NEW c \in Cases, NEW q \in Queries, NEW limit \in Nat \ {0},
           NEW k \in 0 .. Len(Route(c, q)), NEW after,
           IF k = 0 THEN after = NoCursor ELSE after = CursorAt(c, q, Route(c, q)[k])
    PROVE  LET R == Route(c, q)
               n == Len(R)
               m == IF n < k + limit THEN n ELSE k + limit
               page == Page(c, q, after, limit)
           IN  /\ page = [items |-> SubSeq(R, k + 1, m),
                          next |-> IF m < n THEN CursorAt(c, q, R[m]) ELSE NoCursor]
               /\ m \in k..n /\ (m < n => m = k + limit)
<1> DEFINE R == Route(c, q)
           n == Len(R)
           m == IF n < k + limit THEN n ELSE k + limit
           S == Selected(c, q)
           rest == {r \in S : after = NoCursor \/ PastCursor(q.dir, after, r)}
           found == Sorted(rest, q.dir)
           l == IF Len(found) < limit THEN Len(found) ELSE limit
           items == SubSeq(found, 1, l)
<1>1. q.dir \in Dirs /\ S \in SUBSET Rows /\ R \in Seq(Rows) /\ n = Cardinality(S) /\ n \in Nat
  BY RouteFacts
<1>2. \A i \in 1..n : R[i] \in Rows
  BY <1>1
<1>3. k \in 0..n /\ R = Sorted(S, q.dir)
  BY DEF Route
<1>4. rest = {r \in S : k = 0 \/ Precedes(q.dir, R[k], r)}
  <2>1. CASE k = 0
    BY <2>1
  <2>2. CASE k # 0
    <3>1. k \in 1..n
      BY <1>1, <1>3, <2>2
    <3>2. after = CursorAt(c, q, R[k]) /\ after # NoCursor
      BY <1>2, <2>2, <3>1, CursorAtIsCursor
    <3>3. after.key = R[k].key /\ after.id = R[k].id
      BY <3>2 DEF CursorAt
    <3>4. \A r \in S : PastCursor(q.dir, after, r) <=> Precedes(q.dir, R[k], r)
      BY <3>3 DEF PastCursor, Precedes
    <3> QED BY <2>2, <3>2, <3>4
  <2> QED BY <2>1, <2>2
<1> HIDE DEF rest, R
<1>5. found = SubSeq(R, k + 1, n)
  <2>1. k \in 0 .. Cardinality(S)
    BY <1>1, <1>3
  <2> QED BY <1>1, <1>3, <1>4, <2>1, RestIsSorted
<1> HIDE DEF S, n
<1>6. /\ found \in Seq(Rows) /\ Len(found) = n - k
      /\ \A i \in 1 .. n - k : found[i] = R[k + i]
  <2>1. \A i \in k + 1 .. n : R[i] \in Rows
    BY <1>1, <1>2, <1>3
  <2>2. k \in Nat /\ n \in Nat /\ k <= n
    BY <1>1, <1>3
  <2>3. /\ SubSeq(R, k + 1, n) \in Seq(Rows) /\ Len(SubSeq(R, k + 1, n)) = n - k
        /\ \A i \in 1 .. n - k : SubSeq(R, k + 1, n)[i] = R[k + i]
    BY <2>1, <2>2, Slice
  <2> QED BY <1>5, <2>3
<1> HIDE DEF found
<1>7. /\ l = m - k /\ l \in 0 .. n - k /\ m \in k..n /\ m = k + l
      /\ m < n => m = k + limit
      /\ m < n <=> Len(found) > limit
  <2>1. n \in Nat /\ k \in Nat /\ k <= n /\ Len(found) = n - k /\ limit \in Nat /\ limit > 0
    BY <1>1, <1>3, <1>6
  <2>2. CASE n < k + limit
    BY <2>1, <2>2
  <2>3. CASE ~(n < k + limit)
    BY <2>1, <2>3
  <2> QED BY <2>2, <2>3
<1> HIDE DEF m, l
<1>8. /\ items \in Seq(Rows) /\ Len(items) = l
      /\ \A i \in 1..l : items[i] = R[k + i]
  <2>1. \A i \in 1..l : found[i] \in Rows /\ i \in 1 .. n - k
    BY <1>1, <1>3, <1>6, <1>7
  <2>2. l \in Nat
    BY <1>3, <1>7
  <2>3. items \in Seq(Rows) /\ Len(items) = l /\ \A i \in 1..l : items[i] = found[i]
    BY <2>1, <2>2, Beginning
  <2> QED BY <1>6, <2>1, <2>3
<1>9. items = SubSeq(R, k + 1, m)
  <2>1. \A i \in k + 1 .. m : R[i] \in Rows
    BY <1>1, <1>2, <1>3, <1>7
  <2>2. k \in Nat /\ m \in Nat /\ k <= m
    BY <1>1, <1>3, <1>7
  <2>3. /\ SubSeq(R, k + 1, m) \in Seq(Rows) /\ Len(SubSeq(R, k + 1, m)) = m - k
        /\ \A i \in 1 .. m - k : SubSeq(R, k + 1, m)[i] = R[k + i]
    BY <2>1, <2>2, Slice
  <2>4. \A i \in 1..l : SubSeq(R, k + 1, m)[i] = items[i]
    BY <1>7, <1>8, <2>3
  <2> HIDE DEF items
  <2> QED BY <1>7, <1>8, <2>3, <2>4, SeqEqual
<1>10. m < n => items[Len(items)] = R[m]
  <2>1. m < n => l \in 1..l
    BY <1>1, <1>3, <1>7
  <2> QED BY <1>7, <1>8, <2>1
<1>11. Page(c, q, after, limit) =
          [items |-> items,
           next |-> IF m < n THEN CursorAt(c, q, items[Len(items)]) ELSE NoCursor]
  BY <1>7 DEF Page, HasNext, CursorAt, found, rest, l, S
<1> QED BY <1>7, <1>9, <1>10, <1>11 DEF m, n, R

\* What a reader holds has the shape it should, is all of the route exactly when
\* there is no cursor, and else has the cursor's fingerprint.
LEMMA ReadToFacts ==
    ASSUME NEW c \in Cases, NEW q \in Queries, NEW rows \in Seq(Rows), NEW after,
           ReadTo(c, q, rows, after)
    PROVE  /\ IsPrefixOf(rows, Route(c, q))
           /\ after \in Cursors \cup {NoCursor}
           /\ after = NoCursor => rows = Route(c, q)
           /\ after # NoCursor =>
                 /\ after.print = Fingerprint(c, q)
                 /\ Len(rows) \in 1 .. Len(Route(c, q))
                 /\ after = CursorAt(c, q, Route(c, q)[Len(rows)])
<1> DEFINE R == Route(c, q)
<1>1. R \in Seq(Rows)
  BY RouteFacts
<1>2. Len(rows) \in Nat /\ Len(R) \in Nat
  BY <1>1
<1>3. CASE rows = R /\ after = NoCursor
  BY <1>3 DEF ReadTo
<1>4. CASE Len(rows) \in 1 .. Len(R) - 1 /\ after = CursorAt(c, q, R[Len(rows)])
  <2>1. Len(rows) \in 1 .. Len(R)
    BY <1>2, <1>4
  <2>2. R[Len(rows)] \in Rows
    BY <1>1, <2>1
  <2>3. after \in Cursors /\ after # NoCursor
    BY <1>4, <2>2, CursorAtIsCursor
  <2>4. after.print = Fingerprint(c, q)
    BY <1>4 DEF CursorAt
  <2> QED BY <1>4, <2>1, <2>3, <2>4 DEF ReadTo
<1> QED BY <1>3, <1>4 DEF ReadTo

\* What is held and the page after it is what is held then.
LEMMA PageReads ==
    ASSUME NEW c \in Cases, NEW q \in Queries, NEW limit \in Nat \ {0},
           NEW k \in 0 .. Len(Route(c, q)), NEW after,
           IF k = 0 THEN after = NoCursor ELSE after = CursorAt(c, q, Route(c, q)[k])
    PROVE  LET page == Page(c, q, after, limit)
           IN  /\ page \in Answers /\ page # Refused
               /\ Len(page.items) <= limit
               /\ ReadTo(c, q, SubSeq(Route(c, q), 1, k) \o page.items, page.next)
<1> DEFINE R == Route(c, q)
           n == Len(R)
           m == IF n < k + limit THEN n ELSE k + limit
           page == Page(c, q, after, limit)
<1>1. R \in Seq(Rows)
  BY RouteFacts
<1>2. /\ page = [items |-> SubSeq(R, k + 1, m),
                 next |-> IF m < n THEN CursorAt(c, q, R[m]) ELSE NoCursor]
      /\ m \in k..n /\ (m < n => m = k + limit)
  BY PageFacts
<1> HIDE DEF page, R
<1>3. n \in Nat /\ k \in 0..n
  BY <1>1 DEF R
<1> HIDE DEF n
<1>4. \A i \in 1..n : R[i] \in Rows
  BY <1>1 DEF n
<1>5. m - k <= limit
  BY <1>3
<1> HIDE DEF m
<1>6. page.items \in Seq(Rows) /\ Len(page.items) = m - k
  <2>1. \A i \in k + 1 .. m : R[i] \in Rows
    BY <1>2, <1>3, <1>4
  <2>2. k \in Nat /\ m \in Nat /\ k <= m
    BY <1>2, <1>3
  <2>3. SubSeq(R, k + 1, m) \in Seq(Rows) /\ Len(SubSeq(R, k + 1, m)) = m - k
    BY <2>1, <2>2, Slice
  <2> QED BY <1>2, <2>3
<1>7. page.next \in Cursors \cup {NoCursor}
  <2>1. CASE m < n
    <3>1. m \in 1..n
      BY <1>2, <1>3, <2>1
    <3> QED BY <1>2, <1>4, <2>1, <3>1, CursorAtIsCursor
  <2>2. CASE ~(m < n)
    BY <1>2, <2>2
  <2> QED BY <2>1, <2>2
<1>8. page \in Answers
  BY <1>2, <1>6, <1>7 DEF Answers
<1>9. SubSeq(R, 1, k) \o page.items = SubSeq(R, 1, m)
  <2>1. 1 \in 1 .. n + 1 /\ k \in 1 - 1 .. n /\ m \in k..n
    BY <1>2, <1>3
  <2>2. SubSeq(R, 1, k) \o SubSeq(R, k + 1, m) = SubSeq(R, 1, m)
    BY <1>1, <2>1, ConcatAdjacentSubSeq DEF n
  <2> QED BY <1>2, <2>2
<1>10. ReadTo(c, q, SubSeq(R, 1, m), page.next)
  <2>1. CASE m < n
    <3>1. m \in 1 .. n - 1
      BY <1>2, <1>3, <2>1
    <3>2. \A i \in 1..m : R[i] \in Rows
      BY <1>3, <1>4, <3>1
    <3>3. m \in Nat /\ m <= n
      BY <1>3, <3>1
    <3>4. Len(SubSeq(R, 1, m)) = m /\ m <= n
      BY <3>2, <3>3, Beginning
    <3> QED BY <1>2, <2>1, <3>1, <3>4 DEF ReadTo, IsPrefixOf, R, n
  <2>2. CASE ~(m < n)
    <3>1. m = n
      BY <1>2, <1>3, <2>2
    <3>2. SubSeq(R, 1, n) = R
      BY <1>1, SubSeqFull DEF n
    <3>3. page.next = NoCursor
      BY <1>2, <2>2
    <3>4. IsPrefixOf(R, R)
      BY <1>3, <3>2 DEF IsPrefixOf, n
    <3> QED BY <3>1, <3>2, <3>3, <3>4 DEF ReadTo, R
  <2> QED BY <2>1, <2>2
<1>11. page # Refused
  BY <1>8, CursorAssumption
<1> QED BY <1>2, <1>3, <1>5, <1>6, <1>8, <1>9, <1>10, <1>11 DEF R, page

\* The first page, and the page after what is held.
LEMMA ReadsFirst ==
    ASSUME NEW c \in Cases, NEW q \in Queries, NEW limit \in Nat \ {0}
    PROVE  LET page == Page(c, q, NoCursor, limit)
           IN  /\ page \in Answers /\ page # Refused
               /\ Len(page.items) <= limit
               /\ ReadTo(c, q, page.items, page.next)
<1> DEFINE page == Page(c, q, NoCursor, limit)
<1>1. Route(c, q) \in Seq(Rows)
  BY RouteFacts
<1>2. 0 \in 0 .. Len(Route(c, q))
  BY <1>1
<1>3. /\ page \in Answers /\ page # Refused /\ Len(page.items) <= limit
      /\ ReadTo(c, q, SubSeq(Route(c, q), 1, 0) \o page.items, page.next)
  BY <1>2, PageReads
<1>4. SubSeq(Route(c, q), 1, 0) = << >>
  BY SubSeqEmpty
<1> HIDE DEF page
<1>5. << >> \o page.items = page.items
  BY <1>3 DEF Answers
<1> QED BY <1>3, <1>4, <1>5 DEF page

LEMMA ReadsOn ==
    ASSUME NEW c \in Cases, NEW q \in Queries, NEW limit \in Nat \ {0},
           NEW rows \in Seq(Rows), NEW after, ReadTo(c, q, rows, after), after # NoCursor
    PROVE  LET page == Page(c, q, after, limit)
           IN  /\ page \in Answers /\ page # Refused
               /\ ReadTo(c, q, rows \o page.items, page.next)
<1> DEFINE R == Route(c, q)
           k == Len(rows)
<1>1. k \in 1 .. Len(R) /\ after = CursorAt(c, q, R[k]) /\ IsPrefixOf(rows, R)
  BY ReadToFacts
<1>2. rows = SubSeq(R, 1, k)
  BY <1>1 DEF IsPrefixOf
<1> HIDE DEF R, k
<1>3. k \in 0 .. Len(R) /\ k # 0
  <2>1. R \in Seq(Rows)
    BY RouteFacts DEF R
  <2> QED BY <1>1, <2>1
<1> QED BY <1>1, <1>2, <1>3, PageReads DEF R

\* A Case with the same active results has the same pages; and a cursor is refused
\* unless it is of the same query and of the same active results.
LEMMA SameResults ==
    ASSUME NEW c, NEW d, NEW q, ActiveResults(c) = ActiveResults(d)
    PROVE  /\ Selected(c, q) = Selected(d, q) /\ Fingerprint(c, q) = Fingerprint(d, q)
           /\ Route(c, q) = Route(d, q)
           /\ \A after, limit : Page(c, q, after, limit) = Page(d, q, after, limit)
<1>1. Selected(c, q) = Selected(d, q) /\ Fingerprint(c, q) = Fingerprint(d, q)
  BY DEF Selected, Fingerprint
<1> QED BY <1>1 DEF Route, Page

LEMMA SamePrint ==
    ASSUME NEW c, NEW d, NEW q, NEW p, Fingerprint(c, q) = Fingerprint(d, p)
    PROVE  ActiveResults(c) = ActiveResults(d) /\ q = p
BY DEF Fingerprint

(***************************************************************************)
(* The loops over the pages.                                               *)
(*                                                                         *)
(* What a loop holds is the beginning of the route of one Case: the one    *)
(* the command first read, because the cursor refuses another, and the one *)
(* the lookup found its row in, because its server keeps the Case as it is.*)
(***************************************************************************)
LoopStates ==
    [kind : LoopKinds, pc : {"read", "refused", "done"}, query : Queries, wanted : Nat \cup {NoRow},
     rows : Seq(Rows), after : Cursors \cup {NoCursor}, pages : Nat, run : 0..MaxServers,
     base : Cases]

LoopReadTo ==
    IF loop.pages = 0 THEN loop.rows = << >> /\ loop.after = NoCursor
    ELSE ReadTo(loop.base, loop.query, loop.rows, loop.after)

PageAllGoesOn ==
    loop.kind = "page_all" /\ loop.pages > 0 => (loop.after = NoCursor <=> loop.pc = "done")

LookupOfOneState ==
    loop.kind = "lookup" =>
        /\ loop.run <= server.run
        /\ server.up /\ loop.run = server.run => case = loop.base
        /\ loop.pages = 0 /\ loop.pc = "done" => ActiveRecord(loop.base, loop.wanted) = {}
        /\ loop.pages > 0 \/ loop.pc = "read" =>
              \E r \in ActiveRecord(loop.base, loop.wanted) : r \in Selected(loop.base, loop.query)

LoopInv ==
    /\ loop \in LoopStates
    /\ loop.kind = "none" => loop.pc = "done" /\ loop.pages = 0
    /\ loop.pc = "read" /\ loop.pages > 0 => loop.after # NoCursor
    /\ LoopReadTo /\ PageAllGoesOn /\ LookupOfOneState

LEMMA CaseStepFacts ==
    ASSUME CaseType, CaseStep
    PROVE  /\ CaseType' /\ server.run <= server'.run
           /\ server'.up /\ server'.run = server.run => case' = case /\ server.up
           /\ server.up => case' = case
<1>1. CaseType'
  BY CaseStepType
<1>2. server.run \in Nat /\ server \in [up : BOOLEAN, run : 0..MaxServers]
  BY OutcomesAssumption DEF CaseType
<1>3. CASE StoreRun /\ UNCHANGED server
  BY <1>1, <1>2, <1>3 DEF StoreRun
<1>4. CASE StartServer /\ UNCHANGED case
  BY <1>1, <1>2, <1>4 DEF StartServer
<1>5. CASE StopServer /\ UNCHANGED case
  BY <1>1, <1>2, <1>5 DEF StopServer
<1> QED BY <1>3, <1>4, <1>5 DEF CaseStep

LEMMA NoLoopFacts ==
    ASSUME case \in Cases
    PROVE  /\ NoLoop \in LoopStates
           /\ NoLoop.kind = "none" /\ NoLoop.pc = "done" /\ NoLoop.pages = 0
           /\ NoLoop.rows = << >> /\ NoLoop.after = NoCursor /\ NoLoop.base = case
BY OutcomesAssumption DEF NoLoop, LoopStates, LoopKinds, Queries

LEMMA LoopInitInv == CaseInit /\ LoopInit => LoopInv
<1> SUFFICES ASSUME CaseInit, LoopInit PROVE LoopInv
  OBVIOUS
<1>1. case \in Cases
  BY RowsAssumption DEF CaseInit, Cases
<1>2. loop = NoLoop
  BY DEF LoopInit
<1> QED BY <1>1, <1>2, NoLoopFacts DEF LoopInv, LoopReadTo, PageAllGoesOn, LookupOfOneState

\* A row that is found active is among those that its lookup asks for.
LEMMA FoundIsSelected ==
    ASSUME NEW c \in Cases, NEW id, NEW r \in ActiveRecord(c, id), NEW q \in LookupQueries(r)
    PROVE  r \in Selected(c, q)
BY DEF ActiveRecord, LookupQueries, Selected

LEMMA StartPageAllInv == ASSUME CaseType, LoopInv, StartPageAll PROVE LoopInv'
<1> PICK q \in Queries :
        loop' = [NoLoop EXCEPT !.kind = "page_all", !.pc = "read", !.query = q]
  BY DEF StartPageAll
<1>1. /\ loop'.kind = "page_all" /\ loop'.pages = 0 /\ loop'.rows = << >>
      /\ loop'.after = NoCursor /\ loop' \in LoopStates
  BY NoLoopFacts DEF CaseType, LoopStates, LoopKinds
<1> QED BY <1>1 DEF LoopInv, LoopReadTo, PageAllGoesOn, LookupOfOneState

LEMMA StartLookupInv ==
    ASSUME CaseType, LoopInv, StartLookup, UNCHANGED caseVars PROVE LoopInv'
<1>1. case' = case /\ server' = server /\ server.run \in Nat
  BY OutcomesAssumption DEF caseVars, CaseType
<1>2. PICK id \in {r.id : r \in Rows} :
          LET found == ActiveRecord(case, id)
              asked == [NoLoop EXCEPT !.kind = "lookup", !.wanted = id, !.run = server.run]
          IN  \/ found = {} /\ loop' = asked
              \/ \E r \in found : \E q \in LookupQueries(r) :
                    loop' = [asked EXCEPT !.pc = "read", !.query = q]
  BY DEF StartLookup
<1> DEFINE found == ActiveRecord(case, id)
           asked == [NoLoop EXCEPT !.kind = "lookup", !.wanted = id, !.run = server.run]
<1>3. id \in Nat
  <2> HIDE DEF found, asked
  <2>1. PICK r \in Rows : id = r.id
    BY <1>2
  <2>2. r \in [of : Results, key : Int, id : Nat, state : CommitStates]
    BY <2>1, RowsAssumption
  <2> QED BY <2>1, <2>2
<1>4. /\ asked.kind = "lookup" /\ asked.pages = 0 /\ asked.rows = << >> /\ asked.pc = "done"
      /\ asked.after = NoCursor /\ asked.run = server.run /\ asked.base = case
      /\ asked.wanted = id /\ asked \in LoopStates
  <2>1. /\ NoLoop \in LoopStates
        /\ NoLoop.pc = "done" /\ NoLoop.pages = 0 /\ NoLoop.rows = << >>
        /\ NoLoop.after = NoCursor /\ NoLoop.base = case
    BY NoLoopFacts DEF CaseType
  <2>2. server.run \in 0..MaxServers
    BY DEF CaseType
  <2> HIDE DEF found
  <2>3. asked \in LoopStates
    BY <1>3, <2>1, <2>2 DEF LoopStates, LoopKinds
  <2>4. /\ asked.kind = "lookup" /\ asked.wanted = id /\ asked.run = server.run
        /\ asked.pages = NoLoop.pages /\ asked.rows = NoLoop.rows /\ asked.pc = NoLoop.pc
        /\ asked.after = NoLoop.after /\ asked.base = NoLoop.base
    BY <2>1 DEF LoopStates
  <2> QED BY <2>1, <2>3, <2>4
<1>5. CASE found = {} /\ loop' = asked
  <2>1. loop' = asked
    BY <1>5
  <2> HIDE DEF asked
  <2>2. ActiveRecord(loop'.base, loop'.wanted) = {}
    BY <1>4, <1>5, <2>1
  <2>3. LoopReadTo' /\ PageAllGoesOn'
    BY <1>4, <2>1 DEF LoopReadTo, PageAllGoesOn
  <2>4. LookupOfOneState'
    <3>1. loop'.base = case /\ loop'.run = server.run /\ loop'.pages = 0 /\ loop'.pc = "done"
      BY <1>4, <2>1
    <3>2. loop'.base = case' /\ loop'.run <= server'.run
      BY <1>1, <3>1
    <3> QED BY <2>2, <3>1, <3>2 DEF LookupOfOneState
  <2> QED BY <1>4, <2>1, <2>3, <2>4 DEF LoopInv
<1>6. ASSUME NEW r \in found, NEW q \in LookupQueries(r),
             loop' = [asked EXCEPT !.pc = "read", !.query = q]
      PROVE  LoopInv'
  <2>1. loop' = [asked EXCEPT !.pc = "read", !.query = q]
    BY <1>6
  <2>2. r \in found
    OBVIOUS
  <2>3. q \in Queries
    BY DEF LookupQueries
  <2>4. r \in Selected(case, q)
    BY FoundIsSelected DEF CaseType
  <2> HIDE DEF asked
  <2>5. /\ loop' \in LoopStates /\ loop'.kind = "lookup" /\ loop'.pages = 0
        /\ loop'.rows = << >> /\ loop'.after = NoCursor /\ loop'.run = server.run
        /\ loop'.base = case /\ loop'.wanted = id /\ loop'.pc = "read" /\ loop'.query = q
    BY <1>4, <2>1, <2>3 DEF LoopStates
  <2>6. /\ r \in ActiveRecord(loop'.base, loop'.wanted)
        /\ r \in Selected(loop'.base, loop'.query)
    BY <2>2, <2>4, <2>5
  <2>7. LoopReadTo' /\ PageAllGoesOn'
    BY <2>5 DEF LoopReadTo, PageAllGoesOn
  <2>8. LookupOfOneState'
    <3>1. loop'.base = case' /\ loop'.run <= server'.run /\ loop'.pages = 0 /\ loop'.pc = "read"
      BY <1>1, <2>5
    <3> QED BY <2>6, <3>1 DEF LookupOfOneState
  <2> QED BY <2>5, <2>7, <2>8 DEF LoopInv
<1> QED BY <1>2, <1>5, <1>6

\* The Case that is read is that of what the loop holds already.
LEMMA ReadsTheSame ==
    ASSUME CaseType, LoopInv, loop.pc = "read", LoopPage # Refused
    PROVE  LET base == IF loop.pages = 0 /\ loop.kind = "page_all" THEN case ELSE loop.base
           IN  /\ base \in Cases /\ ActiveResults(case) = ActiveResults(base)
               /\ LoopPage = Page(case, loop.query, loop.after, PageSize)
<1>1. case \in Cases /\ loop.base \in Cases /\ loop.query \in Queries /\ loop.rows \in Seq(Rows)
  BY DEF CaseType, LoopInv, LoopStates
<1>2. /\ ~Refuses(case, loop.query, loop.after)
      /\ LoopPage = Page(case, loop.query, loop.after, PageSize)
      /\ loop.kind = "lookup" => server.up /\ loop.run = server.run
  BY DEF LoopPage, RunFindingQuery, Serves, TokensMatch
<1>3. CASE loop.pages = 0
  <2>1. loop.kind \in {"page_all", "lookup"}
    BY DEF LoopInv, LoopStates, LoopKinds
  <2>2. loop.kind = "lookup" => case = loop.base
    BY <1>2 DEF LoopInv, LookupOfOneState
  <2> QED BY <1>1, <1>2, <1>3, <2>1, <2>2
<1>4. CASE loop.pages # 0
  <2>1. loop.pages > 0 /\ loop.after # NoCursor
    BY <1>4 DEF LoopInv, LoopStates
  <2>2. ReadTo(loop.base, loop.query, loop.rows, loop.after)
    BY <1>4 DEF LoopInv, LoopReadTo
  <2>3. loop.after.print = Fingerprint(loop.base, loop.query)
    BY <1>1, <2>1, <2>2, ReadToFacts
  <2>4. loop.after.print = Fingerprint(case, loop.query)
    BY <1>2, <2>1 DEF Refuses
  <2>5. Fingerprint(case, loop.query) = Fingerprint(loop.base, loop.query)
    BY <2>3, <2>4
  <2>6. ActiveResults(case) = ActiveResults(loop.base)
    BY <2>5, SamePrint
  <2> QED BY <1>1, <1>2, <1>4, <2>6
<1> QED BY <1>3, <1>4

LEMMA ReadPageInv == ASSUME CaseType, LoopInv, ReadPage, UNCHANGED caseVars PROVE LoopInv'
<1>1. loop.pc = "read" /\ loop \in LoopStates /\ case' = case /\ server' = server
  BY DEF ReadPage, LoopInv, caseVars
<1>2. CASE LoopPage = Refused
  <2>1. loop' = [loop EXCEPT !.pc = "refused"]
    BY <1>2 DEF ReadPage
  <2>2. /\ loop' \in LoopStates /\ loop'.pc = "refused" /\ loop'.kind = loop.kind
        /\ loop'.query = loop.query /\ loop'.wanted = loop.wanted /\ loop'.rows = loop.rows
        /\ loop'.after = loop.after /\ loop'.pages = loop.pages /\ loop'.run = loop.run
        /\ loop'.base = loop.base
    BY <1>1, <2>1 DEF LoopStates
  <2>3. LoopReadTo'
    BY <2>2 DEF LoopInv, LoopReadTo
  <2>4. PageAllGoesOn'
    BY <1>1, <2>2 DEF LoopInv, PageAllGoesOn
  <2>5. LookupOfOneState'
    BY <1>1, <2>2 DEF LoopInv, LookupOfOneState
  <2> QED BY <1>1, <2>2, <2>3, <2>4, <2>5 DEF LoopInv
<1>3. CASE LoopPage # Refused
  <2> DEFINE base == IF loop.pages = 0 /\ loop.kind = "page_all" THEN case ELSE loop.base
             q == loop.query
             page == Page(base, q, loop.after, PageSize)
  <2>1. base \in Cases /\ LoopPage = page /\ q \in Queries /\ PageSize \in Nat \ {0}
    <3>1. /\ base \in Cases /\ ActiveResults(case) = ActiveResults(base)
          /\ LoopPage = Page(case, loop.query, loop.after, PageSize)
      BY <1>1, <1>3, ReadsTheSame
    <3> HIDE DEF base
    <3>2. Page(case, loop.query, loop.after, PageSize) = page
      BY <3>1, SameResults
    <3> QED BY <1>1, <3>1, <3>2, LoopsAssumption DEF LoopStates
  <2>2. loop' = [loop EXCEPT !.pc = IF MorePages(page) THEN "read" ELSE "done",
                             !.rows = @ \o page.items, !.after = page.next,
                             !.pages = @ + 1, !.base = base]
    BY <1>3, <2>1 DEF ReadPage
  <2>3. /\ page \in Answers
        /\ ReadTo(base, q, loop.rows \o page.items, page.next)
    <3>1. CASE loop.pages = 0
      <4>1. loop.after = NoCursor /\ loop.rows = << >>
        BY <3>1 DEF LoopInv, LoopReadTo
      <4> HIDE DEF base, q
      <4>2. page \in Answers /\ ReadTo(base, q, page.items, page.next)
        BY <2>1, <4>1, ReadsFirst
      <4>3. loop.rows \o page.items = page.items
        BY <4>1, <4>2 DEF Answers
      <4> QED BY <4>2, <4>3
    <3>2. CASE loop.pages # 0
      <4>1. loop.pages > 0 /\ loop.after # NoCursor /\ loop.rows \in Seq(Rows)
        BY <1>1, <3>2 DEF LoopInv, LoopStates
      <4>2. ReadTo(base, q, loop.rows, loop.after)
        BY <3>2 DEF LoopInv, LoopReadTo
      <4> HIDE DEF base, q
      <4> QED BY <2>1, <4>1, <4>2, ReadsOn
    <3> QED BY <3>1, <3>2
  <2> HIDE DEF page
  <2>4. loop.rows \o page.items \in Seq(Rows) /\ page.next \in Cursors \cup {NoCursor}
    BY <1>1, <2>3 DEF LoopStates, Answers
  <2>5. /\ loop' \in LoopStates /\ loop'.pc = (IF MorePages(page) THEN "read" ELSE "done")
        /\ loop'.kind = loop.kind
        /\ loop'.query = q /\ loop'.wanted = loop.wanted
        /\ loop'.rows = loop.rows \o page.items
        /\ loop'.after = page.next /\ loop'.pages = loop.pages + 1 /\ loop'.run = loop.run
        /\ loop'.base = base
    <3> DEFINE pc == IF MorePages(page) THEN "read" ELSE "done"
               rows == loop.rows \o page.items
               after == page.next
               pages == loop.pages + 1
    <3>1. pc \in {"read", "done"}
      OBVIOUS
    <3>2. loop' = [loop EXCEPT !.pc = pc, !.rows = rows, !.after = after,
                               !.pages = pages, !.base = base]
      BY <2>2
    <3>3. rows \in Seq(Rows) /\ after \in Cursors \cup {NoCursor} /\ pages \in Nat
      BY <1>1, <2>4 DEF LoopStates
    <3>4. base \in Cases
      BY <2>1
    <3> HIDE DEF base, pc, rows, after, pages
    <3>5. /\ loop' \in LoopStates /\ loop'.pc = pc /\ loop'.kind = loop.kind
          /\ loop'.query = q /\ loop'.wanted = loop.wanted /\ loop'.rows = rows
          /\ loop'.after = after /\ loop'.pages = pages /\ loop'.run = loop.run
          /\ loop'.base = base
      BY <1>1, <3>1, <3>2, <3>3, <3>4 DEF LoopStates
    <3> QED BY <3>5 DEF pc, rows, after, pages
  <2>6. loop.pages + 1 \in Nat /\ loop.pages + 1 > 0 /\ loop.pages + 1 # 0
    BY <1>1 DEF LoopStates
  <2>7. LoopReadTo'
    BY <2>3, <2>5, <2>6 DEF LoopReadTo
  <2>8. PageAllGoesOn' /\ (loop'.pc = "read" => loop'.after # NoCursor)
    BY <2>5 DEF PageAllGoesOn, MorePages
  <2>9. LookupOfOneState'
    <3>1. loop.kind = "lookup" => base = loop.base
      BY DEF LoopInv
    <3> HIDE DEF base
    <3> QED BY <1>1, <2>5, <2>6, <3>1 DEF LoopInv, LookupOfOneState
  <2>10. loop.kind # "none"
    BY <1>1 DEF LoopInv
  <2> QED BY <2>5, <2>7, <2>8, <2>9, <2>10 DEF LoopInv
<1> QED BY <1>2, <1>3

LEMMA LoopKeeps ==
    ASSUME CaseType, LoopInv, loop' = loop, UNCHANGED caseVars \/ CaseStep
    PROVE  LoopInv'
<1>1. /\ server.run <= server'.run /\ server'.run \in Nat /\ server.run \in Nat
      /\ server'.up /\ server'.run = server.run => case' = case /\ server.up
  <2>1. CASE UNCHANGED caseVars
    BY <2>1, OutcomesAssumption DEF caseVars, CaseType
  <2>2. CASE CaseStep
    BY <2>2, CaseStepFacts, OutcomesAssumption DEF CaseType
  <2> QED BY <2>1, <2>2
<1>2. LookupOfOneState'
  <2>1. loop.run \in Nat
    BY OutcomesAssumption DEF LoopInv, LoopStates
  <2> QED BY <1>1, <2>1 DEF LoopInv, LookupOfOneState
<1> QED BY <1>2 DEF LoopInv, LoopReadTo, PageAllGoesOn

LEMMA LoopNextInv == CaseType /\ LoopInv /\ LoopNext => LoopInv'
BY StartPageAllInv, StartLookupInv, ReadPageInv DEF LoopNext

LEMMA LoopInvGives ==
    ASSUME LoopInv PROVE LoopType /\ PageAllIsOneState /\ LookupDeniesNoRow
<1>1. /\ loop \in LoopStates /\ loop.base \in Cases /\ loop.query \in Queries
      /\ loop.rows \in Seq(Rows) /\ loop.pages \in Nat
  BY DEF LoopInv, LoopStates
<1>2. LoopType
  BY <1>1 DEF LoopType, LoopStates
<1>3. PageAllIsOneState
  <2> SUFFICES ASSUME loop.kind = "page_all", loop.pages > 0
               PROVE  /\ IsPrefixOf(loop.rows, Route(loop.base, loop.query))
                      /\ loop.pc = "done" => loop.rows = Route(loop.base, loop.query)
    BY DEF PageAllIsOneState
  <2>1. ReadTo(loop.base, loop.query, loop.rows, loop.after)
    BY <1>1 DEF LoopInv, LoopReadTo
  <2>2. loop.pc = "done" => loop.after = NoCursor
    BY DEF LoopInv, PageAllGoesOn
  <2> QED BY <1>1, <2>1, <2>2, ReadToFacts
<1>4. LookupDeniesNoRow
  <2> SUFFICES ASSUME loop.kind = "lookup", loop.pc = "done", ~Hit(loop.rows), ~Capped
               PROVE  ActiveRecord(loop.base, loop.wanted) = {}
    BY DEF LookupDeniesNoRow
  <2>1. loop.after = NoCursor
    BY DEF Capped
  <2>2. CASE loop.pages = 0
    BY <2>2 DEF LoopInv, LookupOfOneState
  <2>3. CASE loop.pages # 0
    <3>1. PICK r \in ActiveRecord(loop.base, loop.wanted) :
                  r \in Selected(loop.base, loop.query)
      BY <1>1, <2>3 DEF LoopInv, LookupOfOneState
    <3>2. ReadTo(loop.base, loop.query, loop.rows, loop.after)
      BY <2>3 DEF LoopInv, LoopReadTo
    <3>3. loop.rows = Route(loop.base, loop.query)
      BY <1>1, <2>1, <3>2, ReadToFacts
    <3>4. \E i \in 1 .. Len(loop.rows) : loop.rows[i] = r
      BY <1>1, <3>1, <3>3, RouteFacts
    <3>5. r.id = loop.wanted
      BY DEF ActiveRecord
    <3> QED BY <3>4, <3>5 DEF Hit
  <2> QED BY <2>2, <2>3
<1> QED BY <1>2, <1>3, <1>4

(***************************************************************************)
(* The lists of the dashboard.                                             *)
(*                                                                         *)
(* A page is answered only by the server it was opened on, which keeps the *)
(* Case; a read under way goes on from where its list is, or its cursor is *)
(* refused; and what could be clicked on is what is committed and queued   *)
(* alike, so that no page is asked for twice.                              *)
(***************************************************************************)
ListRecords == [view : ListStates, next : ListStates, ran : {NotRun} \cup (Filters \X Nat),
                inFlight : BOOLEAN]
Reads == [reader : Lists \cup {Count}, query : Queries, after : Cursors \cup {NoCursor}]

TabTypes ==
    /\ tab \in [run : 0..MaxServers, filter : Filters \cup {All}, actions : 0..MaxActions,
                base : Cases]
    /\ tab.run # 0 => tab.filter \in Filters
    /\ lists \in [Lists -> ListRecords]
    /\ count \in [read : Figures, ran : Filters \cup {NotRun}]
    /\ wire \subseteq Reads

\* A server that still answers the page has the Case as it was when it was opened.
TabOfOneState ==
    /\ tab.run <= server.run
    /\ server.up /\ tab.run = server.run => case = tab.base

WireInv ==
    /\ \A l \in Lists : lists[l].inFlight <=> \E r \in wire : r.reader = l
    /\ \A r, s \in wire : r.reader = s.reader => r = s
    /\ \A r \in wire : r.reader = Count => r.query.profile \in Filters

\* How the committed state of a list, the queued one and its effect are related:
\* nothing is queued beside a view that could be clicked on.
Rendered(s) ==
    /\ s.ran = NotRun => s = Mounted
    /\ s.view.nonce = s.next.nonce
    /\ s.view = s.next \/ (s.view.loading /\ ~s.view.error)
    /\ s.inFlight => s.view.loading /\ ~s.view.error /\ s.view = s.next
    /\ ~s.inFlight /\ s.ran # NotRun => ~s.next.loading
    /\ s.ran # NotRun /\ s.ran[2] # s.view.nonce => s.view.error /\ ~FailedPage(s.view)

\* What is queued of a list is read to a place of one route, or not read yet.
ListReadTo(l) ==
    LET s == lists[l].next
    IN  lists[l].ran # NotRun =>
            \/ ReadTo(tab.base, ListQuery(lists[l].ran[1], l), s.rows, s.cursor)
            \/ s.rows = << >> /\ s.cursor = NoCursor /\ (s.loading \/ s.error)

\* The read under way of a list goes on from there.
ReadOf(r) ==
    LET s == lists[r.reader]
    IN  r.reader \in Lists =>
            /\ r.after = s.next.cursor
            /\ r.after = NoCursor =>
                  s.next.rows = << >> /\ r.query = ListQuery(s.ran[1], r.reader)

\* A figure that came is that of the Case of the page.
Counted ==
    count.read.value \notin {Loading, Failed} =>
        count.read.value =
            [l \in Lists |-> Cardinality(Selected(tab.base, ListQuery(count.read.key, l)))]

\* The effects of the lists run together.
OneFilter ==
    \A l, m \in Lists : lists[l].ran # NotRun =>
        lists[m].ran # NotRun /\ lists[m].ran[1] = lists[l].ran[1]

\* The journal is read past its first page, or will be.
JournalGoesOn ==
    LET s == lists[Journal]
    IN  Len(s.next.rows) > Limit \/ (s.inFlight /\ s.next.cursor # NoCursor) \/ FailedPage(s.next)

Drained == JournalGoesOn => WholeList(lists[Wal].next)

TabInv ==
    /\ TabTypes /\ TabOfOneState /\ WireInv
    /\ \A l \in Lists : Rendered(lists[l]) /\ ListReadTo(l)
    /\ \A r \in wire : ReadOf(r)
    /\ Counted /\ OneFilter /\ Drained

LEMMA ListsAreThree ==
    /\ Lists = {Saved, Wal, Journal} /\ Count \notin Lists
    /\ Saved # Wal /\ Saved # Journal /\ Wal # Journal
    /\ Saved \in Lists /\ Wal \in Lists /\ Journal \in Lists
BY DEF Lists, CommitStates, Saved, Wal, Journal, Count

LEMMA ListQueryIsQuery ==
    ASSUME NEW f \in Filters, NEW l \in Lists \cup {All}
    PROVE  ListQuery(f, l) \in Queries /\ ListQuery(f, l).profile = f
<1>1. f \in Profiles \cup {All}
  BY ListsAssumption
<1> QED BY <1>1 DEF ListQuery, Queries, Lists

LEMMA ListTypes ==
    ASSUME NEW s \in ListRecords
    PROVE  /\ s.view \in ListStates /\ s.next \in ListStates
           /\ (s.ran = NotRun \/ s.ran \in Filters \X Nat) /\ s.inFlight \in BOOLEAN
           /\ s.view.rows \in Seq(Rows) /\ s.view.cursor \in Cursors \cup {NoCursor}
           /\ s.view.loading \in BOOLEAN /\ s.view.error \in BOOLEAN /\ s.view.nonce \in Nat
           /\ s.next.rows \in Seq(Rows) /\ s.next.cursor \in Cursors \cup {NoCursor}
           /\ s.next.loading \in BOOLEAN /\ s.next.error \in BOOLEAN /\ s.next.nonce \in Nat
           /\ s.ran # NotRun => s.ran[1] \in Filters /\ s.ran[2] \in Nat
BY DEF ListRecords, ListStates

LEMMA MountedFacts ==
    /\ Fresh \in ListStates /\ Mounted \in ListRecords /\ Rendered(Mounted)
    /\ Mounted.view = Fresh /\ Mounted.next = Fresh /\ Mounted.ran = NotRun /\ ~Mounted.inFlight
    /\ Fresh.rows = << >> /\ Fresh.cursor = NoCursor /\ Fresh.loading /\ ~Fresh.error
    /\ Fresh.nonce = 0
BY DEF Fresh, Mounted, ListStates, ListRecords, Rendered

LEMMA MountedTab ==
    ASSUME TabTypes, lists = [l \in Lists |-> Mounted], wire = {}, count.read = NoTotals
    PROVE  /\ WireInv /\ \A l \in Lists : Rendered(lists[l]) /\ ListReadTo(l)
           /\ \A r \in wire : ReadOf(r)
           /\ Counted /\ OneFilter /\ Drained
<1>1. \A l \in Lists : lists[l] = Mounted
  OBVIOUS
<1>2. WireInv
  BY <1>1, MountedFacts DEF WireInv
<1>3. \A l \in Lists : Rendered(lists[l]) /\ ListReadTo(l)
  BY <1>1, MountedFacts DEF ListReadTo
<1>4. Counted
  BY DEF Counted, NoTotals
<1>5. OneFilter
  BY <1>1, MountedFacts DEF OneFilter
<1>6. Drained
  <2>1. lists[Journal] = Mounted /\ Len(<< >>) = 0
    BY <1>1, ListsAreThree
  <2>2. ~(0 > Limit)
    BY ListsAssumption
  <2> QED BY <2>1, <2>2, MountedFacts DEF Drained, JournalGoesOn, FailedPage
<1> QED BY <1>2, <1>3, <1>4, <1>5, <1>6

LEMMA NoTotalsType == NoTotals \in Figures
BY DEF NoTotals, Figures

LEMMA TabInitInv == CaseInit /\ TabInit => TabInv
<1> SUFFICES ASSUME CaseInit, TabInit PROVE TabInv
  OBVIOUS
<1>1. case \in Cases
  BY RowsAssumption DEF CaseInit, Cases
<1>2. TabTypes
  BY <1>1, MountedFacts, NoTotalsType, ListsAssumption, OutcomesAssumption DEF TabInit, TabTypes
<1>3. TabOfOneState
  BY DEF CaseInit, TabInit, TabOfOneState
<1> QED BY <1>2, <1>3, MountedTab DEF TabInit, TabInv

LEMMA OpenTabInv == ASSUME CaseType, TabInv, OpenTab PROVE TabInv'
<1> PICK f \in Filters : tab' = [run |-> server.run, filter |-> f, actions |-> 0, base |-> case]
  BY DEF OpenTab
<1>1. case' = case /\ server' = server /\ server.run \in 0..MaxServers /\ case \in Cases
  BY DEF OpenTab, caseVars, CaseType
<1>2. TabTypes'
  BY <1>1, MountedFacts, NoTotalsType, ListsAssumption DEF OpenTab, TabTypes
<1>3. TabOfOneState'
  BY <1>1, OutcomesAssumption DEF TabOfOneState
<1>4. (/\ WireInv /\ \A l \in Lists : Rendered(lists[l]) /\ ListReadTo(l)
       /\ \A r \in wire : ReadOf(r)
       /\ Counted /\ OneFilter /\ Drained)'
  <2>1. (lists = [l \in Lists |-> Mounted] /\ wire = {} /\ count.read = NoTotals)'
    BY DEF OpenTab
  <2> QED BY <1>2, <2>1, MountedTab, PTL
<1> QED BY <1>2, <1>3, <1>4 DEF TabInv

\* Nothing of a page depends on the Case but whether its server answers.
LEMMA TabKeeps ==
    ASSUME CaseType, TabInv, UNCHANGED tabVars, UNCHANGED caseVars \/ CaseStep
    PROVE  TabInv'
<1>1. /\ server.run <= server'.run /\ server'.run \in Nat /\ server.run \in Nat
      /\ server'.up /\ server'.run = server.run => case' = case /\ server.up
  <2>1. CASE UNCHANGED caseVars
    BY <2>1, OutcomesAssumption DEF caseVars, CaseType
  <2>2. CASE CaseStep
    BY <2>2, CaseStepFacts, OutcomesAssumption DEF CaseType
  <2> QED BY <2>1, <2>2
<1>2. tab.run \in Nat
  BY OutcomesAssumption DEF TabInv, TabTypes
<1>3. TabOfOneState'
  BY <1>1, <1>2 DEF TabInv, TabOfOneState, tabVars
<1> QED BY <1>3 DEF TabInv, TabTypes, WireInv, Rendered, ListReadTo, ReadOf, Counted, OneFilter,
     Drained, JournalGoesOn, tabVars

LEMMA ChangeFilterInv == ASSUME CaseType, TabInv, ChangeFilter PROVE TabInv'
<1> PICK f \in Filters \ {tab.filter} :
        tab' = [tab EXCEPT !.filter = f, !.actions = @ + 1]
  BY DEF ChangeFilter
<1>1. /\ tab'.base = tab.base /\ tab'.run = tab.run /\ tab'.filter = f
      /\ tab' \in [run : 0..MaxServers, filter : Filters \cup {All}, actions : 0..MaxActions,
                   base : Cases]
  <2>1. tab \in [run : 0..MaxServers, filter : Filters \cup {All}, actions : 0..MaxActions,
                base : Cases]
    BY DEF TabInv, TabTypes
  <2>2. tab.actions + 1 \in 0..MaxActions
    BY <2>1, ListsAssumption DEF ChangeFilter
  <2> QED BY <2>1, <2>2
<1>2. UNCHANGED <<case, server, lists, count, wire>>
  BY DEF ChangeFilter, caseVars
<1>3. TabTypes'
  BY <1>1, <1>2 DEF TabInv, TabTypes
<1>4. TabOfOneState'
  BY <1>1, <1>2 DEF TabInv, TabOfOneState
<1> QED BY <1>1, <1>2, <1>3, <1>4 DEF TabInv, WireInv, Rendered, ListReadTo, ReadOf, Counted,
     OneFilter, Drained, JournalGoesOn

LEMMA RenderInv == ASSUME CaseType, TabInv, Render PROVE TabInv'
<1>1. UNCHANGED <<case, server, tab, count, wire>>
  BY DEF Render, caseVars
<1>2. ASSUME NEW l \in Lists
      PROVE  /\ lists[l] \in ListRecords /\ lists'[l] \in ListRecords
             /\ lists'[l].view = lists[l].next /\ lists'[l].next = lists[l].next
             /\ lists'[l].ran = lists[l].ran /\ lists'[l].inFlight = lists[l].inFlight
             /\ lists[l].view = lists[l].next => lists'[l] = lists[l]
  BY DEF Render, TabInv, TabTypes, ListRecords
<1>3. TabTypes'
  <2>1. lists' \in [Lists -> ListRecords]
    BY <1>2 DEF Render
  <2> QED BY <1>1, <2>1 DEF TabInv, TabTypes
<1>4. ASSUME NEW l \in Lists PROVE Rendered(lists'[l])
  <2>1. CASE lists[l].view = lists[l].next
    BY <1>2, <2>1 DEF TabInv
  <2>2. CASE lists[l].view # lists[l].next
    <3>1. /\ lists[l].ran # NotRun /\ ~lists[l].inFlight /\ ~lists[l].next.loading
          /\ lists[l].ran[2] = lists[l].view.nonce /\ lists[l].view.nonce = lists[l].next.nonce
      BY <2>2, MountedFacts DEF TabInv, Rendered
    <3> QED BY <1>2, <3>1 DEF Rendered
  <2> QED BY <2>1, <2>2
<1>5. TabOfOneState' /\ Counted' /\ OneFilter'
  BY <1>1, <1>2 DEF TabInv, TabOfOneState, Counted, OneFilter
<1>6. WireInv' /\ (\A r \in wire' : ReadOf(r)')
  BY <1>1, <1>2 DEF TabInv, WireInv, ReadOf
<1>7. \A l \in Lists : ListReadTo(l)'
  BY <1>1, <1>2 DEF TabInv, ListReadTo
<1>8. Drained'
  BY <1>2, ListsAreThree DEF TabInv, Drained, JournalGoesOn
<1> QED BY <1>1, <1>3, <1>4, <1>5, <1>6, <1>7, <1>8 DEF TabInv

--------------------------------------------------------------------------------
\* A list that can be clicked on, or whose failed page is asked for again.
MayAsk(s) == (~s.view.loading /\ ~s.view.error) \/ FailedPage(s.view)

\* What loadMore makes of such a list.
LEMMA LoadMoreFacts ==
    ASSUME NEW l \in Lists, lists[l] \in ListRecords, Rendered(lists[l]), MayAsk(lists[l])
    PROVE  /\ lists[l].view = lists[l].next /\ ~lists[l].inFlight
           /\ lists[l].view.cursor = NoCursor => LoadMore(l) = lists[l] /\ MoreRead(l) = {}
           /\ lists[l].view.cursor # NoCursor =>
                 /\ lists[l].ran # NotRun /\ MoreRead(l) = {ListRead(l, lists[l].next.cursor)}
                 /\ LoadMore(l) \in ListRecords /\ Rendered(LoadMore(l))
                 /\ LoadMore(l).inFlight /\ LoadMore(l).ran = lists[l].ran
                 /\ LoadMore(l).next.rows = lists[l].next.rows
                 /\ LoadMore(l).next.cursor = lists[l].next.cursor
                 /\ ~LoadMore(l).next.error
<1> DEFINE s == lists[l]
           t == LoadMore(l)
<1>1. s \in ListRecords /\ s.view \in ListStates /\ s.next \in ListStates
  BY ListTypes
<1>2. s.view = s.next /\ ~s.inFlight
  BY DEF Rendered, MayAsk, FailedPage
<1>3. CASE s.view.cursor = NoCursor
  BY <1>2, <1>3 DEF LoadMore, MoreRead
<1>4. CASE s.view.cursor # NoCursor
  <2>1. s.ran # NotRun
    BY <1>4, MountedFacts DEF Rendered
  <2>2. s.ran[2] = s.view.nonce
    BY <2>1 DEF Rendered, MayAsk
  <2>3. /\ MoreRead(l) = {ListRead(l, s.next.cursor)}
        /\ t = [s EXCEPT !.inFlight = TRUE, !.next.loading = TRUE, !.next.error = FALSE,
                         !.view.loading = TRUE, !.view.error = FALSE]
    BY <1>2, <1>4 DEF LoadMore, MoreRead
  <2> HIDE DEF t, s
  <2>4. /\ t.view = [s.view EXCEPT !.loading = TRUE, !.error = FALSE]
        /\ t.next = [s.next EXCEPT !.loading = TRUE, !.error = FALSE]
        /\ t.ran = s.ran /\ t.inFlight = TRUE
    BY <1>1, <2>3 DEF ListRecords
  <2>5. t = [view |-> t.view, next |-> t.next, ran |-> t.ran, inFlight |-> t.inFlight]
    BY <1>1, <2>3 DEF ListRecords
  <2>6. /\ t.view \in ListStates /\ t.next \in ListStates
        /\ t.next.rows = s.next.rows /\ t.next.cursor = s.next.cursor /\ ~t.next.error
        /\ t.view.loading /\ ~t.view.error /\ t.next.loading
        /\ t.view.nonce = s.view.nonce /\ t.next.nonce = s.next.nonce
    BY <1>1, <2>4 DEF ListStates
  <2>7. t \in ListRecords
    BY <1>1, <2>4, <2>5, <2>6 DEF ListRecords
  <2>8. t.view = t.next
    BY <1>2, <2>4
  <2>9. Rendered(t)
    BY <1>2, <2>1, <2>2, <2>4, <2>6, <2>8 DEF Rendered
  <2> QED BY <1>2, <1>4, <2>1, <2>3, <2>4, <2>6, <2>7, <2>9 DEF s, t
<1> QED BY <1>2, <1>3, <1>4

Bumped(s) == [s EXCEPT !.next.nonce = @ + 1, !.view.nonce = @ + 1]

\* What retry from the start makes of a list.
LEMMA BumpedFacts ==
    ASSUME NEW s \in ListRecords, Rendered(s), s.view.error, ~FailedPage(s.view)
    PROVE  /\ Bumped(s) \in ListRecords /\ Rendered(Bumped(s))
           /\ Bumped(s).ran = s.ran /\ s.ran # NotRun /\ Bumped(s).inFlight = s.inFlight
           /\ Bumped(s).next.rows = s.next.rows /\ Bumped(s).next.cursor = s.next.cursor
           /\ Bumped(s).next.loading = s.next.loading /\ Bumped(s).next.error = s.next.error
<1> DEFINE t == Bumped(s)
<1>1. s.view \in ListStates /\ s.next \in ListStates
  BY ListTypes
<1>2. s.view = s.next /\ ~s.inFlight /\ s.ran # NotRun
  BY MountedFacts DEF Rendered
<1>3. /\ t.view = [s.view EXCEPT !.nonce = @ + 1] /\ t.next = [s.next EXCEPT !.nonce = @ + 1]
      /\ t.ran = s.ran /\ t.inFlight = s.inFlight
      /\ t = [view |-> t.view, next |-> t.next, ran |-> t.ran, inFlight |-> t.inFlight]
  <2> DEFINE v == [s.view EXCEPT !.nonce = @ + 1]
             n == [s.next EXCEPT !.nonce = @ + 1]
  <2>1. t = [s EXCEPT !.next = n, !.view = v]
    BY DEF Bumped
  <2> HIDE DEF v, n
  <2>2. t.view = v /\ t.next = n /\ t.ran = s.ran /\ t.inFlight = s.inFlight
    BY <2>1 DEF ListRecords
  <2>3. t = [view |-> t.view, next |-> t.next, ran |-> t.ran, inFlight |-> t.inFlight]
    BY <2>1 DEF ListRecords
  <2> QED BY <2>2, <2>3 DEF v, n
<1> HIDE DEF t
<1>4. /\ t.view \in ListStates /\ t.next \in ListStates /\ t.view = t.next
      /\ t.next.rows = s.next.rows /\ t.next.cursor = s.next.cursor
      /\ t.next.loading = s.next.loading /\ t.next.error = s.next.error
  BY <1>1, <1>2, <1>3 DEF ListStates
<1>5. t \in ListRecords
  BY <1>3, <1>4 DEF ListRecords
<1>6. Rendered(t)
  <2>1. t.view.error /\ ~FailedPage(t.view)
    BY <1>2, <1>4 DEF FailedPage
  <2> QED BY <1>2, <1>3, <1>4, <2>1 DEF Rendered
<1> QED BY <1>2, <1>3, <1>4, <1>5, <1>6 DEF t

\* A step that leaves the page on its Case and its filter.
TabStays ==
    /\ case' = case /\ server' = server
    /\ tab' \in [run : 0..MaxServers, filter : Filters \cup {All}, actions : 0..MaxActions,
                base : Cases]
    /\ tab'.run = tab.run /\ tab'.filter = tab.filter /\ tab'.base = tab.base

LEMMA ClickedInv ==
    ASSUME TabInv, NEW ls \in SUBSET Lists, NEW es \in SUBSET Lists, ls \cap es = {},
           \A l \in ls : MayAsk(lists[l]),
           \A l \in es : lists[l].view.error /\ ~FailedPage(lists[l].view),
           TabStays, tab.run # 0, count' = count,
           lists' = [l \in Lists |-> IF l \in ls THEN LoadMore(l)
                                    ELSE IF l \in es THEN Bumped(lists[l]) ELSE lists[l]],
           wire' = wire \cup UNION {MoreRead(l) : l \in ls},
           Journal \in ls /\ lists[Journal].view.cursor # NoCursor => WholeList(lists[Wal].next)
    PROVE  TabInv'
<1> DEFINE asked == {l \in ls : lists[l].next.cursor # NoCursor}
<1>1. ASSUME NEW l \in Lists
      PROVE  /\ lists[l] \in ListRecords /\ Rendered(lists[l])
             /\ lists'[l] \in ListRecords /\ Rendered(lists'[l]) /\ lists'[l].ran = lists[l].ran
             /\ lists'[l].next.rows = lists[l].next.rows
             /\ lists'[l].next.cursor = lists[l].next.cursor
             /\ l \notin asked => /\ lists'[l].inFlight = lists[l].inFlight
                                 /\ lists'[l].next.loading = lists[l].next.loading
                                 /\ lists'[l].next.error = lists[l].next.error
             /\ l \in asked => /\ lists'[l].inFlight /\ ~lists'[l].next.error
                              /\ ~lists[l].inFlight /\ lists[l].ran # NotRun
             /\ l \in ls => /\ lists[l].view = lists[l].next
                           /\ MoreRead(l) = IF l \in asked
                                  THEN {ListRead(l, lists[l].next.cursor)} ELSE {}
  <2>1. lists[l] \in ListRecords /\ Rendered(lists[l])
    BY DEF TabInv, TabTypes
  <2>2. CASE l \in ls
    <3>1. lists'[l] = LoadMore(l) /\ MayAsk(lists[l])
      BY <2>2
    <3>2. lists[l].view = lists[l].next /\ ~lists[l].inFlight
      BY <2>1, <3>1, LoadMoreFacts
    <3>3. CASE l \in asked
      <4>1. lists[l].view.cursor # NoCursor
        BY <3>2, <3>3
      <4>2. /\ lists[l].ran # NotRun /\ MoreRead(l) = {ListRead(l, lists[l].next.cursor)}
            /\ LoadMore(l) \in ListRecords /\ Rendered(LoadMore(l))
            /\ LoadMore(l).inFlight /\ LoadMore(l).ran = lists[l].ran
            /\ LoadMore(l).next.rows = lists[l].next.rows
            /\ LoadMore(l).next.cursor = lists[l].next.cursor
            /\ ~LoadMore(l).next.error
        BY <2>1, <3>1, <4>1, LoadMoreFacts
      <4> QED BY <2>1, <3>1, <3>2, <3>3, <4>2
    <3>4. CASE l \notin asked
      <4>1. lists[l].view.cursor = NoCursor
        BY <2>2, <3>2, <3>4
      <4>2. LoadMore(l) = lists[l] /\ MoreRead(l) = {}
        BY <2>1, <3>1, <4>1, LoadMoreFacts
      <4> QED BY <2>1, <3>1, <3>2, <3>4, <4>2
    <3> QED BY <3>3, <3>4
  <2>3. CASE l \in es
    <3>1. l \notin ls /\ lists'[l] = Bumped(lists[l])
      BY <2>3
    <3>2. /\ Bumped(lists[l]) \in ListRecords /\ Rendered(Bumped(lists[l]))
          /\ Bumped(lists[l]).ran = lists[l].ran
          /\ Bumped(lists[l]).inFlight = lists[l].inFlight
          /\ Bumped(lists[l]).next.rows = lists[l].next.rows
          /\ Bumped(lists[l]).next.cursor = lists[l].next.cursor
          /\ Bumped(lists[l]).next.loading = lists[l].next.loading
          /\ Bumped(lists[l]).next.error = lists[l].next.error
      BY <2>1, <2>3, BumpedFacts
    <3> QED BY <2>1, <3>1, <3>2
  <2>4. CASE l \notin ls /\ l \notin es
    BY <2>1, <2>4
  <2> QED BY <2>2, <2>3, <2>4
<1>2. wire' = wire \cup {ListRead(l, lists[l].next.cursor) : l \in asked}
  <2>1. UNION {MoreRead(l) : l \in ls} = {ListRead(l, lists[l].next.cursor) : l \in asked}
    BY <1>1
  <2> QED BY <2>1
<1>3. TabTypes'
  <2>1. lists' \in [Lists -> ListRecords]
    BY <1>1
  <2>2. \A l \in asked : ListRead(l, lists[l].next.cursor) \in Reads
    <3> SUFFICES ASSUME NEW l \in asked PROVE ListRead(l, lists[l].next.cursor) \in Reads
      OBVIOUS
    <3>1. ListQuery(tab.filter, l) \in Queries
      BY ListQueryIsQuery DEF TabInv, TabTypes
    <3>2. lists[l].next.cursor \in Cursors \cup {NoCursor}
      BY <1>1, ListTypes
    <3> QED BY <3>1, <3>2 DEF ListRead, Reads
  <2> QED BY <1>2, <2>1, <2>2 DEF TabInv, TabTypes, TabStays
<1>4. TabOfOneState'
  BY DEF TabInv, TabOfOneState, TabStays
<1>5. \A l \in asked : \A r \in wire : r.reader # l
  BY <1>1 DEF TabInv, WireInv
<1>6. \A l \in asked : ListRead(l, lists[l].next.cursor).reader = l
  BY DEF ListRead
<1>7. WireInv'
  <2>1. \A l \in Lists : lists'[l].inFlight <=> \E r \in wire' : r.reader = l
    <3> SUFFICES ASSUME NEW l \in Lists
                 PROVE  lists'[l].inFlight <=> \E r \in wire' : r.reader = l
      OBVIOUS
    <3>1. CASE l \in asked
      BY <1>1, <1>2, <1>6, <3>1
    <3>2. CASE l \notin asked
      BY <1>1, <1>2, <1>6, <3>2 DEF TabInv, WireInv
    <3> QED BY <3>1, <3>2
  <2>2. \A r, s \in wire' : r.reader = s.reader => r = s
    BY <1>2, <1>5, <1>6 DEF TabInv, WireInv
  <2>3. \A r \in wire' : r.reader = Count => r.query.profile \in Filters
    BY <1>2, <1>6, ListsAreThree DEF TabInv, WireInv
  <2> QED BY <2>1, <2>2, <2>3 DEF WireInv
<1>8. ASSUME NEW l \in Lists PROVE ListReadTo(l)'
  <2>1. ListReadTo(l)
    BY DEF TabInv
  <2>2. /\ tab'.base = tab.base /\ lists'[l].ran = lists[l].ran
        /\ lists'[l].next.rows = lists[l].next.rows
        /\ lists'[l].next.cursor = lists[l].next.cursor
    BY <1>1 DEF TabStays
  <2>3. lists[l].next.cursor = NoCursor =>
          /\ lists'[l].next.loading = lists[l].next.loading
          /\ lists'[l].next.error = lists[l].next.error
    BY <1>1
  <2> QED BY <2>1, <2>2, <2>3 DEF ListReadTo
<1>9. ASSUME NEW r \in wire' PROVE ReadOf(r)'
  <2>1. CASE r \in wire
    BY <1>1, <2>1 DEF TabInv, ReadOf
  <2>2. CASE r \notin wire
    <3>1. PICK l \in asked : r = ListRead(l, lists[l].next.cursor)
      BY <1>2, <2>2
    <3>2. r.reader = l /\ r.after = lists[l].next.cursor
      BY <3>1 DEF ListRead
    <3> QED BY <1>1, <3>2 DEF ReadOf
  <2> QED BY <2>1, <2>2
<1>10. Counted' /\ OneFilter'
  BY <1>1 DEF TabInv, Counted, OneFilter, TabStays
<1>11. Drained'
  <2>1. JournalGoesOn' => JournalGoesOn \/ Journal \in asked
    BY <1>1, ListsAreThree DEF JournalGoesOn, FailedPage
  <2>2. Journal \in asked => WholeList(lists[Wal].next)
    BY <1>1
  <2>3. JournalGoesOn' => WholeList(lists[Wal].next)
    BY <2>1, <2>2 DEF TabInv, Drained
  <2>4. WholeList(lists[Wal].next) => WholeList(lists'[Wal].next)
    BY <1>1, ListsAreThree DEF WholeList
  <2> QED BY <2>3, <2>4 DEF Drained
<1> QED BY <1>1, <1>3, <1>4, <1>7, <1>8, <1>9, <1>10, <1>11 DEF TabInv

LEMMA ClickLoadMoreInv == ASSUME CaseType, TabInv, ClickLoadMore PROVE TabInv'
<1>1. TabStays /\ count' = count
  BY DEF ClickLoadMore, TabStays, caseVars, TabInv, TabTypes
<1>2. MayAsk(lists[Saved])
  BY DEF ClickLoadMore, MayLoadMore, MayAsk
<1>3. lists' = [l \in Lists |-> IF l \in {Saved} THEN LoadMore(l)
                               ELSE IF l \in {} THEN Bumped(lists[l]) ELSE lists[l]]
  BY ListsAreThree DEF ClickLoadMore, TabInv, TabTypes
<1>4. wire' = wire \cup UNION {MoreRead(l) : l \in {Saved}}
  BY DEF ClickLoadMore
<1>5. {Saved} \in SUBSET Lists /\ {} \in SUBSET Lists /\ {Saved} \cap {} = {} /\ Journal \notin {Saved}
  BY ListsAreThree
<1>6. tab.run # 0
  BY DEF ClickLoadMore
<1> QED BY <1>1, <1>2, <1>3, <1>4, <1>5, <1>6, ClickedInv

LEMMA ClickLoadMoreRecoveredInv ==
    ASSUME CaseType, TabInv, ClickLoadMoreRecovered PROVE TabInv'
<1> DEFINE n == NextSidecar
<1>1. TabStays /\ count' = count
  BY DEF ClickLoadMoreRecovered, TabStays, caseVars, TabInv, TabTypes
<1>2. n \in {Wal, Journal} /\ n \in Lists
  BY ListsAreThree DEF NextSidecar
<1>3. /\ ~lists[Wal].view.error /\ ~lists[Journal].view.error
      /\ ~lists[Wal].view.loading /\ ~lists[Journal].view.loading
  BY DEF ClickLoadMoreRecovered, MayLoadMore, Recovered
<1>4. MayAsk(lists[n])
  BY <1>2, <1>3 DEF MayAsk
<1>5. n = Journal => WholeList(lists[Wal].next)
  <2> SUFFICES ASSUME n = Journal PROVE WholeList(lists[Wal].next)
    OBVIOUS
  <2>1. lists[Wal].view.cursor = NoCursor
    BY ListsAreThree DEF NextSidecar
  <2>2. Rendered(lists[Wal])
    BY ListsAreThree DEF TabInv
  <2>3. lists[Wal].view = lists[Wal].next
    BY <1>3, <2>2 DEF Rendered
  <2> QED BY <1>3, <2>1, <2>3 DEF WholeList
<1>6. /\ lists' = [lists EXCEPT ![n] = LoadMore(n)] /\ wire' = wire \cup MoreRead(n)
      /\ tab.run # 0
  BY DEF ClickLoadMoreRecovered
<1> HIDE DEF n
<1>7. lists' = [l \in Lists |-> IF l \in {n} THEN LoadMore(l)
                               ELSE IF l \in {} THEN Bumped(lists[l]) ELSE lists[l]]
  BY <1>2, <1>6 DEF TabInv, TabTypes
<1>8. wire' = wire \cup UNION {MoreRead(l) : l \in {n}}
  BY <1>6
<1>9. {n} \in SUBSET Lists /\ {} \in SUBSET Lists /\ {n} \cap {} = {}
  BY <1>2
<1>10. \A l \in {n} : MayAsk(lists[l])
  BY <1>4
<1>11. Journal \in {n} => WholeList(lists[Wal].next)
  BY <1>5
<1> QED BY <1>1, <1>6, <1>7, <1>8, <1>9, <1>10, <1>11, ClickedInv

LEMMA RetryInv ==
    ASSUME CaseType, TabInv, NEW fs \in SUBSET Lists, Retry(fs), UNCHANGED caseVars,
           \A l \in fs : lists[l].view.error
    PROVE  TabInv'
<1> DEFINE ls == {l \in fs : FailedPage(lists[l].view)}
           es == fs \ ls
<1>1. TabStays
  <2>1. tab \in [run : 0..MaxServers, filter : Filters \cup {All}, actions : 0..MaxActions,
                base : Cases]
    BY DEF TabInv, TabTypes
  <2>2. tab.actions < MaxActions /\ tab' = [tab EXCEPT !.actions = @ + 1]
    BY DEF Retry
  <2>3. tab.actions + 1 \in 0..MaxActions
    BY <2>1, <2>2, ListsAssumption
  <2> QED BY <2>1, <2>2, <2>3 DEF TabStays, caseVars
<1>2. count' = count /\ tab.run # 0 /\ ls \in SUBSET Lists /\ es \in SUBSET Lists /\ ls \cap es = {}
  BY DEF Retry
<1>3. \A l \in ls : MayAsk(lists[l])
  BY DEF MayAsk
<1>4. \A l \in es : lists[l].view.error /\ ~FailedPage(lists[l].view)
  OBVIOUS
<1>5. lists' = [l \in Lists |-> IF l \in ls THEN LoadMore(l)
                               ELSE IF l \in es THEN Bumped(lists[l]) ELSE lists[l]]
  BY DEF Retry, Bumped
<1>6. wire' = wire \cup UNION {MoreRead(l) : l \in ls}
  BY DEF Retry
<1>7. Journal \in ls => WholeList(lists[Wal].next)
  <2> SUFFICES ASSUME Journal \in ls PROVE WholeList(lists[Wal].next)
    OBVIOUS
  <2>1. FailedPage(lists[Journal].view) /\ lists[Journal].view.error
    OBVIOUS
  <2>2. Rendered(lists[Journal])
    BY ListsAreThree DEF TabInv
  <2>3. lists[Journal].view = lists[Journal].next
    BY <2>1, <2>2 DEF Rendered
  <2>4. JournalGoesOn
    BY <2>1, <2>3 DEF JournalGoesOn
  <2> QED BY <2>4 DEF TabInv, Drained
<1> HIDE DEF ls, es
<1> QED BY <1>1, <1>2, <1>3, <1>4, <1>5, <1>6, <1>7, ClickedInv

LEMMA ClickRetryInv ==
    ASSUME CaseType, TabInv, UNCHANGED caseVars, ClickRetry \/ ClickRetryRecovered PROVE TabInv'
<1>1. CASE ClickRetry
  BY <1>1, RetryInv, ListsAreThree DEF ClickRetry
<1>2. CASE ClickRetryRecovered
  <2> DEFINE fs == {l \in {Wal, Journal} : lists[l].view.error}
  <2>1. fs \in SUBSET Lists /\ Retry(fs) /\ \A l \in fs : lists[l].view.error
    BY <1>2, ListsAreThree DEF ClickRetryRecovered
  <2> HIDE DEF fs
  <2> QED BY <2>1, RetryInv
<1> QED BY <1>1, <1>2

--------------------------------------------------------------------------------
LEMMA RunEffectsInv == ASSUME CaseType, TabInv, RunEffects PROVE TabInv'
<1> DEFINE due == DueLists
           gone == Abandoned(due \cup (IF CountDue THEN {Count} ELSE {}))
           fresh(l) == [view |-> Again(l), next |-> Again(l), ran |-> Deps(l), inFlight |-> TRUE]
<1>1. /\ UNCHANGED <<case, server, tab>> /\ tab.run # 0 /\ tab.filter \in Filters
      /\ lists' = [l \in Lists |-> IF l \in due THEN fresh(l) ELSE lists[l]]
      /\ count' = [count EXCEPT !.ran = tab.filter]
      /\ wire' = (wire \ gone) \cup {ListRead(l, NoCursor) : l \in due}
                              \cup (IF CountDue THEN {CountRead} ELSE {})
  BY DEF RunEffects, caseVars, TabInv, TabTypes
<1>2. ASSUME NEW l \in Lists
      PROVE  /\ lists[l] \in ListRecords /\ Rendered(lists[l])
             /\ Deps(l) \in Filters \X Nat /\ Deps(l) # NotRun
             /\ Deps(l)[1] = tab.filter /\ Deps(l)[2] = lists[l].view.nonce
  <2>1. lists[l] \in ListRecords /\ Rendered(lists[l])
    BY DEF TabInv, TabTypes
  <2>2. lists[l].view.nonce \in Nat
    BY <2>1, ListTypes
  <2> QED BY <1>1, <2>1, <2>2, ListsAssumption DEF Deps
<1>3. ASSUME NEW l \in due
      PROVE  /\ lists'[l] \in ListRecords /\ Rendered(lists'[l]) /\ lists'[l].inFlight
             /\ lists'[l].ran = Deps(l) /\ lists'[l].next.rows = << >>
             /\ lists'[l].next.cursor = NoCursor /\ lists'[l].next.loading
             /\ ~lists'[l].next.error
  <2>1. l \in Lists /\ lists'[l] = fresh(l)
    BY <1>1 DEF DueLists
  <2>2. lists[l].next.nonce \in Nat /\ lists[l].view.nonce = lists[l].next.nonce
    BY <1>2, <2>1, ListTypes DEF Rendered
  <2>3. /\ Again(l) \in ListStates /\ Again(l).rows = << >> /\ Again(l).cursor = NoCursor
        /\ Again(l).loading /\ ~Again(l).error /\ Again(l).nonce = lists[l].next.nonce
    BY <2>2, MountedFacts DEF Again, ListStates
  <2> HIDE DEF due
  <2>4. /\ fresh(l).view = Again(l) /\ fresh(l).next = Again(l) /\ fresh(l).ran = Deps(l)
        /\ fresh(l).inFlight
    OBVIOUS
  <2>5. fresh(l) \in ListRecords
    BY <1>2, <2>1, <2>3 DEF ListRecords
  <2>6. Rendered(fresh(l))
    BY <1>2, <2>1, <2>2, <2>3, <2>4 DEF Rendered
  <2> QED BY <2>1, <2>3, <2>4, <2>5, <2>6
<1>4. \A l \in Lists \ due : lists'[l] = lists[l] /\ lists[l].ran = Deps(l)
  BY <1>1 DEF DueLists
<1>5. due \subseteq Lists
  BY DEF DueLists
<1>6. \A r \in wire \ gone : r.reader \notin due /\ (r.reader = Count => ~CountDue)
  BY DEF Abandoned
<1>7. \A r \in wire : r.reader \notin due /\ (r.reader = Count => ~CountDue) => r \notin gone
  BY DEF Abandoned
<1>8. /\ CountRead.reader = Count /\ CountRead.query = ListQuery(tab.filter, All)
      /\ CountRead \in Reads
      /\ \A l \in Lists : /\ ListRead(l, NoCursor).reader = l
                         /\ ListRead(l, NoCursor).after = NoCursor
                         /\ ListRead(l, NoCursor).query = ListQuery(tab.filter, l)
                         /\ ListRead(l, NoCursor) \in Reads
  BY <1>1, ListQueryIsQuery DEF CountRead, ListRead, Reads
<1> HIDE DEF due, gone, fresh
<1>9. TabTypes'
  <2>1. lists' \in [Lists -> ListRecords]
    BY <1>1, <1>2, <1>3, <1>4
  <2>2. wire' \subseteq Reads
    BY <1>1, <1>5, <1>8 DEF TabInv, TabTypes
  <2>3. count' \in [read : Figures, ran : Filters \cup {NotRun}]
    BY <1>1 DEF TabInv, TabTypes
  <2> QED BY <1>1, <2>1, <2>2, <2>3 DEF TabInv, TabTypes
<1>10. TabOfOneState'
  BY <1>1 DEF TabInv, TabOfOneState
<1>11. WireInv'
  <2>1. \A l \in Lists : lists'[l].inFlight <=> \E r \in wire' : r.reader = l
    <3> SUFFICES ASSUME NEW l \in Lists
                 PROVE  lists'[l].inFlight <=> \E r \in wire' : r.reader = l
      OBVIOUS
    <3>1. CASE l \in due
      <4>1. ListRead(l, NoCursor) \in wire' /\ ListRead(l, NoCursor).reader = l
        BY <1>1, <1>8, <3>1
      <4> QED BY <1>3, <3>1, <4>1
    <3>2. CASE l \notin due
      <4>1. ASSUME NEW r \in wire', r.reader = l PROVE r \in wire
        <5>1. \A k \in due : ListRead(k, NoCursor).reader # l
          BY <1>5, <1>8, <3>2
        <5>2. CountRead.reader # l
          BY <1>8, ListsAreThree
        <5> QED BY <1>1, <4>1, <5>1, <5>2
      <4>2. ASSUME NEW r \in wire, r.reader = l PROVE r \in wire'
        <5>1. r.reader # Count
          BY <4>2, ListsAreThree
        <5>2. r \notin gone
          BY <1>7, <3>2, <4>2, <5>1
        <5> QED BY <1>1, <5>2
      <4>3. (\E r \in wire' : r.reader = l) <=> \E r \in wire : r.reader = l
        BY <4>1, <4>2
      <4> QED BY <1>4, <3>2, <4>3 DEF TabInv, WireInv
    <3> QED BY <3>1, <3>2
  <2>2. \A r, s \in wire' : r.reader = s.reader => r = s
    BY <1>1, <1>5, <1>6, <1>8, ListsAreThree DEF TabInv, WireInv
  <2>3. \A r \in wire' : r.reader = Count => r.query.profile \in Filters
    <3>1. CountRead.query.profile \in Filters
      BY <1>1, <1>8, ListQueryIsQuery
    <3> QED BY <1>1, <1>5, <1>8, <3>1, ListsAreThree DEF TabInv, WireInv
  <2> QED BY <2>1, <2>2, <2>3 DEF WireInv
<1>12. ASSUME NEW l \in Lists PROVE Rendered(lists'[l]) /\ ListReadTo(l)'
  <2>1. CASE l \in due
    BY <1>3, <2>1 DEF ListReadTo
  <2>2. CASE l \notin due
    BY <1>1, <1>2, <1>4, <2>2 DEF TabInv, ListReadTo
  <2> QED BY <2>1, <2>2
<1>13. ASSUME NEW r \in wire' PROVE ReadOf(r)'
  <2>1. CASE r.reader \notin Lists
    BY <2>1 DEF ReadOf
  <2>2. CASE r.reader \in due
    <3>1. r = ListRead(r.reader, NoCursor)
      BY <1>1, <1>5, <1>6, <1>8, <2>2, ListsAreThree
    <3>2. r.after = NoCursor /\ r.query = ListQuery(tab.filter, r.reader)
      BY <1>5, <1>8, <2>2, <3>1
    <3> QED BY <1>2, <1>3, <1>5, <2>2, <3>2 DEF ReadOf
  <2>3. CASE r.reader \in Lists \ due
    <3>1. r \in wire
      BY <1>1, <1>5, <1>8, <2>3, ListsAreThree
    <3> QED BY <1>4, <2>3, <3>1 DEF TabInv, ReadOf
  <2> QED BY <2>1, <2>2, <2>3
<1>14. Counted'
  BY <1>1 DEF TabInv, TabTypes, Counted
<1>15. \A l \in Lists : lists'[l].ran = Deps(l)
  BY <1>3, <1>4
<1>16. OneFilter'
  BY <1>2, <1>15 DEF OneFilter
<1>17. Drained'
  <2> SUFFICES ASSUME JournalGoesOn' PROVE WholeList(lists'[Wal].next)
    BY DEF Drained
  <2>1. Journal \notin due
    <3> SUFFICES ASSUME Journal \in due PROVE FALSE
      OBVIOUS
    <3>1. lists'[Journal].next.rows = << >> /\ lists'[Journal].next.cursor = NoCursor
      BY <1>3
    <3>2. Len(<< >>) = 0 /\ ~(0 > Limit)
      BY ListsAssumption
    <3> QED BY <3>1, <3>2 DEF JournalGoesOn, FailedPage
  <2>2. lists'[Journal] = lists[Journal] /\ lists[Journal].ran = Deps(Journal)
    BY <1>4, <2>1, ListsAreThree
  <2>3. WholeList(lists[Wal].next)
    BY <2>2 DEF TabInv, Drained, JournalGoesOn
  <2>4. lists[Wal].ran # NotRun /\ lists[Wal].ran[1] = tab.filter
    BY <1>2, <2>2, ListsAreThree DEF TabInv, OneFilter
  <2>5. lists[Wal].ran[2] = lists[Wal].view.nonce
    <3>1. ~lists[Wal].next.error /\ Rendered(lists[Wal])
      BY <1>2, <2>3, ListsAreThree DEF WholeList
    <3> QED BY <2>4, <3>1 DEF Rendered
  <2>6. lists[Wal].ran = Deps(Wal)
    <3>1. lists[Wal].ran \in Filters \X Nat
      BY <1>2, <2>4, ListTypes, ListsAreThree
    <3> QED BY <2>4, <2>5, <3>1 DEF Deps
  <2>7. Wal \notin due
    BY <2>6 DEF due, DueLists
  <2> QED BY <1>4, <2>3, <2>7, ListsAreThree
<1> QED BY <1>9, <1>10, <1>11, <1>12, <1>13, <1>14, <1>16, <1>17 DEF TabInv

--------------------------------------------------------------------------------
\* The answer of the server to a read of a list goes on from what the list has:
\* a cursor of another query is refused.
LEMMA AnswerGoesOn ==
    ASSUME CaseType, TabInv, NEW r \in wire, r.reader \in Lists, Served(r)
    PROVE  LET s == lists[r.reader]
               q == ListQuery(s.ran[1], r.reader)
           IN  /\ s.ran # NotRun /\ q \in Queries
               /\ Answer(r) \in Answers
               /\ r.after = NoCursor => Len(Answer(r).items) <= Limit
               /\ ReadTo(tab.base, q, IF r.after = NoCursor THEN Answer(r).items
                                       ELSE s.next.rows \o Answer(r).items, Answer(r).next)
<1> DEFINE l == r.reader
           s == lists[l]
           q == ListQuery(s.ran[1], l)
<1>1. /\ s \in ListRecords /\ Rendered(s) /\ s.inFlight /\ ListReadTo(l) /\ ReadOf(r)
      /\ tab.base \in Cases
  BY DEF TabInv, TabTypes, WireInv
<1>2. s.ran # NotRun
  BY <1>1, MountedFacts DEF Rendered
<1>3. q \in Queries /\ s.next.rows \in Seq(Rows)
  <2>1. s.ran[1] \in Filters
    BY <1>1, <1>2, ListTypes
  <2> QED BY <1>1, <2>1, ListQueryIsQuery, ListTypes
<1>4. case = tab.base /\ ~Refuses(tab.base, r.query, r.after)
  BY DEF Served, Serves, TokensMatch, TabInv, TabOfOneState
<1>5. Answer(r) = Page(tab.base, r.query, r.after, Limit)
  BY <1>4, ListsAreThree DEF Answer
<1>6. Limit \in Nat \ {0}
  BY ListsAssumption
<1>7. CASE r.after = NoCursor
  <2>1. r.query = q
    BY <1>1, <1>7 DEF ReadOf
  <2> HIDE DEF q
  <2>2. Answer(r) = Page(tab.base, q, NoCursor, Limit)
    BY <1>5, <1>7, <2>1
  <2>3. /\ Answer(r) \in Answers /\ Len(Answer(r).items) <= Limit
        /\ ReadTo(tab.base, q, Answer(r).items, Answer(r).next)
    BY <1>1, <1>3, <1>6, <2>2, ReadsFirst
  <2> QED BY <1>2, <1>3, <1>7, <2>3 DEF q
<1>8. CASE r.after # NoCursor
  <2>1. r.after = s.next.cursor
    BY <1>1 DEF ReadOf
  <2>2. ReadTo(tab.base, q, s.next.rows, r.after)
    BY <1>1, <1>2, <1>8, <2>1 DEF ListReadTo
  <2> HIDE DEF q, s
  <2>3. r.after.print = Fingerprint(tab.base, q)
    BY <1>1, <1>3, <1>8, <2>2, ReadToFacts
  <2>4. r.after.print = Fingerprint(tab.base, r.query)
    BY <1>4, <1>8 DEF Refuses
  <2>5. Fingerprint(tab.base, q) = Fingerprint(tab.base, r.query)
    BY <2>3, <2>4
  <2>6. r.query = q
    BY <2>5, SamePrint
  <2>7. Answer(r) = Page(tab.base, q, r.after, Limit)
    BY <1>5, <2>6
  <2>8. Answer(r) \in Answers /\ ReadTo(tab.base, q, s.next.rows \o Answer(r).items, Answer(r).next)
    BY <1>1, <1>3, <1>6, <1>8, <2>2, <2>7, ReadsOn
  <2> QED BY <1>2, <1>3, <1>8, <2>8 DEF q, s
<1> QED BY <1>7, <1>8

LEMMA SettleListInv ==
    ASSUME CaseType, TabInv, TabStays, NEW r \in wire, NEW answer, Settle(r, answer),
           r.reader \in Lists, answer = Failed \/ (Served(r) /\ answer = Answer(r))
    PROVE  TabInv'
<1> DEFINE l == r.reader
           s == lists[l]
           n == Landed(s.next, r, answer)
           t == [s EXCEPT !.next = n, !.inFlight = FALSE]
<1>1. /\ count' = count /\ wire' = wire \ {r}
      /\ lists' = [lists EXCEPT ![l].next = n, ![l].inFlight = FALSE]
  BY ListsAreThree DEF Settle
<1>2. /\ s \in ListRecords /\ Rendered(s) /\ s.inFlight /\ ListReadTo(l) /\ ReadOf(r)
      /\ \A m \in Lists : lists[m] \in ListRecords /\ Rendered(lists[m])
  BY DEF TabInv, TabTypes, WireInv
<1>3. lists \in [Lists -> ListRecords]
  BY DEF TabInv, TabTypes
<1>4. lists' = [lists EXCEPT ![l] = t]
  BY <1>1, <1>3
<1>5. /\ s.ran # NotRun /\ s.view.loading /\ ~s.view.error /\ s.view = s.next
      /\ s.view.nonce = s.next.nonce /\ s.ran[2] = s.view.nonce
      /\ s.next \in ListStates
  BY <1>2, MountedFacts, ListTypes DEF Rendered
<1>6. /\ n \in ListStates /\ n.nonce = s.next.nonce /\ ~n.loading
      /\ \/ n.rows = s.next.rows /\ n.cursor = s.next.cursor /\ n.error
         \/ /\ ~n.error /\ ReadTo(tab.base, ListQuery(s.ran[1], l), n.rows, n.cursor)
            /\ s.next.cursor = NoCursor => Len(n.rows) <= Limit
  <2>1. CASE answer = Failed
    <3>1. n = [s.next EXCEPT !.error = TRUE, !.loading = FALSE]
      BY <2>1 DEF Landed
    <3> HIDE DEF n, s
    <3> QED BY <1>5, <3>1 DEF ListStates
  <2>2. CASE answer # Failed
    <3> DEFINE rows == IF r.after = NoCursor THEN answer.items ELSE s.next.rows \o answer.items
               cursor == answer.next
    <3>1. answer \in Answers /\ (r.after = NoCursor => Len(answer.items) <= Limit)
      BY <2>2, AnswerGoesOn
    <3>2. ReadTo(tab.base, ListQuery(s.ran[1], l), rows, answer.next)
      BY <2>2, AnswerGoesOn
    <3>3. n = [s.next EXCEPT !.rows = rows, !.cursor = cursor, !.loading = FALSE]
      BY <2>2 DEF Landed
    <3>4. s.next.rows \in Seq(Rows) /\ r.after = s.next.cursor
      BY <1>2, ListTypes DEF ReadOf
    <3>5. rows \in Seq(Rows) /\ cursor \in Cursors \cup {NoCursor}
      BY <3>1, <3>4 DEF Answers
    <3>6. s.next.cursor = NoCursor => Len(rows) <= Limit
      BY <3>1, <3>4
    <3>7. ~s.next.error
      BY <1>5
    <3> HIDE DEF n, s, rows, cursor
    <3>8. /\ n \in ListStates /\ n.nonce = s.next.nonce /\ ~n.loading /\ ~n.error
          /\ n.rows = rows /\ n.cursor = cursor
      BY <1>5, <3>3, <3>5, <3>7 DEF ListStates
    <3> QED BY <3>2, <3>6, <3>8 DEF cursor
  <2> QED BY <2>1, <2>2
<1> HIDE DEF n
<1>7. t.view = s.view /\ t.next = n /\ t.ran = s.ran /\ t.inFlight = FALSE /\ t \in ListRecords
  <2> HIDE DEF s
  <2> QED BY <1>2, <1>6 DEF ListRecords
<1>8. Rendered(t)
  BY <1>5, <1>6, <1>7 DEF Rendered
<1>9. lists'[l] = t /\ \A m \in Lists : m # l => lists'[m] = lists[m]
  BY <1>3, <1>4
<1> HIDE DEF t
<1>10. TabTypes'
  <2>1. lists' \in [Lists -> ListRecords]
    BY <1>3, <1>4, <1>7
  <2> QED BY <1>1, <2>1 DEF TabInv, TabTypes, TabStays
<1>11. TabOfOneState'
  BY DEF TabInv, TabOfOneState, TabStays
<1>12. WireInv'
  <2>1. \A u \in wire' : u \in wire /\ u.reader # l
    BY <1>1 DEF TabInv, WireInv
  <2>2. \A m \in Lists : lists'[m].inFlight <=> \E u \in wire' : u.reader = m
    <3> SUFFICES ASSUME NEW m \in Lists
                 PROVE  lists'[m].inFlight <=> \E u \in wire' : u.reader = m
      OBVIOUS
    <3>1. CASE m = l
      BY <1>7, <1>9, <2>1, <3>1
    <3>2. CASE m # l
      <4>1. (\E u \in wire' : u.reader = m) <=> \E u \in wire : u.reader = m
        BY <1>1, <3>2
      <4> QED BY <1>9, <3>2, <4>1 DEF TabInv, WireInv
    <3> QED BY <3>1, <3>2
  <2> QED BY <2>1, <2>2 DEF TabInv, WireInv
<1>13. ASSUME NEW m \in Lists PROVE Rendered(lists'[m]) /\ ListReadTo(m)'
  <2>1. CASE m = l
    <3>1. Rendered(lists'[m])
      BY <1>8, <1>9, <2>1
    <3>2. ListReadTo(l)'
      <4>1. tab'.base = tab.base /\ lists'[l].ran = s.ran /\ lists'[l].next = n
        BY <1>7, <1>9 DEF TabStays
      <4> HIDE DEF s
      <4> QED BY <1>2, <1>5, <1>6, <4>1 DEF ListReadTo, s
    <3> QED BY <2>1, <3>1, <3>2
  <2>2. CASE m # l
    BY <1>2, <1>9, <2>2 DEF TabInv, ListReadTo, TabStays
  <2> QED BY <2>1, <2>2
<1>14. ASSUME NEW u \in wire' PROVE ReadOf(u)'
  <2>1. u \in wire /\ u.reader # l /\ ReadOf(u)
    BY <1>1 DEF TabInv, WireInv
  <2> QED BY <1>9, <2>1 DEF ReadOf
<1>15. Counted' /\ OneFilter'
  <2>1. \A m \in Lists : lists'[m].ran = lists[m].ran
    BY <1>7, <1>9
  <2>2. OneFilter'
    BY <2>1 DEF TabInv, OneFilter
  <2>3. Counted'
    BY <1>1 DEF TabInv, Counted, TabStays
  <2> QED BY <2>2, <2>3
<1>16. Drained'
  <2>1. CASE l = Journal
    <3>1. JournalGoesOn' => JournalGoesOn
      <4>1. lists'[Journal].next = n /\ ~lists'[Journal].inFlight /\ lists[Journal] = s
        BY <1>7, <1>9, <2>1
      <4>2. n.rows \in Seq(Rows) /\ Len(n.rows) \in Nat /\ Limit \in Nat
        BY <1>6, ListsAssumption DEF ListStates
      <4>3. CASE s.next.cursor = NoCursor
        <5>1. Len(n.rows) <= Limit \/ n.rows = s.next.rows
          BY <1>6, <4>3
        <5>2. ~FailedPage(n)
          BY <1>6, <4>3 DEF FailedPage
        <5> HIDE DEF s
        <5> QED BY <4>1, <4>2, <5>1, <5>2 DEF JournalGoesOn
      <4>4. CASE s.next.cursor # NoCursor
        BY <1>2, <4>1, <4>4 DEF JournalGoesOn
      <4> QED BY <4>3, <4>4
    <3>2. lists'[Wal] = lists[Wal]
      BY <1>9, <2>1, ListsAreThree
    <3> QED BY <3>1, <3>2 DEF TabInv, Drained
  <2>2. CASE l = Wal
    <3>1. ~WholeList(lists[Wal].next)
      BY <1>5, <2>2 DEF WholeList
    <3>2. lists'[Journal] = lists[Journal]
      BY <1>9, <2>2, ListsAreThree
    <3> QED BY <3>1, <3>2 DEF TabInv, Drained, JournalGoesOn
  <2>3. CASE l # Wal /\ l # Journal
    BY <1>9, <2>3, ListsAreThree DEF TabInv, Drained, JournalGoesOn
  <2> QED BY <2>1, <2>2, <2>3
<1> QED BY <1>10, <1>11, <1>12, <1>13, <1>14, <1>15, <1>16 DEF TabInv

LEMMA SettleCountInv ==
    ASSUME CaseType, TabInv, TabStays, NEW r \in wire, NEW answer, Settle(r, answer),
           r.reader = Count, answer = Failed \/ (Served(r) /\ answer = Answer(r))
    PROVE  TabInv'
<1>1. /\ lists' = lists /\ wire' = wire \ {r}
      /\ count' = [count EXCEPT !.read = [key |-> r.query.profile, value |-> answer]]
  BY DEF Settle
<1>2. r.query.profile \in Filters /\ tab.base \in Cases
  BY DEF TabInv, TabTypes, WireInv
<1>3. \/ answer = Failed
      \/ answer = [l \in Lists |->
                     Cardinality(Selected(tab.base, ListQuery(r.query.profile, l)))]
  <2> SUFFICES ASSUME answer # Failed
               PROVE  answer = [l \in Lists |->
                     Cardinality(Selected(tab.base, ListQuery(r.query.profile, l)))]
    OBVIOUS
  <2>1. case = tab.base
    BY DEF Served, Serves, TokensMatch, TabInv, TabOfOneState
  <2> QED BY <2>1 DEF Answer, Totals
<1>4. answer \in [Lists -> Nat] \cup {Loading, Failed}
  <2>1. \A l \in Lists : Cardinality(Selected(tab.base, ListQuery(r.query.profile, l))) \in Nat
    BY <1>2, ListQueryIsQuery, RouteFacts
  <2> QED BY <1>3, <2>1
<1>5. TabTypes'
  <2>1. [key |-> r.query.profile, value |-> answer] \in Figures
    BY <1>2, <1>4 DEF Figures
  <2> QED BY <1>1, <2>1 DEF TabInv, TabTypes, TabStays
<1>6. Counted'
  <2>1. /\ count'.read.key = r.query.profile /\ count'.read.value = answer
        /\ tab'.base = tab.base
    BY <1>1 DEF TabInv, TabTypes, TabStays
  <2> QED BY <1>3, <2>1 DEF Counted
<1>7. WireInv'
  <2>1. \A l \in Lists : (\E u \in wire' : u.reader = l) <=> \E u \in wire : u.reader = l
    BY <1>1, ListsAreThree
  <2> QED BY <1>1, <2>1 DEF TabInv, WireInv
<1>8. TabOfOneState' /\ OneFilter' /\ Drained'
  BY <1>1 DEF TabInv, TabOfOneState, OneFilter, Drained, JournalGoesOn, TabStays
<1> QED BY <1>1, <1>5, <1>6, <1>7, <1>8 DEF TabInv, Rendered, ListReadTo, ReadOf, TabStays

LEMMA SettlesInv ==
    ASSUME CaseType, TabInv, FailRead \/ \E reader \in Lists \cup {Count} : SettleRead(reader)
    PROVE  TabInv'
<1>1. tab \in [run : 0..MaxServers, filter : Filters \cup {All}, actions : 0..MaxActions,
              base : Cases]
  BY DEF TabInv, TabTypes
<1>2. ASSUME NEW r \in wire, NEW answer, Settle(r, answer), TabStays,
             answer = Failed \/ (Served(r) /\ answer = Answer(r))
      PROVE  TabInv'
  <2>1. r.reader \in Lists \/ r.reader = Count
    BY DEF TabInv, TabTypes, Reads
  <2> QED BY <1>2, <2>1, SettleListInv, SettleCountInv
<1>3. CASE FailRead
  <2>1. PICK r \in wire : Served(r) /\ Settle(r, Failed)
    BY <1>3 DEF FailRead
  <2>2. tab.actions < MaxActions /\ tab' = [tab EXCEPT !.actions = @ + 1]
    BY <1>3 DEF FailRead
  <2>3. tab.actions + 1 \in 0..MaxActions
    BY <1>1, <2>2, ListsAssumption
  <2>4. TabStays
    BY <1>1, <2>1, <2>2, <2>3 DEF TabStays, Settle, caseVars
  <2> QED BY <1>2, <2>1, <2>4
<1>4. ASSUME NEW reader \in Lists \cup {Count}, SettleRead(reader) PROVE TabInv'
  <2>1. PICK r \in wire : Settle(r, Answer(r)) /\ UNCHANGED tab
    BY <1>4 DEF SettleRead
  <2>2. TabStays
    BY <1>1, <2>1 DEF TabStays, Settle, caseVars
  <2>3. Answer(r) = Failed \/ Served(r)
    BY DEF Answer
  <2> QED BY <1>2, <2>1, <2>2, <2>3
<1> QED BY <1>3, <1>4

LEMMA TabNextInv == CaseType /\ TabInv /\ TabNext => TabInv' /\ UNCHANGED caseVars
<1> SUFFICES ASSUME CaseType, TabInv, TabNext PROVE TabInv' /\ UNCHANGED caseVars
  OBVIOUS
<1>1. UNCHANGED caseVars
  BY DEF TabNext, Browser, Examiner, RunEffects, Render, FailRead, SettleRead, Settle, OpenTab,
     ChangeFilter, ClickLoadMore, ClickLoadMoreRecovered, ClickRetry, ClickRetryRecovered, Retry
<1> QED BY <1>1, RunEffectsInv, RenderInv, SettlesInv, OpenTabInv, ChangeFilterInv,
     ClickLoadMoreInv, ClickLoadMoreRecoveredInv, ClickRetryInv DEF TabNext, Browser, Examiner

\* What the invariant says of the lists is what is asked of them.
LEMMA TabInvGives ==
    ASSUME TabInv
    PROVE  TabType /\ RowsArePrefix /\ NothingIsMissing /\ WalDrainedFirst /\ TotalsMatchRows
<1>1. ASSUME NEW l \in Lists
      PROVE  /\ lists[l] \in ListRecords /\ Rendered(lists[l]) /\ ListReadTo(l)
             /\ tab.base \in Cases
  BY DEF TabInv, TabTypes
<1>2. TabType
  <2>1. \A l \in Lists :
          /\ lists[l].view \in ListStates /\ lists[l].next \in ListStates
          /\ lists[l].ran = NotRun \/ lists[l].ran \in Filters \X Nat
    BY <1>1, ListTypes
  <2>2. \A l \in Lists : lists[l].inFlight <=> \E r \in wire : r.reader = l
    BY DEF TabInv, WireInv
  <2>3. \A r, s \in wire : r.reader = s.reader => r = s
    BY DEF TabInv, WireInv
  <2>4. count.read \in Figures /\ count.ran \in Filters \cup {NotRun}
    BY DEF TabInv, TabTypes
  <2>5. tab \in [run : 0..MaxServers, filter : Filters \cup {All}, actions : 0..MaxActions,
                base : Cases]
    BY DEF TabInv, TabTypes
  <2> QED BY <2>1, <2>2, <2>3, <2>4, <2>5 DEF TabType
<1>3. ASSUME NEW l \in Lists, lists[l].ran # NotRun
      PROVE  /\ ListQuery(lists[l].ran[1], l) \in Queries /\ lists[l].next.rows \in Seq(Rows)
             /\ IsPrefixOf(lists[l].next.rows, RouteOf(l))
             /\ WholeList(lists[l].next) => lists[l].next.rows = RouteOf(l)
  <2> DEFINE q == ListQuery(lists[l].ran[1], l)
             rows == lists[l].next.rows
             cursor == lists[l].next.cursor
  <2>1. q \in Queries /\ rows \in Seq(Rows)
    <3>1. lists[l].ran[1] \in Filters
      BY <1>1, <1>3, ListTypes
    <3> QED BY <1>1, <3>1, ListQueryIsQuery, ListTypes
  <2>2. RouteOf(l) = Route(tab.base, q)
    BY DEF RouteOf
  <2>3. CASE ReadTo(tab.base, q, rows, cursor)
    <3> HIDE DEF q, rows, cursor
    <3>1. IsPrefixOf(rows, Route(tab.base, q)) /\ (cursor = NoCursor => rows = Route(tab.base, q))
      BY <1>1, <2>1, <2>3, ReadToFacts
    <3> QED BY <2>1, <2>2, <3>1 DEF WholeList, q, rows, cursor
  <2>4. CASE rows = << >> /\ cursor = NoCursor /\ (lists[l].next.loading \/ lists[l].next.error)
    <3>1. Route(tab.base, q) \in Seq(Rows)
      BY <1>1, <2>1, RouteFacts
    <3>2. SubSeq(Route(tab.base, q), 1, 0) = << >>
      BY SubSeqEmpty
    <3> HIDE DEF q
    <3>3. IsPrefixOf(<< >>, Route(tab.base, q))
      BY <3>1, <3>2 DEF IsPrefixOf
    <3> QED BY <2>1, <2>2, <2>4, <3>3 DEF WholeList, q
  <2> QED BY <1>1, <1>3, <2>3, <2>4 DEF ListReadTo
<1>4. RowsArePrefix /\ NothingIsMissing
  BY <1>3 DEF RowsArePrefix, NothingIsMissing
<1>5. WalDrainedFirst
  BY DEF TabInv, Drained, JournalGoesOn, WalDrainedFirst
<1>6. TotalsMatchRows
  <2> SUFFICES ASSUME TotalsShown \notin {Loading, Failed}, NEW l \in Lists,
                      lists[l].ran = Deps(l), lists[l].view = lists[l].next,
                      WholeList(lists[l].view)
               PROVE  TotalsShown[l] = Len(lists[l].view.rows)
    BY DEF TotalsMatchRows
  <2>1. count.read.key = tab.filter /\ TotalsShown = count.read.value
    BY DEF TotalsShown
  <2>2. TotalsShown[l] = Cardinality(Selected(tab.base, ListQuery(tab.filter, l)))
    BY <2>1 DEF TabInv, Counted
  <2>3. lists[l].ran # NotRun /\ lists[l].ran[1] = tab.filter
    <3>1. tab.filter \in Filters \cup {All} /\ lists[l].view.nonce \in Nat
      BY <1>1, ListTypes DEF TabInv, TabTypes
    <3> QED BY <3>1, ListsAssumption DEF Deps
  <2>4. lists[l].view.rows = Route(tab.base, ListQuery(tab.filter, l))
    BY <1>3, <2>3 DEF RouteOf
  <2>5. Len(lists[l].view.rows) = Cardinality(Selected(tab.base, ListQuery(tab.filter, l)))
    BY <1>1, <1>3, <2>3, <2>4, RouteFacts
  <2> QED BY <2>2, <2>5
<1> QED BY <1>2, <1>4, <1>5, <1>6

(***************************************************************************)
(* The parts together.                                                     *)
(***************************************************************************)

\* A behaviour of CaseUsers is one of the payload files, one of the passes and
\* one of the exports: who does not use them leaves them as they are.
LEMMA UsersAreParts == Spec => PayloadSpec /\ PassSpec /\ ExtractSpec
<1>1. Init => PayloadInit /\ PassInit /\ CaseInit /\ ExtractInit
  BY DEF Init
<1>2. [Next]_vars => [PayloadNext]_payloadVars
  BY DEF Next, vars, CaseMoves, BrowserMoves, ExaminerMoves, LoopMoves, ExtractMoves,
     PayloadMoves, PassMoves
<1>3. [Next]_vars => [PassNext]_passVars
  BY DEF Next, vars, CaseMoves, BrowserMoves, ExaminerMoves, LoopMoves, ExtractMoves,
     PayloadMoves, PassMoves
<1>4. [Next]_vars =>
        [ExtractNext \/ (CaseStep /\ UNCHANGED extractVars)]_<<caseVars, extractVars>>
  <2>1. Browser \/ Examiner \/ LoopNext => UNCHANGED caseVars
    BY DEF Browser, Examiner, LoopNext, RunEffects, Render, FailRead, SettleRead, Settle, OpenTab,
       ChangeFilter, ClickLoadMore, ClickLoadMoreRecovered, ClickRetry, ClickRetryRecovered, Retry
  <2> QED
    BY <2>1 DEF Next, vars, CaseMoves, BrowserMoves, ExaminerMoves, LoopMoves, ExtractMoves,
     PayloadMoves, PassMoves
<1> QED BY <1>1, <1>2, <1>3, <1>4, PTL DEF Spec, PayloadSpec, PassSpec, ExtractSpec

LEMMA ReadersInvariant == Spec => [](CaseType /\ TabInv /\ LoopInv)
<1>1. Init => CaseType /\ TabInv /\ LoopInv
  <2>1. CaseInit => CaseType
    BY RowsAssumption, OutcomesAssumption DEF CaseInit, CaseType, Cases
  <2> QED BY <2>1, TabInitInv, LoopInitInv DEF Init
<1>2. CaseType /\ TabInv /\ LoopInv /\ [Next]_vars => (CaseType /\ TabInv /\ LoopInv)'
  <2> SUFFICES ASSUME CaseType, TabInv, LoopInv, [Next]_vars
               PROVE  CaseType' /\ TabInv' /\ LoopInv'
    OBVIOUS
  <2>1. CASE CaseMoves
    <3>1. CaseStep /\ UNCHANGED tabVars /\ loop' = loop
      BY <2>1 DEF CaseMoves, loopVars
    <3> QED BY <3>1, CaseStepType, TabKeeps, LoopKeeps
  <2>2. CASE BrowserMoves \/ ExaminerMoves
    <3>1. TabNext /\ loop' = loop
      BY <2>2 DEF BrowserMoves, ExaminerMoves, TabNext, loopVars
    <3>2. TabInv' /\ UNCHANGED caseVars
      BY <3>1, TabNextInv
    <3> QED BY <3>1, <3>2, LoopKeeps DEF caseVars, CaseType
  <2>3. CASE LoopMoves
    <3>1. LoopNext /\ UNCHANGED tabVars /\ UNCHANGED caseVars
      BY <2>3 DEF LoopMoves, LoopNext
    <3> QED BY <3>1, LoopNextInv, TabKeeps DEF caseVars, CaseType
  <2>4. CASE ExtractMoves \/ PayloadMoves \/ PassMoves \/ UNCHANGED vars
    <3>1. UNCHANGED tabVars /\ UNCHANGED caseVars /\ loop' = loop
      BY <2>4 DEF ExtractMoves, PayloadMoves, PassMoves, ExtractNext, vars, loopVars
    <3> QED BY <3>1, LoopKeeps, TabKeeps DEF caseVars, CaseType
  <2> QED BY <2>1, <2>2, <2>3, <2>4 DEF Next
<1> QED BY <1>1, <1>2, PTL DEF Spec

\* Every variable of the parts and of the Case they use has its type: among others,
\* a list has one read under way at most, which is what inFlight says
\* (use-paginated-list.ts).
THEOREM UsersHaveTypes == Spec => []TypeOK
<1>1. CaseType /\ TabInv /\ LoopInv /\ ExtractInv /\ PayloadInv /\ PassInv => TypeOK
  <2>1. TabInv => TabType
    BY TabInvGives
  <2>2. LoopInv => LoopType
    BY LoopInvGives
  <2>3. ExtractInv => ExtractType
    BY DEF ExtractInv, ExtractTypes, ExtractType, ExportStates, ReportStates
  <2>4. PayloadInv => PayloadType
    BY DEF PayloadInv
  <2>5. PassInv => PassType
    BY DEF PassInv, PassType, DbInv, DbType, CopyType, PassStates, PassPcs
  <2> QED BY <2>1, <2>2, <2>3, <2>4, <2>5 DEF TypeOK
<1> QED BY <1>1, ReadersInvariant, UsersAreParts, ExtractInvariant, PayloadInvariant, PassInvariant,
       PTL

\* What a list of the dashboard holds is a beginning of its route, for the filter
\* it was last read with and of the one Case the page was opened on, through every
\* late answer, failed read, restart of the server and click
\* (use-paginated-list.ts 8-15).
THEOREM ListsArePrefixes == Spec => []RowsArePrefix
BY ReadersInvariant, TabInvGives, PTL

\* A list that is not loading, has no error and no cursor holds all of its route
\* (use-commit-state-lists.ts 58-60, 82-84).
THEOREM WholeListsAreWhole == Spec => []NothingIsMissing
BY ReadersInvariant, TabInvGives, PTL

\* The journal is read past its first page only with the whole write-ahead log in
\* (use-commit-state-lists.ts 208-216).
THEOREM WalComesFirst == Spec => []WalDrainedFirst
BY ReadersInvariant, TabInvGives, PTL

\* The totals on the tabs and the lists below them agree (count-reads.ts 51-80).
THEOREM TotalsAgree == Spec => []TotalsMatchRows
BY ReadersInvariant, TabInvGives, PTL

\* The pages that --page-all prints are of one state of the Case, and all of it when
\* the command ends well (cli/src/output.ts 225-256).
THEOREM PagesAreOfOneState == Spec => []PageAllIsOneState
BY ReadersInvariant, LoopInvGives, PTL

\* The lookup of a row never denies one that is there (row-lookup.ts 16-22, 57-64).
THEOREM LookupIsHonest == Spec => []LookupDeniesNoRow
BY ReadersInvariant, LoopInvGives, PTL

\* The payloads, the Commit States, the exports and the reports are as their own
\* specifications have them, whoever else uses the Case.
THEOREM PartsHold ==
    Spec => /\ [](CitedPayloadsKept /\ CommitStatesAreTrue)
            /\ [](OutDirectoryGivenBack /\ UndisturbedReportIsTrue)
            /\ ExportPublishesWhole
BY UsersAreParts, CitedOnDisk, CommitStatesHold, DirectoryGivenBack, UndisturbedReportHolds,
   ExportsPublishWhole, PTL
================================================================================
