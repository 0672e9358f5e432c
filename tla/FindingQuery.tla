----------------------------- MODULE FindingQuery ------------------------------
(***************************************************************************)
(* One page of a list route (core/src/finding-query.ts and the modules     *)
(* that call it, timeline-query.ts, sites-query.ts): the active records    *)
(* that match a query, in the order of a sort key and then of the row id,  *)
(* a limited number at a time.  The cursor to the next page names the      *)
(* position of the last row and a fingerprint of the query and of the      *)
(* active results it was made from.                                        *)
(*                                                                         *)
(* A Case is [runs, active]: how many Analysis Runs it holds, and which of *)
(* them has the active result of each Profile, 0 when none has.            *)
(***************************************************************************)
EXTENDS Integers, Sequences, FiniteSets

CONSTANTS
    Profiles,
    MaxRuns,    \* bounds the stored runs
    Rows,       \* every record a run may store: its result, key, id, Commit State
    All,        \* no filter
    NoCursor,
    Refused     \* INVALID_CURSOR or ANALYSIS_NOT_FOUND

CommitStates == {"committed", "wal_resident", "journal_resident"}

Results == Profiles \X (1..MaxRuns)
Queries == [profile : Profiles \cup {All}, state : CommitStates \cup {All},
            dir : {"asc", "desc"}]
Cases   == [runs : 0..MaxRuns, active : [Profiles -> 0..MaxRuns]]

\* Row ids are unique in a Case: they are the keys of the record tables.
ASSUME RowsAssumption ==
    /\ MaxRuns \in Nat /\ IsFiniteSet(Rows)
    /\ Rows \subseteq [of : Results, key : Int, id : Nat, state : CommitStates]
    /\ \A r, s \in Rows : r.id = s.id => r = s
    /\ All \notin Profiles /\ All \notin CommitStates

ActiveResults(c) == {res \in Results : c.active[res[1]] = res[2]}

\* The records a query is about.
Selected(c, q) ==
    {r \in Rows : /\ r.of \in ActiveResults(c)
                  /\ q.profile \in {All, r.of[1]}
                  /\ q.state \in {All, r.state}}

\* ORDER BY the sort expression, then the row id, which makes the order total.
Precedes(dir, a, b) ==
    IF dir = "asc" THEN a.key < b.key \/ (a.key = b.key /\ a.id < b.id)
                   ELSE b.key < a.key \/ (a.key = b.key /\ b.id < a.id)

Sorted(S, dir) ==
    [i \in 1..Cardinality(S) |->
        CHOOSE r \in S : Cardinality({s \in S : Precedes(dir, s, r)}) = i - 1]

PastCursor_KeyOnly(dir, after, r) ==
    IF dir = "asc" THEN after.key < r.key ELSE r.key < after.key

\* The condition a cursor adds: the same comparison, with the cursor's row.
PastCursor(dir, after, r) ==
    IF dir = "asc" THEN after.key < r.key \/ (after.key = r.key /\ after.id < r.id)
                   ELSE r.key < after.key \/ (after.key = r.key /\ r.id < after.id)

\* Everything a route would return, read in one go.
Route(c, q) == Sorted(Selected(c, q), q.dir)

Fingerprint_QueryOnly(c, q) == <<{}, q>>

Fingerprint(c, q) == <<ActiveResults(c), q>>

\* What a cursor that is given out has in it.
Cursors == [print : {Fingerprint(c, q) : c \in Cases, q \in Queries},
            key : {r.key : r \in Rows}, id : {r.id : r \in Rows}]

\* decodeCursor, and the check that the Case has an analysis (runFindingQuery 340,
\* queryTimeline 112; hostRows 240-252 for the hosts and Findings of Sites).
Refuses(c, q, after) ==
    \/ c.runs = 0
    \/ after # NoCursor /\ after.print # Fingerprint(c, q)

\* One row more than the limit is read, to see whether there is a next page.
HasNext(found, limit) == Len(found) > limit

Page(c, q, after, limit) ==
    LET rest  == {r \in Selected(c, q) : after = NoCursor \/ PastCursor(q.dir, after, r)}
        found == Sorted(rest, q.dir)
        items == SubSeq(found, 1, IF Len(found) < limit THEN Len(found) ELSE limit)
        last  == items[Len(items)]
    IN  [items |-> items,
         next  |-> IF HasNext(found, limit)
                   THEN [print |-> Fingerprint(c, q), key |-> last.key, id |-> last.id]
                   ELSE NoCursor]

Answers == [items : Seq(Rows), next : Cursors \cup {NoCursor}]

\* No cursor is not a cursor, nor a refusal a page.
ASSUME CursorAssumption == NoCursor \notin Cursors /\ Refused \notin Answers

\* runFindingQuery.
RunFindingQuery(c, q, after, limit) ==
    IF Refuses(c, q, after) THEN Refused ELSE Page(c, q, after, limit)

IsPrefixOf(s, t) == Len(s) <= Len(t) /\ s = SubSeq(t, 1, Len(s))
================================================================================
