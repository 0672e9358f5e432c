---------------------------- MODULE DashboardLists -----------------------------
(***************************************************************************)
(* An evidence page of the dashboard (client/src/use-commit-state-lists.ts,*)
(* use-paginated-list.ts, count-reads.ts, api.ts): one list of saved rows  *)
(* and one of recovered rows, which joins the rows of two sidecars, each   *)
(* read page by page from a server that may fail a read, stop, and start   *)
(* again on another state of the Case, while the examiner changes the      *)
(* filter, asks for more and retries.                                      *)
(*                                                                         *)
(* React is modelled by what the hooks rely on: setState calls queue       *)
(* updates ("next") that a later render commits ("view"); handlers close   *)
(* over what was committed, and what a click sets is committed before      *)
(* anything else happens; effects run some time after the commit that      *)
(* changed what they depend on.                                            *)
(***************************************************************************)
EXTENDS CaseServer

CONSTANTS
    Limit,          \* rows of a page
    Filters,        \* the profile picks: members of Profiles \cup {All}
    MaxActions,     \* bounds the filter changes, failures and retries of a page
    NotRun,         \* an effect that has not run
    Loading, Failed \* a read without an answer, and one that was rejected

Lists    == CommitStates
Saved    == "committed"
Wal      == "wal_resident"
Journal  == "journal_resident"
Count    == "count"

ASSUME ListsAssumption ==
    /\ Limit \in Nat \ {0} /\ MaxActions \in Nat /\ Filters \subseteq Profiles \cup {All}
    /\ NotRun \notin Filters \cup {All} \cup ((Filters \cup {All}) \X Nat)

VARIABLES
    tab,        \* [run, filter, actions]: the token of the page, 0 when none is
                \* open, and the profile pick; base is history, the Case it
                \* was opened on
    lists,      \* lists[l]: [view, next, ran, inFlight] of usePaginatedList
    count,      \* [read, ran] of useCommitStateTotals; nothing closes over it, so
                \* that it needs no queue
    wire        \* the reads under way

tabVars == <<tab, lists, count, wire>>

ListQuery(filter, l) == [profile |-> filter, state |-> l, dir |-> "asc"]

Fresh    == [rows |-> << >>, cursor |-> NoCursor, loading |-> TRUE, error |-> FALSE,
             nonce |-> 0]
Mounted  == [view |-> Fresh, next |-> Fresh, ran |-> NotRun, inFlight |-> FALSE]
NoTotals == [key |-> NotRun, value |-> Loading]

TabInit ==
    /\ tab = [run |-> 0, filter |-> All, actions |-> 0, base |-> case]
    /\ lists = [l \in Lists |-> Mounted]
    /\ count = [read |-> NoTotals, ran |-> NotRun]
    /\ wire = {}

\* The examiner opens the link that this run of the server printed.
OpenTab ==
    /\ server.up /\ tab.run # server.run
    /\ \E f \in Filters :
          tab' = [run |-> server.run, filter |-> f, actions |-> 0, base |-> case]
    /\ lists' = [l \in Lists |-> Mounted]
    /\ count' = [read |-> NoTotals, ran |-> NotRun]
    /\ wire' = {}
    /\ UNCHANGED caseVars

--------------------------------------------------------------------------------
\* What the effects depend on, as committed.
Deps(l) == <<tab.filter, lists[l].view.nonce>>
DueLists == {l \in Lists : lists[l].ran # Deps(l)}
CountDue == count.ran # tab.filter

ListRead(l, after) ==
    [reader |-> l, query |-> ListQuery(tab.filter, l), after |-> after]

CountRead == [reader |-> Count, query |-> ListQuery(tab.filter, All), after |-> NoCursor]

Abandoned_None(due) == {}

\* The cleanup of an effect starts a new generation: its reads abort, and what
\* still comes of them is dropped.
Abandoned(due) == {r \in wire : r.reader \in due}

Again(l) == [Fresh EXCEPT !.nonce = lists[l].next.nonce]

\* The effects of a commit run together: every list whose parameters or nonce
\* changed reads its first page, and the count its new figure.  What an effect
\* sets is rendered before the read it starts can be answered.
RunEffects ==
    /\ tab.run # 0
    /\ DueLists # {} \/ CountDue
    /\ lists' = [l \in Lists |->
          IF l \in DueLists
          THEN [view |-> Again(l), next |-> Again(l), ran |-> Deps(l), inFlight |-> TRUE]
          ELSE lists[l]]
    /\ count' = [count EXCEPT !.ran = tab.filter]
    /\ wire' = (wire \ Abandoned(DueLists \cup (IF CountDue THEN {Count} ELSE {})))
               \cup {ListRead(l, NoCursor) : l \in DueLists}
               \cup (IF CountDue THEN {CountRead} ELSE {})
    /\ UNCHANGED <<caseVars, tab>>

\* React commits what is queued.
Render ==
    /\ \E l \in Lists : lists[l].view # lists[l].next
    /\ lists' = [l \in Lists |-> [lists[l] EXCEPT !.view = lists[l].next]]
    /\ UNCHANGED <<caseVars, tab, count, wire>>

--------------------------------------------------------------------------------
\* queryCount by Commit State.
Totals(filter) ==
    [l \in Lists |-> Cardinality(Selected(case, ListQuery(filter, l)))]

\* What a read gets when it is answered: callApi rejects unless a page comes.
\* The answer and its arrival are one step: until it arrives, nothing here
\* depends on it.
Served(r) == Serves(tab.run, r.query, r.after)
Answer(r) == IF ~Served(r) THEN Failed
             ELSE IF r.reader = Count THEN Totals(r.query.profile)
             ELSE Page(case, r.query, r.after, Limit)

Landed_Unsettled(s, r, answer) ==
    IF answer = Failed THEN [s EXCEPT !.error = TRUE]
    ELSE [s EXCEPT !.rows = IF r.after = NoCursor THEN answer.items ELSE @ \o answer.items,
                   !.cursor = answer.next, !.loading = FALSE]

\* The updates that .then and .catch of a list's read queue.
Landed(s, r, answer) ==
    IF answer = Failed THEN [s EXCEPT !.error = TRUE, !.loading = FALSE]
    ELSE [s EXCEPT !.rows = IF r.after = NoCursor THEN answer.items ELSE @ \o answer.items,
                   !.cursor = answer.next, !.loading = FALSE]

\* A figure carries the key of its query.
Settle(r, answer) ==
    /\ wire' = wire \ {r}
    /\ IF r.reader = Count
       THEN /\ count' = [count EXCEPT !.read = [key |-> r.query.profile, value |-> answer]]
            /\ UNCHANGED lists
       ELSE /\ lists' = [lists EXCEPT ![r.reader].next = Landed(@, r, answer),
                                      ![r.reader].inFlight = FALSE]
            /\ UNCHANGED count
    /\ UNCHANGED caseVars

SettleRead(reader) ==
    \E r \in wire : r.reader = reader /\ Settle(r, Answer(r)) /\ UNCHANGED tab

\* A read fails that the server would have served.
FailRead ==
    /\ tab.actions < MaxActions
    /\ tab' = [tab EXCEPT !.actions = @ + 1]
    /\ \E r \in wire : Served(r) /\ Settle(r, Failed)

--------------------------------------------------------------------------------
MayLoadMore_Always(view) == ~view.error /\ view.cursor # NoCursor

\* ListBlock and ListFooter: the button is there for a list without an error
\* that has a cursor, and disabled while the list loads.
MayLoadMore(view) == ~view.error /\ view.cursor # NoCursor /\ ~view.loading

\* loadMore, as closed over by the last render.
LoadMore(l) ==
    LET list == lists[l]
    IN  IF list.view.cursor = NoCursor \/ list.inFlight THEN list
        ELSE [list EXCEPT !.inFlight = TRUE,
                          !.next.loading = TRUE, !.next.error = FALSE,
                          !.view.loading = TRUE, !.view.error = FALSE]

MoreRead(l) ==
    IF lists[l].view.cursor = NoCursor \/ lists[l].inFlight THEN {}
    ELSE {ListRead(l, lists[l].view.cursor)}

ClickLoadMore ==
    /\ tab.run # 0 /\ MayLoadMore(lists[Saved].view)
    /\ lists' = [lists EXCEPT ![Saved] = LoadMore(Saved)]
    /\ wire' = wire \cup MoreRead(Saved)
    /\ UNCHANGED <<caseVars, tab, count>>

\* The two sidecars as one list.
Recovered ==
    LET wal == lists[Wal].view journal == lists[Journal].view
    IN  [rows    |-> wal.rows \o journal.rows,
         cursor  |-> IF wal.cursor # NoCursor THEN wal.cursor ELSE journal.cursor,
         loading |-> wal.loading \/ journal.loading,
         error   |-> wal.error \/ journal.error]

NextSidecar_Journal == IF lists[Journal].view.cursor # NoCursor THEN Journal ELSE Wal

\* The write-ahead log is read to its end before the journal.
NextSidecar == IF lists[Wal].view.cursor # NoCursor THEN Wal ELSE Journal

ClickLoadMoreRecovered ==
    /\ tab.run # 0 /\ MayLoadMore(Recovered)
    /\ lists' = [lists EXCEPT ![NextSidecar] = LoadMore(NextSidecar)]
    /\ wire' = wire \cup MoreRead(NextSidecar)
    /\ UNCHANGED <<caseVars, tab, count>>

FailedPage(view) == view.error /\ view.rows # << >> /\ view.cursor # NoCursor

\* retry of the lists in "ls": the page that failed, or from the start.
Retry(ls) ==
    /\ tab.run # 0
    /\ tab.actions < MaxActions /\ tab' = [tab EXCEPT !.actions = @ + 1]
    /\ lists' = [l \in Lists |->
          IF l \notin ls THEN lists[l]
          ELSE IF FailedPage(lists[l].view) THEN LoadMore(l)
          ELSE [lists[l] EXCEPT !.next.nonce = @ + 1, !.view.nonce = @ + 1]]
    /\ wire' = wire \cup UNION {MoreRead(l) : l \in {m \in ls : FailedPage(lists[m].view)}}
    /\ UNCHANGED <<caseVars, count>>

ClickRetry == lists[Saved].view.error /\ Retry({Saved})
\* retryRecovered: the half that failed.
ClickRetryRecovered ==
    /\ Recovered.error
    /\ Retry({l \in {Wal, Journal} : lists[l].view.error})

\* A pick of the profile lens renders at once with the rows of before.
ChangeFilter ==
    /\ tab.run # 0 /\ tab.actions < MaxActions
    /\ \E f \in Filters \ {tab.filter} :
          tab' = [tab EXCEPT !.filter = f, !.actions = @ + 1]
    /\ UNCHANGED <<caseVars, lists, count, wire>>

--------------------------------------------------------------------------------
Browser ==
    \/ RunEffects \/ Render \/ FailRead
    \/ \E reader \in Lists \cup {Count} : SettleRead(reader)

Examiner ==
    \/ OpenTab \/ ChangeFilter
    \/ ClickLoadMore \/ ClickLoadMoreRecovered \/ ClickRetry \/ ClickRetryRecovered

TabNext == Browser \/ Examiner

--------------------------------------------------------------------------------
ListStates == [rows : Seq(Rows), cursor : Cursors \cup {NoCursor}, loading : BOOLEAN,
               error : BOOLEAN, nonce : Nat]
Figures == [key : Filters \cup {NotRun}, value : [Lists -> Nat] \cup {Loading, Failed}]

(* Type invariant: the page, its lists, its figure and its reads have the  *)
(* shape of the state of the hooks; a list has at most one read under way  *)
(* that counts, which is what inFlight says (use-paginated-list.ts).       *)
TabType ==
    /\ tab \in [run : 0..MaxServers, filter : Filters \cup {All}, actions : 0..MaxActions,
                base : Cases]
    /\ \A l \in Lists :
          /\ lists[l].view \in ListStates /\ lists[l].next \in ListStates
          /\ lists[l].ran = NotRun \/ lists[l].ran \in Filters \X Nat
          /\ lists[l].inFlight <=> \E r \in wire : r.reader = l
    /\ \A r, s \in wire : r.reader = s.reader => r = s
    /\ count.read \in Figures /\ count.ran \in Filters \cup {NotRun}

RouteOf(l) == Route(tab.base, ListQuery(lists[l].ran[1], l))
WholeList(s) == ~s.loading /\ ~s.error /\ s.cursor = NoCursor

(* Safety: what a list holds is a beginning of its route, for the filter   *)
(* it was last read with and of the one state of the Case the page was     *)
(* opened on: no page is lost, read twice or of another filter, and none   *)
(* is of a later Analysis Run, through every late answer, failed read,     *)
(* restart of the server and click (use-paginated-list.ts 8-15).           *)
RowsArePrefix ==
    \A l \in Lists : lists[l].ran # NotRun => IsPrefixOf(lists[l].next.rows, RouteOf(l))

(* Safety: a list that is not loading, has no error and no cursor holds    *)
(* its whole route; an empty one says that there is nothing                *)
(* (use-commit-state-lists.ts 58-60, 82-84).                               *)
NothingIsMissing ==
    \A l \in Lists : lists[l].ran # NotRun /\ WholeList(lists[l].next) =>
        lists[l].next.rows = RouteOf(l)

(* Safety: the journal is read past its first page only when the whole     *)
(* write-ahead log is in, so that loaded rows of the joined list append    *)
(* inside their own block (use-commit-state-lists.ts 208-216).             *)
WalDrainedFirst ==
    Len(lists[Journal].next.rows) > Limit => WholeList(lists[Wal].next)

TotalsShown_AnyKey == count.read.value

\* A read of an older query never stands for this one.
TotalsShown == IF count.read.key = tab.filter THEN count.read.value ELSE Loading

(* Safety: the totals on the tabs and the lists below them agree: a list   *)
(* that is whole has as many rows as its tab says (count-reads.ts 51-80).  *)
TotalsMatchRows ==
    TotalsShown \notin {Loading, Failed} =>
        \A l \in Lists : /\ lists[l].ran = Deps(l) /\ lists[l].view = lists[l].next
                        /\ WholeList(lists[l].view)
                        => TotalsShown[l] = Len(lists[l].view.rows)

(* Liveness: a list never loads for ever: rows or an error come            *)
(* (use-paginated-list.ts 79-94, 118-135).                                 *)
LoadsEnd == \A l \in Lists : lists[l].view.loading /\ tab.run # 0 ~> ~lists[l].view.loading
================================================================================
