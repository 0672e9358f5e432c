------------------------------- MODULE PageLoops -------------------------------
(***************************************************************************)
(* The two loops that read a list route past its first page on their own:  *)
(* "--page-all" of the command line (cli/src/output.ts), which takes no    *)
(* lock, so that an Analysis Run may be stored between two of its pages,   *)
(* and the lookup of the row that a link of the dashboard names            *)
(* (client/src/row-lookup.ts), which reads at most RowLookupPageCap pages. *)
(***************************************************************************)
EXTENDS CaseServer

CONSTANTS
    PageSize,           \* --limit of the command, 100 of the lookup
    RowLookupPageCap,
    NoRow               \* null

ASSUME LoopsAssumption == PageSize \in Nat \ {0} /\ RowLookupPageCap \in Nat \ {0}

VARIABLE
    loop    \* [kind, pc, query, wanted, rows, after, pages, run, base]: base is
            \* history, the Case of the first read

loopVars == <<loop>>

LoopKinds == {"none", "page_all", "lookup"}
NoLoop ==
    [kind |-> "none", pc |-> "done", query |-> [profile |-> All, state |-> All, dir |-> "asc"],
     wanted |-> NoRow, rows |-> << >>, after |-> NoCursor, pages |-> 0, run |-> 0, base |-> case]

LoopInit == loop = NoLoop

\* The command is given.
StartPageAll ==
    /\ loop.kind = "none"
    /\ \E q \in Queries :
          loop' = [NoLoop EXCEPT !.kind = "page_all", !.pc = "read", !.query = q]

\* The active record with this id, if the Case has one.
ActiveRecord(c, id) == {r \in Rows : r.id = id /\ r.of \in ActiveResults(c)}

\* findRowByRef reads the record (filterOf), which names its Profile and its
\* Commit State.  A record of a superseded result, or of none, ends the lookup.
\* The page's route is read in the page's direction, and filtered by what it can
\* be filtered by.  (A Timeline's range or a Sites host leaves rows out of every
\* page alike, which is not modelled: here the page lists every row.)
LookupQueries(r) ==
    {q \in Queries : q.profile \in {All, r.of[1]} /\ q.state \in {All, r.state}}

StartLookup ==
    /\ loop.kind = "none" /\ server.up
    /\ \E id \in {r.id : r \in Rows} :
          LET found == ActiveRecord(case, id)
              asked == [NoLoop EXCEPT !.kind = "lookup", !.wanted = id, !.run = server.run]
          IN  \/ found = {} /\ loop' = asked
              \/ \E r \in found : \E q \in LookupQueries(r) :
                    loop' = [asked EXCEPT !.pc = "read", !.query = q]

\* What one read gets: the command reads the Case file, the lookup asks the
\* server of its page.
LoopPage ==
    IF loop.kind = "lookup" /\ ~Serves(loop.run, loop.query, loop.after) THEN Refused
    ELSE RunFindingQuery(case, loop.query, loop.after, PageSize)

Hit(rows) == \E i \in 1..Len(rows) : rows[i].id = loop.wanted

\* The loop of readPages goes on; the one of runQueryCommand has no cap.
MorePages(page) ==
    /\ page.next # NoCursor
    /\ loop.kind = "lookup" => ~Hit(page.items) /\ loop.pages + 1 < RowLookupPageCap

ReadPage ==
    /\ loop.pc = "read"
    /\ loop' = IF LoopPage = Refused THEN [loop EXCEPT !.pc = "refused"]
               ELSE [loop EXCEPT !.pc = IF MorePages(LoopPage) THEN "read" ELSE "done",
                                 !.rows = @ \o LoopPage.items,
                                 !.after = LoopPage.next,
                                 !.pages = @ + 1,
                                 !.base = IF loop.pages = 0 /\ loop.kind = "page_all"
                                          THEN case ELSE @]

LoopNext == (StartPageAll \/ StartLookup \/ ReadPage) /\ UNCHANGED caseVars

--------------------------------------------------------------------------------
LoopType ==
    /\ loop.kind \in LoopKinds /\ loop.pc \in {"read", "refused", "done"}
    /\ loop.query \in Queries /\ loop.pages \in Nat /\ loop.base \in Cases

(* Safety: the pages that --page-all prints are the beginning of one state *)
(* of the Case, and all of it when the command ends well, whatever is      *)
(* stored between two pages (cli/src/output.ts 225-256).                   *)
PageAllIsOneState ==
    loop.kind = "page_all" /\ loop.pages > 0 =>
        /\ IsPrefixOf(loop.rows, Route(loop.base, loop.query))
        /\ loop.pc = "done" => loop.rows = Route(loop.base, loop.query)

Capped_Never == FALSE

\* What findRowByRef returns.
Capped == ~Hit(loop.rows) /\ loop.after # NoCursor

(* Safety: a lookup finds the row itself, or says that the Case it read    *)
(* has no such active row, or says that it gave up with rows unread: it    *)
(* never denies a row that is there (row-lookup.ts 16-22, 57-64).          *)
LookupDeniesNoRow ==
    loop.kind = "lookup" /\ loop.pc = "done" =>
        \/ Hit(loop.rows) \/ Capped
        \/ ActiveRecord(loop.base, loop.wanted) = {}
================================================================================
