------------------------------- MODULE CaseUsers -------------------------------
(***************************************************************************)
(* What works on a Case beside the Case store: a page of the dashboard, a  *)
(* loop over a list route, exports with a Report, the payload files of the *)
(* Analysis Runs, and their passes over a database of the browser.  They   *)
(* share the published Case and otherwise nothing, so that a behaviour has *)
(* one of them.                                                            *)
(***************************************************************************)
EXTENDS DashboardLists, PageLoops, ExtractPublish, PayloadFiles, SqlitePasses

VARIABLE user

vars == <<user, caseVars, tabVars, loopVars, extractVars, payloadVars, passVars>>

Users == {"page", "loop", "extract", "payloads", "passes"}

Init ==
    /\ user \in Users
    /\ CaseInit /\ TabInit /\ LoopInit /\ ExtractInit /\ PayloadInit /\ PassInit
    /\ user # "extract" => outDirectory = Missing
    /\ user # "payloads" => directory = "cache" /\ \A p \in Payloads : file[p] = "absent"
    /\ user # "passes" => db.mode = "wal" /\ \A p \in DbPages : db.main[p] = 0

\* A run is stored, or, for those that ask it, the server starts or stops.
CaseMoves ==
    /\ user \notin {"payloads", "passes"}
    /\ CaseStep
    /\ user = "extract" => server' = server
    /\ UNCHANGED <<user, tabVars, loopVars, extractVars, payloadVars, passVars>>

BrowserMoves ==
    /\ user = "page" /\ Browser
    /\ UNCHANGED <<user, loopVars, extractVars, payloadVars, passVars>>

ExaminerMoves ==
    /\ user = "page" /\ Examiner
    /\ UNCHANGED <<user, loopVars, extractVars, payloadVars, passVars>>

LoopMoves ==
    /\ user = "loop" /\ LoopNext
    /\ UNCHANGED <<user, tabVars, extractVars, payloadVars, passVars>>

ExtractMoves ==
    /\ user = "extract" /\ ExtractNext
    /\ UNCHANGED <<user, tabVars, loopVars, payloadVars, passVars>>

PayloadMoves ==
    /\ user = "payloads" /\ PayloadNext
    /\ UNCHANGED <<user, caseVars, tabVars, loopVars, extractVars, passVars>>

PassMoves ==
    /\ user = "passes" /\ PassNext
    /\ UNCHANGED <<user, caseVars, tabVars, loopVars, extractVars, payloadVars>>

Next ==
    \/ CaseMoves \/ BrowserMoves \/ ExaminerMoves \/ LoopMoves \/ ExtractMoves \/ PayloadMoves
    \/ PassMoves

Spec == Init /\ [][Next]_vars

\* The browser renders, runs effects and settles every fetch; nothing is
\* assumed of the examiner, the analyst or the server.  One condition for the
\* three is enough, because the clicks between them are bounded.
Fairness == WF_vars(BrowserMoves)

FairSpec == Spec /\ Fairness

\* Every variable of the five, and of the Case they use, has its type.
TypeOK == CaseType /\ TabType /\ LoopType /\ ExtractType /\ PayloadType /\ PassType
================================================================================
