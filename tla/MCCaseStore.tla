------------------------------ MODULE MCCaseStore ------------------------------
(* Small instances of CaseStore for TLC.                                    *)
EXTENDS CaseStore, TLC

CONSTANTS a1, s1, r1, history, web_data, cache, candidates

\* History and Web Data are SQLite stores that the Candidates are derived from; the
\* cache does not count for the exit state and feeds no Candidates.
MCOrder == [t \in Results |-> IF t = history THEN 1 ELSE IF t = candidates THEN 3 ELSE 2]
NoFeeds      == [d \in {} |-> {}]
HistoryFeeds == candidates :> {history}
StoresFeed   == candidates :> {history, web_data}

AllPresent == {{}}
AnyAbsent  == SUBSET {history, web_data}

AnyPhase   == Phases
\* No process is killed while it copies the log over the main file.
NotMidCopy == Phases \ {"checkpoint", "closing"}
================================================================================
