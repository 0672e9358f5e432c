---------------------------- MODULE AnalysisLineage ----------------------------
(***************************************************************************)
(* What the Case promises about Analysis Runs, without transactions, files *)
(* or crashes (docs/reference.md, "Supersede semantics"): runs are stored  *)
(* whole, one after the other, none is ever removed, and the result a      *)
(* query returns for an artifact is the one of the last run in which that  *)
(* artifact was complete.                                                  *)
(***************************************************************************)
EXTENDS Naturals, Sequences

CONSTANTS
    Artifacts,  \* one per (Source, Profile, artifact) that a run reports on
    Status      \* the states an artifact result can have

VARIABLES
    log,        \* the stored runs: log[i][t] is what run i says of artifact t
    answer      \* answer[t]: the run whose result of t is active, if any

LastCompleteRun(runs, t) ==
    {i \in 1..Len(runs) : /\ runs[i][t] = "complete"
                          /\ \A j \in (i+1)..Len(runs) : runs[j][t] # "complete"}

Init == log = << >> /\ answer = [t \in Artifacts |-> {}]

StoreRun ==
    /\ \E result \in [Artifacts -> Status] : log' = Append(log, result)
    /\ answer' = [t \in Artifacts |-> LastCompleteRun(log', t)]

Spec == Init /\ [][StoreRun]_<<log, answer>>
================================================================================
