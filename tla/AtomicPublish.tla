----------------------------- MODULE AtomicPublish -----------------------------
(***************************************************************************)
(* What a command that builds an output directory promises: the directory  *)
(* is not there, or it is there whole, of one run, and is never replaced.  *)
(* ingest (a Case) and the Collector (an Acquisition Bundle) both build in *)
(* a staging directory and rename it.                                      *)
(***************************************************************************)
CONSTANTS
    Outputs,  \* the whole outputs
    Nothing

VARIABLE out

Init == out = Nothing

Publish == out = Nothing /\ out' \in Outputs

Spec == Init /\ [][Publish]_out
================================================================================
