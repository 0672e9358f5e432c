---------------------------- MODULE MCIngestStaging ----------------------------
(* Small instances of IngestStaging for TLC.                                *)
EXTENDS IngestStaging, TLC

AnyPhase == Phases
Symmetry == Permutations(Ingests)
================================================================================
