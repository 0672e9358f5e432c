------------------------------ MODULE SourceToCase ------------------------------
(***************************************************************************)
(* The two ways from a Source into a Case: the acquisition of a live User  *)
(* Data Dir, and the ingest of a bundle that a Collector made of one       *)
(* elsewhere.  A behaviour takes one of them.                              *)
(***************************************************************************)
EXTENDS Acquisition, BundleTransfer

VARIABLE way

ways == <<way, vars, transferVars>>

InitWays ==
    /\ way \in {"live", "bundle"}
    /\ Init /\ TransferInit
    /\ way = "live" => source.file = Nothing /\ ~source.readable
    /\ way = "bundle" => src = {}

LiveMoves   == way = "live" /\ Next /\ UNCHANGED <<way, transferVars>>
BundleMoves == way = "bundle" /\ TransferNext /\ UNCHANGED <<way, vars>>

SpecWays == InitWays /\ [][LiveMoves \/ BundleMoves]_ways

\* Every variable of the two has its type.
TypesOK == TypeOK /\ TransferType
================================================================================
