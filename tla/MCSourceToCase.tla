----------------------------- MODULE MCSourceToCase -----------------------------
(* The instance of MCAcquisition, and a bundle of Local State and of two files, *)
(* one of which is copied, in a directory of a Profile.                        *)
EXTENDS MCAcquisition, SourceToCase
================================================================================
