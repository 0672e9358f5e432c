----------------------------- MODULE MCAcquisition -----------------------------
(* Small instances of Acquisition for TLC: Local State, and a Profile with   *)
(* History and with Cookies in a directory of their own.                    *)
EXTENDS Acquisition, TLC

CONSTANTS LocalState, Default, History, Network, Cookies

MCParent == LocalState :> Root @@ Default :> Root @@ History :> Default
            @@ Network :> Default @@ Cookies :> Network
MCOrder == Default :> 1 @@ LocalState :> 2 @@ History :> 3 @@ Network :> 4 @@ Cookies :> 5
================================================================================
