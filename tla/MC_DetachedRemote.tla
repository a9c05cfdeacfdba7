------------------------- MODULE MC_DetachedRemote -------------------------
(***************************************************************************)
(* Instances of DetachedRemote for TLC.                                    *)
(***************************************************************************)
EXTENDS DetachedRemote

=============================================================================
