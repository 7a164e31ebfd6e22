---------------------------- MODULE MCVsaWarning ----------------------------
(* Neighbours whose alerts reach the driver. *)
EXTENDS VsaWarning
=============================================================================
