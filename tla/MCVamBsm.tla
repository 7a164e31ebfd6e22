------------------------------ MODULE MCVamBsm ------------------------------
(* VamBsm on small instances for TLC. *)
EXTENDS VamBsm
=============================================================================
