----------------------------- MODULE MCMrapiLocks -----------------------------
(***************************************************************************)
(* Instances of MrapiLocks for TLC.                                        *)
(***************************************************************************)
EXTENDS MrapiLocks
=============================================================================
