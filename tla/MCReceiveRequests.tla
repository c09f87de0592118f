-------------------------- MODULE MCReceiveRequests --------------------------
(***************************************************************************)
(* Instances of ReceiveRequests for TLC.                                   *)
(***************************************************************************)
EXTENDS ReceiveRequests
=============================================================================
