--------------------------- MODULE MCStateMessage ---------------------------
(***************************************************************************)
(* Instances of StateMessage for TLC.                                      *)
(***************************************************************************)
EXTENDS StateMessage, TLC

ReaderSymmetry == Permutations(Readers)
=============================================================================
