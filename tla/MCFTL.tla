------------------------------- MODULE MCFTL -------------------------------
(***************************************************************************)
(* The FTL for TLC, with a bad block.                                      *)
(***************************************************************************)
EXTENDS FTL
OneBad == {1}
=============================================================================
