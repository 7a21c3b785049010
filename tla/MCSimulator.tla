---------------------------- MODULE MCSimulator ----------------------------
(***************************************************************************)
(* The simulator for TLC.                                                  *)
(***************************************************************************)
EXTENDS Simulator
NoBad     == {}
InOrder   == {[i \in 1 .. MaxBlock |-> i - 1]}
NoStray   == {-1}
SomeFills == {{}, 0 .. 1, 0 .. 3, 0 .. LogicalBlocks - 2, 0 .. LogicalBlocks - 1}
Bounds    == [NFTL |-> 6, BL |-> 4, DFTL |-> 4, STRIPE_STATIC |-> 7, STRIPE_DYNAMIC |-> 5]
=============================================================================
