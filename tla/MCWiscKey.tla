----------------------------- MODULE MCWiscKey -----------------------------
(***************************************************************************)
(* The key-value separation layer for TLC.  The log is full after MaxSets  *)
(* calls of wisckey_set, so the runs need no constraint.                   *)
(***************************************************************************)
EXTENDS WiscKey
=============================================================================
