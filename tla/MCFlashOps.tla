----------------------------- MODULE MCFlashOps -----------------------------
(* Memtables of one entry: three puts make two flushes, which a compaction   *)
(* merges, while a Get runs and the replay may already have begun.           *)
(* FirstSequence makes the tag of the first put a string of one byte, of the *)
(* others one of four.                                                       *)
EXTENDS FlashOps

\* The first key is what is left of the second when its tag is one byte long.
TwoAlike == {<<2>>, <<2, 3, 3, 3>>}
=============================================================================
