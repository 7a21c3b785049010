------------------------------- MODULE MCLSM -------------------------------
(***************************************************************************)
(* The merge tree for TLC, under two loads: puts over three keys, with     *)
(* automatic compactions whose outputs are cut anywhere; and puts and      *)
(* deletions over two keys, with a snapshot and manual compactions.  Two   *)
(* more loads reach what the code gets wrong.                              *)
(***************************************************************************)
EXTENDS LSM
AutomaticLoad == [keys |-> 1 .. 3, types |-> {kTypeValue}, manual |-> FALSE,
                  writes |-> 5, snapshots |-> 0, cuts |-> 1]
ManualLoad == [keys |-> 1 .. 2, types |-> {kTypeValue, kTypeDeletion}, manual |-> TRUE,
               writes |-> 3, snapshots |-> 1, cuts |-> 0]
BothLoads == {AutomaticLoad, ManualLoad}

\* A manual compaction whose input files leave a gap for a memtable flushed
\* meanwhile.
GapLoad == {[keys |-> 1 .. 3, types |-> {kTypeValue}, manual |-> TRUE,
             writes |-> 5, snapshots |-> 0, cuts |-> 0]}
\* A snapshot that keeps two versions of a key, and an output cut between them.
SplitLoad == {[keys |-> {1}, types |-> {kTypeValue}, manual |-> FALSE,
               writes |-> 2, snapshots |-> 1, cuts |-> 1]}
=============================================================================
