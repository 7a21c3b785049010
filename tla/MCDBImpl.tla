------------------------------ MODULE MCDBImpl ------------------------------
(***************************************************************************)
(* DBImpl for TLC: a thread that writes with sync, one that writes without *)
(* and one that calls TEST_CompactMemTable.                                *)
(***************************************************************************)
EXTENDS DBImpl
SyncWrite   == [null |-> FALSE, sync |-> TRUE, size |-> 1]
SmallWrite  == [null |-> FALSE, sync |-> FALSE, size |-> 1]
BigWrite    == [null |-> FALSE, sync |-> FALSE, size |-> 2]
ForcedFlush == [null |-> TRUE, sync |-> FALSE, size |-> 0]
ThreeWriters == {"w1", "w2", "w3"}
ThreeKinds == [w1 |-> {SyncWrite}, w2 |-> {SmallWrite, BigWrite}, w3 |-> {ForcedFlush}]

AllFaults == {"log", "sync", "newfile", "flush", "merge"}
=============================================================================
