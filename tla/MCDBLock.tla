------------------------------ MODULE MCDBLock ------------------------------
(***************************************************************************)
(* DBLock for TLC: two callers in one process and one in another.          *)
(***************************************************************************)
EXTENDS DBLock
ThreeCallers == {"a1", "a2", "b1"}
TwoProcesses == {"A", "B"}
ProcessOf == [a1 |-> "A", a2 |-> "A", b1 |-> "B"]
=============================================================================
