---------------------------- MODULE LogicalDisk ----------------------------
(***************************************************************************)
(* What a flash translation layer promises to the code above it: a set of  *)
(* clusters that can be read.  A cluster joins the set when it is written  *)
(* for the first time and never leaves it; nothing else ever happens.      *)
(***************************************************************************)
CONSTANT Cluster
VARIABLE stored

Init == stored = {}
Write(c) == stored' = stored \cup {c}
Next == \E c \in Cluster : Write(c)
Spec == Init /\ [][Next]_stored
=============================================================================
