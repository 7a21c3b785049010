------------------------------ MODULE KVStore ------------------------------
(***************************************************************************)
(* What a key-value store promises: a map.  A key is bound to the value of *)
(* the last Put of that key; Delete removes the binding; nothing else,     *)
(* however the store moves its data about, changes the map.                *)
(***************************************************************************)
CONSTANTS Key, Value, Absent
VARIABLE kv

Init      == kv = [k \in Key |-> Absent]
Put(k, v) == kv' = [kv EXCEPT ![k] = v]
Delete(k) == kv' = [kv EXCEPT ![k] = Absent]
Next      == \E k \in Key : Delete(k) \/ \E v \in Value : Put(k, v)
Spec      == Init /\ [][Next]_kv
=============================================================================
