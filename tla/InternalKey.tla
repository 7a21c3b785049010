---------------------------- MODULE InternalKey -----------------------------
(* Internal keys (db/dbformat.h): a user key, a sequence number and a type.  *)
EXTENDS Integers

kTypeDeletion == 0
kTypeValue == 1

\* InternalKeyComparator: user keys upwards, then sequence and type downwards.
Before(a, b) == \/ a.key < b.key
                \/ a.key = b.key /\ a.seq > b.seq
                \/ a.key = b.key /\ a.seq = b.seq /\ a.type > b.type
=============================================================================
