------------------------------ MODULE MCReads -------------------------------
(***************************************************************************)
(* What a read goes through, for TLC: the skip list of a memtable, a table *)
(* file and a database iterator.  The three share no state here; `part'    *)
(* says which of them a behaviour is about, and the others stay as they    *)
(* are.                                                                    *)
(*                                                                         *)
(* The memtable: three entries of two keys, nodes of up to two levels.     *)
(* The table: up to five entries out of eight keys, in blocks of one to    *)
(* three entries with a restart point for every second, and a filter for   *)
(* every six units of the file.  The iterator: three entries of two keys   *)
(* spread over the three children in every way, the deeper level cut into  *)
(* files in every way, and one more write.                                 *)
(***************************************************************************)
EXTENDS MemTable, DBIter, SequencesExt

VARIABLES
    part,
    added, r, state, damaged, it, entry, skipped

TableKeys == {<<1>>, <<0, 2>>, <<0, 1>>, <<0, 1, 1>>, <<1, 1>>, <<2, 0, 1>>, <<3, 1>>, <<3, 3, 1>>}
TableTargets == TableKeys \cup {<<1, 0, 3>>, <<1, 3>>, <<3, 3, 3, 3>>, <<0, 3>>}
BloomHash(user_key) == (7 * Len(user_key) + FoldLeft(LAMBDA h, b : 5 * h + b, 3, user_key)) % 32

T == INSTANCE SSTable WITH
        Keys <- TableKeys, Targets <- TableTargets, FF <- 3, MaxTag <- 3, block_size <- 10,
        block_restart_interval <- 2, use_filter <- TRUE, kFilterBase <- 6, Hash <- BloomHash,
        HashWidth <- 5, Rotation <- 3, bits_per_key <- 4, kMinBits <- 8, k_ <- 2,
        MaxEntries <- 5, expect <- entry

tableVars == <<added, r, state, damaged, it, entry, skipped>>

ReadsInit ==
    /\ part \in {"memtable", "table", "iterator"}
    /\ Init /\ T!Init /\ IterInit
    /\ part # "iterator" =>
          sequence_ = 0 /\ Len(files_) = 1
          /\ ent[3] = {[key |-> 1, seq |-> s, type |-> kTypeValue] : s \in 1 .. 3}
ReadsNext ==
    \/ part = "memtable" /\ Next /\ UNCHANGED <<part, tableVars, iteratorVars>>
    \/ part = "table" /\ T!Next /\ UNCHANGED <<part, vars, iteratorVars>>
    \/ part = "iterator" /\ IterNext /\ UNCHANGED <<part, vars, tableVars>>
Reads == ReadsInit /\ [][ReadsNext]_<<part, vars, tableVars, iteratorVars>>

\* Positioned of SSTable: after any sequence of operations the iterator of a
\* kept table stands at the nearest readable entry in its direction; one that
\* passed over a damaged block says so in its status.
Positioned == T!Positioned
\* GetRight of SSTable: Table::InternalGet finds the first entry at or after its
\* key through separators and filters, or reports the damage.
GetRight == T!GetRight
=============================================================================
