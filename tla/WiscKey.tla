------------------------------ MODULE WiscKey ------------------------------
(***************************************************************************)
(* The key-value separation layer: wisckey_test.cc and lab2_common.h.      *)
(*                                                                         *)
(* wisckey_set appends a record to the value log and enters its offset in  *)
(* VTable, a map from a key to the vector of all its versions; LevelDB     *)
(* binds the key to the memory address of the newest vector element.       *)
(* wisckey_get follows the chain key -> LevelDB -> VTable -> log.          *)
(*                                                                         *)
(* One foreground thread calls the operations, so each is one step; the    *)
(* background thread of LevelDB raises `compacted' between them.  Opening  *)
(* the store destroys the old database and truncates the log, so nothing   *)
(* outlives the process.                                                   *)
(*                                                                         *)
(* The log is a sequence of slots of sizeof(std::string) = 32 bytes.  An   *)
(* address is a vector buffer and an index; the buffer is replaced when    *)
(* push_back finds the vector full, which ends the life of its addresses.  *)
(***************************************************************************)
EXTENDS Integers, Sequences

CONSTANTS
    Keys,        \* keys the user writes
    HeadKey,     \* headkey, the key "head" of the layer itself
    Values,      \* values the user writes
    NotFound,    \* Status::NotFound
    PutMayFail,  \* may LevelDB answer Put and Delete with an error?
    MaxSets      \* bound: calls of wisckey_set

ASSUME KeyAssumption == HeadKey \notin Keys
ASSUME FailAssumption == PutMayFail \in BOOLEAN
ASSUME StatusAssumption == NotFound \notin [buffer : Nat, idx : Nat]
ASSUME BoundAssumption == MaxSets \in Nat

AllKeys == Keys \cup {HeadKey}

VARIABLES
    VTable,    \* [AllKeys -> entry]; an empty vector stands for "no entry"
    leveldb,   \* [AllKeys -> address or NotFound]
    logfile,   \* sequence of slots
    pos,       \* position of the FILE: the next slot to read or write
    buffers,   \* allocation clock: every buffer gets a later number
    compacted, \* raised by BackgroundCompaction
    GC,        \* records collected by the last run of logfile_GC
    got        \* output strings of the last successful wisckey_get

index == <<VTable, leveldb, buffers>>
vars  == <<VTable, leveldb, logfile, pos, buffers, compacted, GC, got>>

-----------------------------------------------------------------------------
(* The value log.                                                          *)

KeySlot(k)   == [key |-> k]            \* fwrite of the key
PtrSlot(o)   == [offset |-> o]         \* fwrite of "offset&&32"
Slots == {KeySlot(k) : k \in Keys} \cup {PtrSlot(o) : o \in 0 .. 2 * MaxSets}

\* Writing one slot at position p of the FILE: over an old one or at the end.
Write(file, p, slot) ==
    [n \in 1 .. (IF p < Len(file) THEN Len(file) ELSE p + 1) |->
        IF n = p + 1 THEN slot ELSE file[n]]

-----------------------------------------------------------------------------
(* VTable.                                                                 *)

NoEntry    == [latest_ver |-> 0, val_vec |-> <<>>, buffer |-> 0, capacity |-> 0]
InVTable(k) == VTable[k].val_vec # <<>>
MaxOf2(a, b) == IF a > b THEN a ELSE b

\* std::vector: a full vector moves to a fresh buffer of twice the capacity.
PushBack(e, value, fresh) ==
    LET full == Len(e.val_vec) = e.capacity
        ver  == e.latest_ver + 1
    IN  [latest_ver |-> ver,
         val_vec    |-> Append(e.val_vec, [value |-> value, version |-> ver]),
         buffer     |-> IF full THEN fresh ELSE e.buffer,
         capacity   |-> IF full THEN MaxOf2(1, 2 * e.capacity) ELSE e.capacity]

\* The entry an address leads to; only a live address leads anywhere.
AddressLive(k, a) == /\ a.buffer = VTable[k].buffer
                     /\ a.idx \in 1 .. Len(VTable[k].val_vec)
Deref(k, a) == VTable[k].val_vec[a.idx]

\* Mutant: the address of the first version is stored.
AddressOfFirst(e) == [buffer |-> e.buffer, idx |-> 1]
\* &VTable[key].val_vec[idx], with idx the size before the push_back.
AddressOfNewest(e) == [buffer |-> e.buffer, idx |-> Len(e.val_vec)]

\* What db->Put leaves behind; the caller ignores the status.
PutResults(old, new) == {new} \cup (IF PutMayFail THEN {old} ELSE {})

\* leveldb_set of the key and, with the log head, of headkey.
leveldb_set(k, offset) ==
    LET entry == PushBack(VTable[k], offset, buffers + 1)
        head  == PushBack(VTable[HeadKey], offset + 1, buffers + 2)
    IN  /\ VTable' = [VTable EXCEPT ![k] = entry, ![HeadKey] = head]
        /\ buffers' = buffers + 2
        /\ \E a \in PutResults(leveldb[k], AddressOfNewest(entry)),
              h \in PutResults(leveldb[HeadKey], AddressOfNewest(head)) :
              leveldb' = [leveldb EXCEPT ![k] = a, ![HeadKey] = h]

\* Mutant: the versions are kept.
leveldb_del_KeepsVersions(k) ==
    /\ leveldb' = [leveldb EXCEPT ![k] = NotFound]
    /\ UNCHANGED <<VTable, buffers>>
leveldb_del(k) ==
    /\ \E a \in PutResults(leveldb[k], NotFound) :
          leveldb' = [leveldb EXCEPT ![k] = a]
    /\ VTable' = [VTable EXCEPT ![k] = NoEntry]
    /\ UNCHANGED buffers

-----------------------------------------------------------------------------
(* Garbage collection of the log.  stol parses the text that LevelDB holds *)
(* for headkey, an address "0x...", in base 10 and stops at the "x".       *)

Stol(address) == 0
HeadOffset == IF leveldb[HeadKey] = NotFound THEN 0 ELSE Stol(leveldb[HeadKey])

\* The uninitialised `tail' of logfile_GC may be any unsigned long; GC counts
\* the passes of the loop, of which the model needs to know only the first.
logfile_GC ==
    \E tail \in 0 .. 2 * MaxSets :
        GC' = IF tail + 2 < HeadOffset THEN 1 ELSE 0

do_logfileGC ==
    IF compacted THEN logfile_GC /\ compacted' = FALSE
                 ELSE UNCHANGED <<GC, compacted>>

-----------------------------------------------------------------------------
NoResult == [asked |-> NotFound]

Init ==
    /\ VTable = [k \in AllKeys |-> NoEntry]
    /\ leveldb = [k \in AllKeys |-> NotFound]
    /\ logfile = <<>>
    /\ pos = 0
    /\ buffers = 0
    /\ compacted = FALSE
    /\ GC = 0
    /\ got = NoResult

\* Mutant: the position of the log is only moved past the key.
wisckey_set_OneSlot(k, v) ==
    /\ Len(VTable[HeadKey].val_vec) < MaxSets
    /\ do_logfileGC
    /\ logfile' = Write(Write(logfile, pos, KeySlot(k)), pos + 1, PtrSlot(pos))
    /\ pos' = pos + 1
    /\ leveldb_set(k, pos)
    /\ UNCHANGED got

\* wisckey_set: append the key and the text "offset&&32".  The value v is not
\* written anywhere.
wisckey_set(k, v) ==
    /\ Len(VTable[HeadKey].val_vec) < MaxSets
    /\ do_logfileGC
    /\ logfile' = Write(Write(logfile, pos, KeySlot(k)), pos + 1, PtrSlot(pos))
    /\ pos' = pos + 2
    /\ leveldb_set(k, pos)
    /\ UNCHANGED got

\* wisckey_get of a key that LevelDB does not hold.
wisckey_get_missing(k) ==
    /\ leveldb[k] = NotFound
    /\ do_logfileGC
    /\ UNCHANGED <<index, logfile, pos, got>>

\* wisckey_get of a key with a live address: read both slots of the record,
\* which leaves the position of the FILE behind it.
wisckey_get(k) ==
    /\ leveldb[k] # NotFound
    /\ AddressLive(k, leveldb[k])
    /\ do_logfileGC
    /\ LET offset == Deref(k, leveldb[k]).value
       IN  /\ got' = [asked |-> k, key |-> logfile[offset + 1], value |-> logfile[offset + 2]]
           /\ pos' = offset + 2
    /\ UNCHANGED <<index, logfile>>

wisckey_del(k) ==
    /\ do_logfileGC
    /\ leveldb_del(k)
    /\ UNCHANGED <<logfile, pos, got>>

\* The background thread finishes a compaction.
BackgroundCompaction ==
    /\ ~compacted
    /\ compacted' = TRUE
    /\ UNCHANGED <<index, logfile, pos, GC, got>>

Next ==
    \/ \E k \in Keys :
          \/ \E v \in Values : wisckey_set(k, v)
          \/ wisckey_get_missing(k)
          \/ wisckey_get(k)
          \/ wisckey_del(k)
    \/ BackgroundCompaction

Spec == Init /\ [][Next]_vars

-----------------------------------------------------------------------------
Address == [buffer : Nat, idx : Nat]
Entry   == [latest_ver : Nat, buffer : Nat, capacity : Nat,
            val_vec : Seq([value : Nat, version : Nat])]

\* Every variable has its type, and the position is a record boundary inside
\* the log (ftell in wisckey_set, fseek in wisckey_get).
TypeOK ==
    /\ VTable \in [AllKeys -> Entry]
    /\ leveldb \in [AllKeys -> Address \cup {NotFound}]
    /\ logfile \in Seq(Slots)
    /\ pos \in 0 .. Len(logfile)
    /\ pos % 2 = 0 /\ Len(logfile) % 2 = 0
    /\ buffers \in Nat
    /\ compacted \in BOOLEAN
    /\ GC \in Nat

\* LevelDB and VTable, two stores that leveldb_set and leveldb_del update one
\* after the other, hold the same keys, and LevelDB's address is alive (not an
\* address of a buffer that a later push_back or erase gave back) and leads to
\* the newest version.
IndexConsistent ==
    \A k \in AllKeys :
        /\ leveldb[k] = NotFound <=> ~InVTable(k)
        /\ leveldb[k] # NotFound =>
              /\ AddressLive(k, leveldb[k])
              /\ Deref(k, leveldb[k]).version = VTable[k].latest_ver
              /\ leveldb[k].idx = Len(VTable[k].val_vec)

\* Every record of the log is a key followed by the pointer to that very
\* record, and every version of every key points to a whole record: reading
\* and overwriting never leave a position in the middle of one.
RecordsWhole ==
    /\ \A n \in 1 .. Len(logfile) :
          IF n % 2 = 1 THEN logfile[n] \in {KeySlot(k) : k \in Keys}
                       ELSE logfile[n] = PtrSlot(n - 2)
    /\ \A k \in Keys : \A j \in 1 .. Len(VTable[k].val_vec) :
          LET o == VTable[k].val_vec[j].value
          IN  o % 2 = 0 /\ o + 2 <= Len(logfile)

\* While every wisckey_set has appended (one record for each version of
\* headkey), the record that LevelDB and VTable lead to names its key.
RecordOwnedWhileAppending ==
    Len(logfile) = 2 * Len(VTable[HeadKey].val_vec) =>
        \A k \in Keys : InVTable(k) =>
            logfile[VTable[k].val_vec[Len(VTable[k].val_vec)].value + 1] = KeySlot(k)

\* What the chain of wisckey_get finds for a key.
Located == [k \in Keys |->
    IF leveldb[k] # NotFound /\ AddressLive(k, leveldb[k])
    THEN Deref(k, leveldb[k]).value ELSE -1]

\* Following LevelDB and VTable is looking up a map from a key to the log
\* offset of its last wisckey_set: every set binds its key (no set is lost, as
\* the allocation clock, which only a set advances, shows), every other change
\* is a delete, and collection and lookups do not disturb the map.
Index == INSTANCE KVStore WITH Key <- Keys, Value <- Nat, Absent <- -1, kv <- Located
IndexStep == \E k \in Keys : \/ buffers' = buffers /\ Index!Delete(k)
                             \/ buffers' # buffers /\ Index!Put(k, pos)
IndexSpec == Index!Init /\ [][IndexStep]_<<Located, buffers>>
=============================================================================
