------------------------------- MODULE Cache -------------------------------
(***************************************************************************)
(* The sharded LRU cache of util/cache.cc and its two users: the table     *)
(* cache (db/table_cache.cc) and the block cache of table/table.cc.        *)
(*                                                                         *)
(* Readers pin a file, find its table, read blocks of it and release what  *)
(* they hold; every cache call is one step, because it runs under the      *)
(* shard's mutex, and the work between two calls (opening a file, reading  *)
(* a block) runs without it.  Handles are memory: a freed one is reused.   *)
(***************************************************************************)
EXTENDS Integers, Sequences, FiniteSets, SequencesExt, FiniteSetsExt

CONSTANTS
    Readers,
    Files,              \* table file numbers
    Offsets,            \* offsets of the blocks of a table
    BlockSize,          \* [Offsets -> Nat]
    kNumShards,
    HashSpan,           \* hash values of one shard
    Hash(_),            \* keys to 0 .. kNumShards * HashSpan - 1
    kMinLength,         \* length of the smallest hash table (4 in the code)
    TableEntries,       \* capacity of the table cache
    BlockCapacity,      \* capacity of the block cache
    MmapLimit,          \* files that may be mapped at a time (1000)
    MaxId               \* bound: tables opened

ASSUME CacheAssumption ==
    /\ kNumShards \in Nat \ {0} /\ HashSpan \in Nat \ {0} /\ kMinLength \in Nat \ {0}
    /\ TableEntries \in Nat /\ BlockCapacity \in Nat /\ MmapLimit \in Nat /\ MaxId \in Nat

None == [shard |-> -1, h |-> 0]

VARIABLES
    table_cache,    \* [shard -> LRUCache]
    block_cache,    \* [shard -> LRUCache]
    last_id_,       \* ShardedLRUCache::last_id_ of the block cache
    allowed_,       \* slots left in the MmapLimiter
    live,           \* table files on disk
    rd,             \* [reader -> what it is doing and which handles it holds]
    closed          \* ~TableCache has run

vars == <<table_cache, block_cache, last_id_, allowed_, live, rd, closed>>

-----------------------------------------------------------------------------
(* HandleTable: list_ maps a bucket to its chain of handles.                *)

Shard(hash) == hash \div HashSpan
Bucket(hash, length) == hash % length
FindPointer(c, key) ==
    LET chain == c.list[Bucket(Hash(key), Len(c.list)) + 1]
        match == {i \in DOMAIN chain : c.ent[chain[i]].key = key}
    IN  [chain |-> chain, at |-> IF match = {} THEN 0 ELSE CHOOSE i \in match : \A j \in match : i <= j]

\* Every chain is read from its front and each handle put in front of its new chain.
Resize(c) ==
    LET k == CHOOSE i \in 0 .. c.elems : /\ kMinLength * 2^i >= c.elems
                                         /\ \A j \in 0 .. i - 1 : kMinLength * 2^j < c.elems
        new_length == kMinLength * 2^k
        all == FlattenSeq(c.list)
        Of(b) == SelectSeq(all, LAMBDA h : Bucket(Hash(c.ent[h].key), new_length) = b)
    IN  [c EXCEPT !.list = [b \in 1 .. new_length |-> Reverse(Of(b - 1))]]

\* HandleTable::Insert and Remove; the removed handle is looked up by the caller.
TableInsert(c, h) ==
    LET key == c.ent[h].key
        b == Bucket(Hash(key), Len(c.list)) + 1
        p == FindPointer(c, key)
        c1 == IF p.at # 0 THEN [c EXCEPT !.list[b][p.at] = h]
              ELSE [c EXCEPT !.list[b] = Append(@, h), !.elems = @ + 1]
    IN  IF p.at = 0 /\ c1.elems > Len(c1.list) THEN Resize(c1) ELSE c1
TableRemove(c, key) ==
    LET p == FindPointer(c, key)
        b == Bucket(Hash(key), Len(c.list)) + 1
    IN  IF p.at = 0 THEN c ELSE [c EXCEPT !.list[b] = RemoveAt(p.chain, p.at), !.elems = @ - 1]
Found(c, key) == LET p == FindPointer(c, key) IN IF p.at = 0 THEN 0 ELSE p.chain[p.at]

-----------------------------------------------------------------------------
(* LRUCache: ent is the heap of its handles, lru_ and in_use_ its lists.    *)

EmptyShard(capacity) ==
    [capacity |-> capacity, usage |-> 0, lru |-> <<>>, in_use |-> <<>>, elems |-> 0,
     list |-> [b \in 1 .. kMinLength |-> <<>>], ent |-> <<>>]
PerShard(capacity) == (capacity + (kNumShards - 1)) \div kNumShards

\* The handle is on one of the two lists, or on none.
LRU_Remove(c, h) == [c EXCEPT !.lru = SelectSeq(@, LAMBDA g : g # h),
                              !.in_use = SelectSeq(@, LAMBDA g : g # h)]
Ref(c, h) ==
    LET c1 == IF c.ent[h].refs = 1 /\ c.ent[h].in_cache
              THEN [LRU_Remove(c, h) EXCEPT !.in_use = Append(@, h)] ELSE c
    IN  [c1 EXCEPT !.ent[h].refs = @ + 1]

\* Mutant: a handle that loses its last reader stays on the in-use list.
UnrefKeeps(c, h) ==
    LET c1 == [c EXCEPT !.ent[h].refs = @ - 1]
    IN  IF c1.ent[h].refs = 0
        THEN [c1 EXCEPT !.ent = [g \in DOMAIN c1.ent \ {h} |-> c1.ent[g]]]
        ELSE c1
Unref(c, h) ==
    LET c1 == [c EXCEPT !.ent[h].refs = @ - 1]
    IN  IF c1.ent[h].refs = 0
        THEN [c1 EXCEPT !.ent = [g \in DOMAIN c1.ent \ {h} |-> c1.ent[g]]]
        ELSE IF c1.ent[h].in_cache /\ c1.ent[h].refs = 1
             THEN [LRU_Remove(c1, h) EXCEPT !.lru = Append(@, h)] ELSE c1

FinishErase(c, h) ==
    IF h = 0 THEN c
    ELSE Unref([LRU_Remove(c, h) EXCEPT !.ent[h].in_cache = FALSE,
                                        !.usage = @ - c.ent[h].charge], h)

Erase(c, key) == FinishErase(TableRemove(c, key), Found(c, key))
Prune(c) == FoldLeft(LAMBDA d, h : Erase(d, d.ent[h].key), c, c.lru)
NewHandle(c) == CHOOSE h \in 1 .. Cardinality(DOMAIN c.ent) + 1 : h \notin DOMAIN c.ent

\* LRUCache::Insert; the new handle is NewHandle(c).
Insert(c, key, value, charge) ==
    LET h == NewHandle(c)
        e == [key |-> key, value |-> value, charge |-> charge, in_cache |-> c.capacity > 0,
              refs |-> IF c.capacity > 0 THEN 2 ELSE 1]
        c1 == [c EXCEPT !.ent = [g \in DOMAIN c.ent \cup {h} |-> IF g = h THEN e ELSE c.ent[g]]]
        c2 == IF c.capacity > 0
              THEN FinishErase(TableInsert([c1 EXCEPT !.in_use = Append(@, h),
                                                      !.usage = @ + charge], h), Found(c, key))
              ELSE c1
    IN  FoldLeft(LAMBDA d, g : IF d.usage > d.capacity THEN Erase(d, d.ent[g].key) ELSE d,
                 c2, c2.lru)

-----------------------------------------------------------------------------
(* The sharded cache: the hash of the key chooses the shard.                *)

ShardOf(key) == Shard(Hash(key))
Lookup(cache, key) ==
    LET h == Found(cache[ShardOf(key)], key)
    IN  IF h = 0 THEN cache ELSE [cache EXCEPT ![ShardOf(key)] = Ref(@, h)]
HandleOf(cache, key) ==
    LET h == Found(cache[ShardOf(key)], key)
    IN  IF h = 0 THEN None ELSE [shard |-> ShardOf(key), h |-> h]
Value(cache, handle) == cache[handle.shard].ent[handle.h].value
ReleaseIn(cache, handle) == [cache EXCEPT ![handle.shard] = Unref(@, handle.h)]
InsertIn(cache, key, value, charge) ==
    [cache EXCEPT ![ShardOf(key)] = Insert(@, key, value, charge)]
NewHandleIn(cache, key) == [shard |-> ShardOf(key), h |-> NewHandle(cache[ShardOf(key)])]

-----------------------------------------------------------------------------
(* The readers: TableCache::Get, TableCache::NewIterator and the block      *)
(* iterators of a table make the same calls.                                *)

NoReader == [pc |-> "idle", file |-> 0, table |-> None, mapped |-> FALSE,
             opened |-> 0, offset |-> 0, block |-> None]
Shards == 0 .. kNumShards - 1
Init ==
    /\ table_cache = [s \in Shards |-> EmptyShard(PerShard(TableEntries))]
    /\ block_cache = [s \in Shards |-> EmptyShard(PerShard(BlockCapacity))]
    /\ last_id_ = 0 /\ allowed_ = MmapLimit /\ live = Files /\ closed = FALSE
    /\ rd = [r \in Readers |-> NoReader]

TableKey(f) == <<f>>
\* A read refers to a version, so its file is not deleted; the value of a
\* table is its file and the cache_id it was opened with.
\* FindTable: the Lookup.
FindTable(r, f) ==
    LET handle == HandleOf(table_cache, TableKey(f))
    IN  /\ rd[r].pc = "idle" /\ ~closed /\ f \in live
        /\ table_cache' = Lookup(table_cache, TableKey(f))
        /\ rd' = [rd EXCEPT ![r] = [NoReader EXCEPT !.file = f, !.table = handle,
                                        !.pc = IF handle = None THEN "open" ELSE "table"]]
        /\ UNCHANGED <<block_cache, last_id_, allowed_, live, closed>>

\* MmapLimiter::Acquire with x slots left.
Acquire(x) == IF x > 0 THEN [ok |-> TRUE, left |-> x - 1] ELSE [ok |-> FALSE, left |-> x]

\* A file is mapped if the MmapLimiter has a slot left, and read with pread
\* otherwise.
NewRandomAccessFile(r) ==
    /\ rd[r].pc = "open"
    /\ allowed_' = Acquire(allowed_).left
    /\ rd' = [rd EXCEPT ![r].pc = "file", ![r].mapped = Acquire(allowed_).ok]
    /\ UNCHANGED <<table_cache, block_cache, last_id_, live, closed>>

\* Mutant: every table gets the same id.
SameId(r) ==
    /\ rd[r].pc = "file" /\ last_id_ < MaxId
    /\ last_id_' = 1
    /\ rd' = [rd EXCEPT ![r].pc = "insert", ![r].opened = 1]
    /\ UNCHANGED <<table_cache, block_cache, allowed_, live, closed>>
\* Table::Open: a new id for the table's blocks.
OpenTable(r) ==
    /\ rd[r].pc = "file" /\ last_id_ < MaxId
    /\ last_id_' = last_id_ + 1
    /\ rd' = [rd EXCEPT ![r].pc = "insert", ![r].opened = last_id_ + 1]
    /\ UNCHANGED <<table_cache, block_cache, allowed_, live, closed>>

\* The file cannot be opened or mapped, or is no table: errors are not cached,
\* and the slot is given back by NewRandomAccessFile or with the file.
OpenTableFails(r) ==
    /\ rd[r].pc \in {"open", "file"}
    /\ allowed_' = IF rd[r].mapped THEN allowed_ + 1 ELSE allowed_
    /\ rd' = [rd EXCEPT ![r] = NoReader]
    /\ UNCHANGED <<table_cache, block_cache, last_id_, live, closed>>

\* DeleteEntry of the table cache closes the files of the handles freed by a
\* step, and ~PosixMmapReadableFile gives the slots of mapped ones back.
Freed(cache) == {x \in UNION {{s} \X DOMAIN table_cache[s].ent : s \in Shards} :
                    x[2] \notin DOMAIN cache[x[1]].ent}
DeleteEntries(cache) ==
    /\ table_cache' = cache
    /\ allowed_' = allowed_ + Cardinality({x \in Freed(cache) :
                                              table_cache[x[1]].ent[x[2]].value.mapped})

\* Another reader may have inserted the same table meanwhile.
InsertTable(r) ==
    /\ rd[r].pc = "insert"
    /\ DeleteEntries(InsertIn(table_cache, TableKey(rd[r].file),
           [file |-> rd[r].file, cache_id |-> rd[r].opened, mapped |-> rd[r].mapped], 1))
    /\ rd' = [rd EXCEPT ![r].pc = "table", ![r].opened = 0, ![r].mapped = FALSE,
                        ![r].table = NewHandleIn(table_cache, TableKey(rd[r].file))]
    /\ UNCHANGED <<block_cache, last_id_, live, closed>>

TableOf(r) == Value(table_cache, rd[r].table)
BlockKey(r, o) == <<TableOf(r).cache_id, o>>

\* Table::BlockReader: the Lookup.
BlockReader(r, o) ==
    LET handle == HandleOf(block_cache, BlockKey(r, o))
    IN  /\ rd[r].pc = "table"
        /\ block_cache' = Lookup(block_cache, BlockKey(r, o))
        /\ rd' = [rd EXCEPT ![r].offset = o, ![r].block = handle,
                            ![r].pc = IF handle = None THEN "read" ELSE "block"]
        /\ UNCHANGED <<table_cache, last_id_, allowed_, live, closed>>

\* ReadBlock, and the Insert when fill_cache is set and the block may be cached.
ReadBlock(r, cached) ==
    LET key == BlockKey(r, rd[r].offset)
    IN  /\ rd[r].pc = "read"
        /\ IF cached
           THEN /\ block_cache' = InsertIn(block_cache, key,
                                    [file |-> TableOf(r).file, offset |-> rd[r].offset],
                                    BlockSize[rd[r].offset])
                /\ rd' = [rd EXCEPT ![r].pc = "block", ![r].block = NewHandleIn(block_cache, key)]
           ELSE /\ rd' = [rd EXCEPT ![r].pc = "block"]
                /\ UNCHANGED block_cache
        /\ UNCHANGED <<table_cache, last_id_, allowed_, live, closed>>

ReadBlockFails(r) ==
    /\ rd[r].pc = "read"
    /\ rd' = [rd EXCEPT ![r].pc = "table", ![r].offset = 0]
    /\ UNCHANGED <<table_cache, block_cache, last_id_, allowed_, live, closed>>

\* ReleaseBlock, or DeleteBlock for a block that is in no cache.
ReleaseBlock(r) ==
    /\ rd[r].pc = "block"
    /\ block_cache' = IF rd[r].block = None THEN block_cache
                      ELSE ReleaseIn(block_cache, rd[r].block)
    /\ rd' = [rd EXCEPT ![r].pc = "table", ![r].block = None, ![r].offset = 0]
    /\ UNCHANGED <<table_cache, last_id_, allowed_, live, closed>>

\* cache_->Release at the end of Get, UnrefEntry at the end of an iterator.
UnrefEntry(r) ==
    /\ rd[r].pc = "table"
    /\ DeleteEntries(ReleaseIn(table_cache, rd[r].table))
    /\ rd' = [rd EXCEPT ![r] = NoReader]
    /\ UNCHANGED <<block_cache, last_id_, live, closed>>

-----------------------------------------------------------------------------
(* The background thread and the owner of the caches.                       *)

\* DeleteObsoleteFiles: no version holds the file.
Evict(f) ==
    /\ ~closed /\ f \in live /\ \A r \in Readers : rd[r].pc = "idle" \/ rd[r].file # f
    /\ live' = live \ {f}
    /\ DeleteEntries([table_cache EXCEPT ![ShardOf(TableKey(f))] = Erase(@, TableKey(f))])
    /\ UNCHANGED <<block_cache, last_id_, rd, closed>>

\* Cache::Prune of the block cache, by its owner.
PruneBlocks ==
    /\ ~closed
    /\ block_cache' = [s \in Shards |-> Prune(block_cache[s])]
    /\ UNCHANGED <<table_cache, last_id_, allowed_, live, rd, closed>>

\* ~TableCache and ~LRUCache: only what is on lru_ is freed.
Close ==
    /\ ~closed /\ \A r \in Readers : rd[r].pc = "idle"
    /\ closed' = TRUE
    /\ DeleteEntries([s \in Shards |->
          FoldLeft(LAMBDA c, h : Unref([c EXCEPT !.ent[h].in_cache = FALSE], h),
                   table_cache[s], table_cache[s].lru)])
    /\ UNCHANGED <<block_cache, last_id_, live, rd>>

Next ==
    \/ \E r \in Readers :
          \/ \E f \in Files : FindTable(r, f)
          \/ NewRandomAccessFile(r)
          \/ OpenTable(r)
          \/ OpenTableFails(r)
          \/ InsertTable(r)
          \/ \E o \in Offsets : BlockReader(r, o)
          \/ \E cached \in BOOLEAN : ReadBlock(r, cached)
          \/ ReadBlockFails(r)
          \/ ReleaseBlock(r)
          \/ UnrefEntry(r)
    \/ \E f \in Files : Evict(f)
    \/ PruneBlocks
    \/ Close

Spec == Init /\ [][Next]_vars

-----------------------------------------------------------------------------
(* Properties.                                                              *)

Holders(field, s, h) == {r \in Readers : rd[r][field] = [shard |-> s, h |-> h]}

\* Open tables whose file is mapped, in the cache or not yet.
MappedTables ==
    Cardinality({x \in UNION {{s} \X DOMAIN table_cache[s].ent : s \in Shards} :
                    table_cache[x[1]].ent[x[2]].value.mapped})
      + Cardinality({r \in Readers : rd[r].mapped})

\* The reference count of a handle is the readers that hold it plus the cache
\* if the handle is cached, and no reader holds a freed handle; a cached handle
\* is on lru_ if nobody holds it, on in_use_ otherwise, and any other on
\* neither: Ref, Unref, Insert, Erase and Prune, whoever races with whom.  Every
\* mmap slot that is taken belongs to one open table, so the limiter neither
\* leaks slots nor hands out more than it has; after Close it has them all.
RefsExact ==
  /\ allowed_ + MappedTables = MmapLimit /\ (closed => allowed_ = MmapLimit)
  /\ \A s \in Shards : \A x \in {<<"table", table_cache[s]>>, <<"block", block_cache[s]>>} :
        closed \/
        /\ \A h \in DOMAIN x[2].ent : x[2].ent[h].refs =
              Cardinality(Holders(x[1], s, h)) + (IF x[2].ent[h].in_cache THEN 1 ELSE 0)
        /\ \A r \in Readers : rd[r][x[1]].shard = s => rd[r][x[1]].h \in DOMAIN x[2].ent
        /\ ToSet(x[2].lru) = {h \in DOMAIN x[2].ent : x[2].ent[h].in_cache /\ x[2].ent[h].refs = 1}
        /\ ToSet(x[2].in_use) = {h \in DOMAIN x[2].ent : x[2].ent[h].in_cache /\ x[2].ent[h].refs > 1}

\* A table or block found in a cache is the one of the reader's file and
\* offset: ids keep the blocks of an earlier opening, and handle memory that
\* was reused, apart.
RightBlock ==
    \A r \in Readers :
        /\ rd[r].table # None => TableOf(r).file = rd[r].file
        /\ rd[r].block # None => Value(block_cache, rd[r].block) =
                                    [file |-> rd[r].file, offset |-> rd[r].offset]

=============================================================================
