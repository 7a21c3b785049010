# WiscKey over LevelDB over a simulated flash: TLA+ specifications

The repository is a LevelDB tree (`src/WiscKey/db`, `table`, `util`), a
key-value separation layer on top of it (`wisckey_test.cc`, `lab2_common.h`) and
a flash simulator below it (`src/WiscKey/Flash`).  This directory models the
parts that carry state and concurrency, checks them with TLC on small instances,
and proves the most important invariants with TLAPS for every instance.  All
paths below are relative to `src/WiscKey/`.  The shipped build uses `-O2
-DNDEBUG`: the code's assertions do not run, and the models do not use them as
guards.

## 1. The system

| Part | State | Operations | Modelled in |
|------|-------|------------|-------------|
| WiscKey layer (`wisckey_test.cc`) | value log and its FILE position, `compacted`, `GC` | `wisckey_set/get/del`, `do_logfileGC`, `logfile_GC` | `WiscKey` |
| VTable (`lab2_common.h`) | map key -> vector of versions; LevelDB binds a key to the *address* of a vector element | `leveldb_set/get/del` | `WiscKey` |
| Flash hooks (`db/db_impl.cc`, `global.h`, `main`) | `KeySSTableMap`, `SSTableClusterMap`, `CurrentCluster`, `Operations`, three mutexes | recorded by flush, merge and `Get`; replayed by `main` | `FlashOps` |
| Writers and background thread (`db/db_impl.cc`) | writer queue, memtables, logs, `bg_error_`, `bg_compaction_scheduled_`, `manual_compaction_`, condition variables | `Write`, `MakeRoomForWrite`, `BackgroundCall`, `CompactMemTable`, `DoCompactionWork`, `TEST_CompactMemTable`, `TEST_CompactRange`, `~DBImpl`, `PosixEnv::Schedule` | `DBImpl` |
| Merge tree (`db/version_set.cc`, `db/db_impl.cc`) | memtables, files per level, snapshots, running compaction | flush, pick, merge, install, trivial move, `Get` | `LSM` |
| Opening, recovery, repair (`db/db_impl.cc`, `db/version_set.cc`, `db/repair.cc`) | files on disk and what of them is durable, file and sequence numbers | `DB::Open`, `Recover`, `LogAndApply`, `DeleteObsoleteFiles`, `RepairDB` | `Recovery`, `Files`, `Records` |
| Database lock (`util/env_posix.cc`, `db/db_impl.cc`) | `PosixLockTable`, descriptors, the operating system's lock, the LOCK file | `LockFile`, `UnlockFile` in `Open`, `~DBImpl`, `DestroyDB`; exit of a process | `DBLock` |
| Log format (`db/log_writer.cc`, `db/log_reader.cc`) | block offset, reader buffer | `AddRecord`, `ReadRecord` | `Log` |
| Memtable (`db/skiplist.h`, `db/memtable.cc`) | linked nodes, `max_height_` | `Insert`, `Seek`, `Next`, `Prev`, `Get` | `MemTable` |
| Tables (`table/`) | blocks, restart points, index, filters | `TableBuilder`, `Block::Iter`, `TwoLevelIterator`, `InternalGet` | `SSTable` |
| Iterators (`db/db_iter.cc`, `table/merger.cc`) | direction, saved key, current child | `Seek*`, `Next`, `Prev` | `DBIter` |
| Caches (`util/cache.cc`, `db/table_cache.cc`, `table/table.cc`) | handles, reference counts, LRU lists, mmap slots | lookup, insert, release, erase, prune | `Cache` |
| Encodings (`util/coding.cc` and users) | – | varints, slices, internal keys, entries, handles, footers | `Coding` |
| Page-level FTL (`Flash/FTL.c`) and pool (`Flash/flash.c`) | flash pages, `FTLTable`, counters, free list, write pointer, scan statics | `WritewithFTL`, `FTLGarbageCollection`, `FTLEraseOneBlock`, `InitializeFTL` | `FTL` |
| Other translation schemes (`Flash/NFTL.c`, `BL.c`, `DFTL.c`, `STRIPE.c`, LRU lists) | mapping tables, current blocks, LRU lists | one request of a trace; collection, merge, eviction inside it | `NFTL`, `BL`, `DFTL`, `STRIPE`, `Flash`, `LRUList`, `Simulator` |

How they interact.  The foreground thread calls the WiscKey layer, which appends
to the log, updates VTable and calls `DB::Put/Get/Delete`.  `DBImpl::Write`
queues the caller; the front of the queue logs and applies a group without the
mutex.  A full memtable becomes immutable and the one background thread flushes
it, or merges files; it raises `compacted`, which the foreground polls.  Flush,
merge and `Get` append records to `Operations`, which `main` replays through the
FTL under `FTL_mutex` after the workload.  Readers hold references to immutable
versions and reach tables through the caches; what the logs and the MANIFEST hold
is read back by the next `Open`.

What is hard here: the steps that `DBImpl` takes without its mutex; a flush in
the middle of a merge; one user key split over two files; a crash in the middle of
`Open`, `LogAndApply` or a repair; lock-free readers of a list that is being
linked; two readers that open the same table; an iterator that turns round over a
growing memtable; addresses of vector elements kept in a database; one FILE
position shared by readers and appenders; a lock that any close of its file gives
up; a victim block that is on the free list
while it still holds data; an I/O error between two dependent updates; and waiting
threads that must be woken.  `PROJECT.json` lists these hazards at their lines
with the properties that cover them; a hazard without a property says why.

## 2. Modules

| Module | Content |
|--------|---------|
| `LogicalDisk` | abstract: the set of clusters that were written |
| `FTL`, `FTLProofs` | the translation layer, one action per iteration of a C loop; proofs |
| `KVStore` | abstract: a map with `Put` and `Delete` |
| `WiscKey`, `WiscKeyProofs` | the key-value separation layer, one action per call; proofs |
| `FlashOps`, `FlashOpsProofs` | the hooks between LSM tree and FTL, and the replay by `main`; proofs |
| `LSM` | versions, flushes and compactions |
| `DBImpl`, `DBImplProofs` | the threads of `DBImpl`; proofs |
| `DBLock`, `DBLockProofs` | who may have a database open; proofs |
| `Recovery` | `Open`, `LogAndApply`, the running database's disk writes, `RepairDB`; uses `Files` and `Records` |
| `Files` | files, directory operations, sync, and what a crash leaves |
| `Records` | write batches and version edits as sequences of items |
| `Log`, `LogProofs` | writer and reader of the log format; proofs |
| `Coding` | byte encodings; operators with assumptions |
| `MemTable`, `MemTableProofs` | skip list with a lock-free reader; proofs |
| `Cache` | sharded LRU cache with table cache, block cache and mmap limiter |
| `SSTable` | building and reading a table |
| `InternalKey` | internal keys and their order, for `MemTable` and `DBIter` |
| `DBIter`, `DBIterProofs` | database iterator over a merging iterator; proofs |
| `Flash`, `LRUList` | flash memory and the array-based LRU list of the simulator |
| `NFTL`, `BL`, `DFTL`, `STRIPE` | the four other schemes (`STRIPE` static and dynamic) |
| `Simulator` | runs one of them over a trace |
| `MC*` | instances for TLC; `MCReads` has `MemTable`, `SSTable` and `DBIter` side by side, one of them running |

Operators whose comment begins with "Mutant:" are deliberate mistakes.  Nothing
uses them; each stands before the definition it would replace, and putting it in
that definition's place makes TLC report the property `PROJECT.json` names.

### FTL

`pc` tells which C loop runs (`read`, `room`, `gc`, `erase`); a step is one
iteration, so the invariants are checked in the middle of a live-page copy too.
`FreeBlockList` is the linked list of `flash.c` as a sequence; `GetFreeBlock`
refuses to go below the reserve `LeastBlocks`.  `FTLGarbageCollection` scans from
where the last scan stopped, takes the first block with `invalid > valid/divider`
and doubles the static, never reset 32-bit divider after a fruitless round;
`Double32` keeps the width, so the 32nd doubling gives 0 and the next division
kills the process (`GCCrash`).  The victim goes on the free list *before* its
live pages are copied.  `Init` ranges over every order of the free list
(`flash.c` shuffles it) and `filled` drives the initial fill of `InitializeFTL`.
Left out: timing and statistics, erase counts, `AccessedLogicalPageMap`.
Requests stay below `WorkingSet` because the code has no check of its own.

### WiscKey

The log is a sequence of slots of 32 bytes, `sizeof(std::string)`: `wisckey_set`
writes the string objects of the key and of the text `offset&&32`.  `pos` is the
position of the one FILE, which `wisckey_get` moves with `fseek`.  An address is a
vector buffer and an index; a `push_back` into a full vector replaces the buffer
and ends the life of its addresses.  `stol` of an address text (`0x...`) is 0, so
the loop of `logfile_GC` never runs; its uninitialised `tail` is a
nondeterministic choice.  `head_tail_insert` and `reopenlogfile` are never called.
Nothing persists: opening destroys the database and truncates the log.
`PutMayFail` lets LevelDB's `Put` and `Delete` fail, whose status a release build
ignores; the run and the proofs have it FALSE (section 6).

### FlashOps

Two threads: `main` with its workload, a `Get` and the replay, and the background
thread with a flush that may run inside a compaction.  The steps lie where
`Table_mutex`, `FTL_mutex` and `mutex_` are released.  Keys are recorded as the
code records them: for a flush the C string of the internal key cut by four
characters, whose length depends on zero bytes of the tag.  Keys are therefore
sequences of printable characters (`KeyAssumption`) and the tag is made of the
bytes of the sequence number, in digits to the base `ByteValues`; `FlushedKey`
cuts what stands before the first zero byte.  Ranges are counted in pages and rounded down.  The
FTL below is the set of clusters it maps; the rest of it is module `FTL`.

### LSM

An entry is (key, sequence number, type) and its value is its sequence number; a
file is the set of its entries.  A merge is two steps, because the mutex is free
in between: `StartCompaction` chooses inputs in the then-current version and
computes what survives, `InstallCompactionResults` applies the edit to the
version current *then*.  Sizes are not modelled, so every decision that depends
on sizes, seek statistics or `compact_pointer_` is nondeterministic: which file is
compacted, whether the inputs are expanded, how far a flush descends, where the
output is cut.  The lookup is the code's: memtable, immutable memtable, level 0
newest first, then one binary-searched file per level (`FindFile`).  `Loads` are
the workloads of a run; the variable `load` is chosen in `Init`.

### DBImpl

One step is one section under `mutex_`, except that `MakeRoomForWrite` takes one
step per loop iteration and keeps the mutex (`mutex`).  `cv` and `bg_cv` hold the
threads that wait and have not been signalled; they take no step, so a lost
wake-up shows.  The leader's `AddRecord`, `Sync` and `InsertInto` run without the
mutex; a group of writers is one log record, and a failed `AddRecord` may or may
not have reached the file.  A flush is
`BackgroundStarts` (or `MergeFlushes` inside a merge), `FlushBuilt`,
`FlushApplied`: the two points where `WriteLevel0Table` and `LogAndApply` release
the mutex.  `Faults` names the operations that may fail.  Sizes count units of
128 KB, so the limits of `BuildBatchGroup` are 1 and 8.  What tables hold is
`LSM`'s business: here they are sets of batches and a number of level-0 files.
`crashed` is the state after a NULL dereference (section 6).

### DBLock

A caller is one `DB` object or one `DestroyDB` in some process, and every system
call of `LockFile`, `UnlockFile` and `DestroyDB` is a step.  `owner` is the lock
of `fcntl`, which belongs to a process and an inode and which *any* close of that
inode by the process gives up; `lock_file` is the inode called LOCK now, since
`DestroyDB` deletes the name and the next caller makes another.  The history
variable `disturbed` marks that a lock was lost behind its holder's back.  `Exit`
ends a process at any time.  `MaxInodes` bounds how often LOCK is made.

### Recovery, Files, Records

A file is a sequence of records with a durable prefix; a disk also has a journal
of directories, of which a crash keeps some prefix that includes the durable one.
The assumption behind it: the file system keeps the order of directory operations,
and `fdatasync` of a file commits them up to the one that made the file.  The
actions are the steps of `Open` (`NewDB`, reading CURRENT and the MANIFEST, each
log, `LogAndApply`, `DeleteObsoleteFiles`), of the running database (write,
memtable switch, flush, merge) and of `RepairDB`, each able to be cut off by a
crash.  Log records are encoded batches and MANIFEST records encoded edits, which
are decoded again; levels, key ranges and compaction pointers are left out of
edits.  The history variable `unsafe` marks the reuse of a file with a torn tail
(`reuse_logs`), which the code does not look for and which the properties except.
`RepairDB` reads logs without verifying their checksums (`db/repair.cc:193`); the
model's reader verifies them, so `SequenceOrder` and `BatchWhole` also except a
repair after such a reuse (`Garbled`).

### Log and Coding

`Log` has one action per physical record; a file is a sequence of cells, so a
crash after any byte, one damaged byte and appending behind a torn record are
states of it.  A checksum is the pair it was computed from, so collisions do not
occur.  The history variable `emitted` holds the physical records of which the file
has some cells; no guard reads it, and the proofs are about it.  `LogAssumption`
asks for blocks of at least two headers (the code has 32768 and 7).  `Coding` is
operators only; its named assumptions (every encoder is
inverted by its decoder, truncated input is refused, a number read fits its
width) are evaluated by the run `log_format`.  Sizes are parameters
because TLC's integers have 32 bits; lengths are added modulo 2^w as in
`DecodeEntry`.

### MemTable, SSTable, DBIter, Cache

`MemTable`: every load and store of a link is a step, and a reader may see any
value `max_height_` ever had.  `SSTable`: offsets in a block count entries;
blocks have shared prefixes, restart points and, if a filter is used, one Bloom
filter per `kFilterBase` units of the file.  Data blocks may be damaged after the table was
written and the filter may be missing; the index and the footer are never
damaged.  Only readers with `verify_checksums` are modelled: the option is off by
default (`table/format.cc:90`), and damage may then pass unreported.  `DBIter`: one step is one operation of
the internal iterator, so that writes come in the middle of `FindNextUserEntry`
and `FindPrevUserEntry`; `files_` cuts the entries of the deeper level into files
in any way that keeps their order, also between two versions of a user key.  `Cache`: a step is one cache call, which runs under a
shard's mutex; opening a file and reading a block lie between two steps, and freed
handles are reused.

### The other schemes

The simulator is sequential: a request is one step, and the operators of a scheme
map a machine state (a record) to the next.  Pages hold the version written, so
that an old copy can be told from the newest.  `LRUList` keeps the array with its
stale links.  `STRIPE` is mutually recursive as in C; these modules therefore have
no theorems.  `dead` says why the process ended itself.

## 3. Runs

| Run | Instance | States | Shows |
|-----|----------|--------|-------|
| `ftl_requests` | 5 blocks of 2 pages, one bad, reserve 1, requests of up to 3 sectors over 4 clusters | 584 000 | table and pages agree, page life cycle, refinement of `LogicalDisk`, every request ends, and collection fails only when the flash is too full |
| `wisckey_safety` | 2 keys, 5 sets | 18 000 | LevelDB and VTable agree across reallocations, the log keeps whole records, refinement of `KVStore` (`IndexSpec`: every set binds its key to the offset it wrote at, everything else is a delete or a stutter) |
| `flash_ops` | 2 keys of which one begins with the other, memtables of one entry, 3 puts, 3 tables, 1 `Get` | 612 000 | a replayed read finds its clusters, a `Get` is sent to a table of its key or of one at most four characters longer that begins with it, only the window of a compaction output can kill it, and the program exits if no background work is left |
| `lsm` | 4 levels, two loads: 3 keys, 5 puts, outputs cut once, automatic compactions; 2 keys, 3 puts and deletions, a snapshot, manual compactions of every range | 1 090 000 | disjoint levels, reads find the newest write |
| `db_calls` | a syncing writer, a plain one, a forced flush, a manual compaction, the background thread, the destructor; 3 calls, every operation may fail | 623 000 | write-ahead logging, durability of synced writes, visibility of acknowledged writes, no write after an error, every call returns |
| `lsm_split_key` | 1 key, 2 puts, a snapshot, one cut | – | *violation* of `ReadsCorrect`: the newer half of a split user key is compacted alone |
| `db_lock` | two callers in one process and one in another, two of them with `DestroyDB`, 3 files called LOCK | 459 000 | one caller per process, and one in all while no lock was lost behind its holder's back; `DestroyDB` spares an open database |
| `recovery` | 2 batches (one of two updates), memtables of 2, 1 merge, 2 faults, 3 calls of `Open`, the last after the last fault, with and without `reuse_logs` | 1 762 000 | synced writes are there after every `Open`, logs survive as prefixes and batches whole, sequence numbers grow, `Open` does not fail |
| `log_format` | blocks of 7 bytes, 3 records of 0 or 6 bytes, reading from offset 0 or 6 | 177 000 | no record is invented, acknowledged ones are read, damage stays in its block; the assumptions of `Coding` |
| `reads` | memtable: 3 entries of 2 keys, 2 levels; table: up to 5 of 8 keys, blocks of 1 to 3 entries; iterator: 2 keys, 3 loaded entries in every distribution, one more write | 881 000 | the three parts of a read, each by itself: no unwritten link is followed, positions are right and `Get` at a snapshot finds the newest; table iterators stand right, report damage, point lookups are exact; the database iterator shows its snapshot |
| `cache` | 2 readers, 2 files of 2 blocks, 1 mmap slot | 471 000 | exact references and lists, right contents |
| `schemes` | 8 blocks of 2 pages, 2 chips, reserve 2, five initial fills, 4 to 7 requests a scheme | 390 000 | under NFTL, BL, DFTL and STRIPE_STATIC reads find the newest copy and the free list is sound; under all five the counters that choose victims are exact and the LRU lists linked; NFTL, BL and STRIPE_STATIC end the process only for lack of space |

Bounds and why they are enough.  FTL: with three data blocks, garbage collection
takes victims with 0, 1 and (when nothing else is left) only-valid pages, the copy
loop takes a second free block, and both outcomes of a full flash occur.
WiscKey: five sets give each vector three capacities (1, 2, 4), so addresses die
and are renewed, and the log is overwritten.  FlashOps: three puts make two
flushed tables and one more memtable, so a merge has inputs, may be interrupted by
a flush, and `Get` and replay meet each window.  One key
is the other with three characters more, and the first sequence number has a zero
byte that leaves a tag of one character, so the longer key may be recorded under
the name of the shorter one.  LSM: five writes over three keys
fill three levels, make ranges that overlap partly, and leave room for a flush
during a merge; manual compactions come with two keys because with three a gap
exists, and neither load combines snapshots with cuts: `GapLoad` of `MCLSM` and
the run `lsm_split_key` show what happens then.  DBLock: three callers are the least for a
refusal within a process to hurt another process, and three inodes let `DestroyDB`
delete LOCK twice.
DBImpl: three calls switch the memtable twice, so one writer waits for the flush
of the first while others queue behind it; the level-0 triggers are 1, so slowdown
and stop both happen.  Recovery: a fault is a crash, a failed write of the MANIFEST or
a repair.  Two of them put a crash into the recovery from another crash, a repair
after a crash, and a crash into a repair, which is then run again (not counted);
an `Open` follows the second fault, but neither a repair nor writes follow two crashes.  Log: the sizes make records of one,
two and three fragments, trailers too short for a header, and empty fragments.
MemTable: two levels are the least for a stale height to matter.  SSTable: five
keys fill at least two blocks, so index separators, several filters and seeks
across blocks occur.  DBIter: three loaded entries over three children make every
tie, hidden entry and deletion marker that a change of direction can meet, and the
deeper level is cut into files in every way.  Cache:
capacities below the number of entries force evictions, and a hash table of one
bucket forces a resize.  Simulator: from full fills a single request makes
collections nest.  Deadlock checking is off where the system may stop: after the
bounded number of calls, after a crash, or when the database is closed.

## 4. Fairness

`FTL!FairSpec`: `WritewithFTL` is run by one thread under `FTL_mutex` and waits
for nothing, so its steps are weakly fair; requests are not.
`DBImpl!FairSpec` does not assume fair scheduling of threads: it asks that the
program does not stop while some running call or the background thread can take
a step (weak fairness of `Progress`), and that a merge ends (strong fairness of
its end: `DoCompactionWork` may be interrupted by flushes, but its input is
finite).  Starting a call or closing the database is not fair.
`FlashOps!Spec`: each of the two operating-system threads goes on while it can
(weak fairness of `MainReplay`, `GetRange` and `Background`); the workload is not
fair.  The other specifications have no fairness and no liveness properties.

## 5. Proofs

Eight modules hold theorems.  Each proves an inductive invariant, the conjunction of
the checked properties with what they rest on, and takes the properties from it.
The assumptions are the named ASSUMEs of the modules, which TLC evaluates, unless
a hypothesis is named here; all hold for any number of threads, keys, blocks and
calls, and for every bound.

`FTLProofs` (`SizeAssumption`, `RequestAssumption`):

* `Invariance`: `Spec => []IInv`.  `IInv` adds to the checked invariants what
  holds in the middle of a copy (`EraseInv`): the victim is a good block at the
  end of the free list, the pages before `i` are no longer live, and the invalid
  page that made it a victim guarantees that its live pages fit into the rest of
  the current block and one more block.  Without it the unchecked `GetFreeBlock`
  of the copy loop could not be shown to succeed.
* `Safety` (type, `MappingConsistent`, exact counters, sound free list, fresh write
  pointer), `LifeCycle` (the action property `PageLifeCycle`) and `ImplementsDisk`
  (refinement of `LogicalDisk`) follow from it.
* `SlackSufficesHolds`: collection fails only when the flash is too full.  `FullInv`
  says that a block which is neither free nor being written has no free page, and
  `DividerInv` that the divider is 0 only after a round in which any invalid page
  would have made its block a victim.  When collection dies, every page of such a
  block is therefore valid, and the map from these pages to their clusters is
  injective, so they are at most as many as the clusters written.

`WiscKeyProofs`, with the hypothesis `~PutMayFail` (section 6 says why it is
needed):

* `IndexAlwaysConsistent`, `LogAlwaysWhole` and `ImplementsIndex`, from `WInv`:
  the checked invariants with two bounds, one that ties the length of the log to
  the number of sets and one that keeps offsets inside the log.

`DBImplProofs` (the assumptions of `DBImpl`; every operation may fail):

* `WriteAheadHolds`, `SyncedSurviveHolds`, `AckedVisibleHolds` and the action
  property `ErrorStopsWritesHolds`.  Only the front of the queue is past its wait
  (`QueueInv`), so the group it logs stays as it was built while the mutex is
  released and others join the queue (`LeaderInv`).  A memtable and its log are
  switched together and dropped together (`LogInv`), so the group reaches the log
  of `mem_` before it reaches `mem_` (`GroupInv`); only then is it answered, and
  what is stored was answered once (`StoreInv`, `AckInv`).

`DBLockProofs` (`CallerAssumption`, `InodeAssumption`, `NobodyAssumption`):

* `LockExcludesHolds` and `OpenKeepsFilesHolds`.  Callers of one process are kept
  apart by `TableInv` alone (a name in the table has one caller behind it); all
  others by `LockInv`: while nothing was disturbed every descriptor refers to the
  file now called LOCK, and the process of a holder owns its lock.

`FlashOpsProofs` (`FlashOpsAssumption`):

* `FlushReadsSafeHolds`, `ReadsNearTableHolds` and `ReadsSucceedHolds`.  A read
  record is replayed long after it was made, so `TraceInv` follows the record
  through the trace: the table that a `Get` found had its range recorded earlier
  (`RangesTraced`), the record of the write is before that of the read
  (`ReadsFollow`), and what the replay has passed is mapped (`PassedMapped`).
  `MutexInv` says who holds which mutex, `TablesInv` that a file number is used
  once, and `OwnInv` that a table is named only for keys it was built from and for
  what a cut left of them.  The tag begins with the byte of the type, which no
  user key contains, and has at most eight more; a recorded name that is a user
  key therefore ends before the tag, at most four characters short of the key
  (`TagFacts`, `FlushedName`, `OwnName`).

`MemTableProofs` (`MemTableAssumption`):

* `NoTornNodeHolds`, `LandedRightHolds`, `GetNewestHolds`.  `LinkInv` says that
  every link of every level goes to the nearest following node of that level and
  that the levels are nested; `InsertInv` says how far the insertion in progress
  has linked its node and that the predecessors found before are still the right
  ones; `ReaderInv` is the loop invariant of the lock-free search, with any height
  the list ever had; `GetInv` says that a reader's entries were all linked when it
  started.

`LogProofs` (`LogAssumption`):

* `NothingInventedHolds`, for every block and header size, number and length of
  records and starting offset.  The writer's half of the invariant says that a cell
  of the file is fill, damaged, or a cell of one of the physical records in
  `emitted` (`CellInv`), that these lie one behind the other in the order of the
  data they carry (`OrderInv`), and that a continuation lies directly behind the
  whole fragment it continues (`ContInv`).  A fragment that is not empty and passes
  the checksum is then one of them, and the reader stands where it starts.  The
  reader's half says that what was collected is what the next acceptable
  continuation continues (`ScratchInv`), and that what is still to be read is later
  than everything returned (`OutInv`).  An empty first fragment is the exception:
  the reader may find its checksum inside a torn header, and the position of the
  block's end (`AlignInv`) shows that no continuation can follow it there.

* `AckedRecordsReadHolds` and `DamageIsLocalHolds`, from a second invariant,
  `CompleteInv`, which says that nothing is lost.  While nothing was appended behind
  half a physical record, the physical records tile the blocks (`BlocksInv`,
  `TilingInv`), a record is acknowledged exactly when its last physical record is in
  the file (`AckedInv`), only the last record of a log that was never reused may be
  abandoned (`UnbrokenInv`), and every cell but the damaged one is on disk
  (`WrittenInv`).  The reader's buffer is the rest of a block or of the file
  (`RestInv`); outside the damaged block it stands at the start of a physical record
  (`StandInv`), the parts before a continuation that should be returned were
  collected (`CollectedInv`), every record that ends before the reader and has no
  part in the damaged block was returned (`ReturnedInv`), and a reader from the start
  of an undamaged log that was never reused has reported nothing (`SilentInv`).

`DBIterProofs` (`DBIterAssumption`: user keys are numbers, and there is a largest):

* `IteratorRightHolds` and `MergeHolds`, in three layers.  A child, be it a set of
  entries or a level of files, goes to the first or last of its entries beyond a
  key (`ChildSeekFirst`, `ChildNextFirst`, `ChildPrevLast`).  Then `MergeOK`: the
  children that are not current are beyond the current key in the direction of the
  merge, and no entry that the snapshot sees lies in between; a write may add
  entries there, but none that the snapshot sees.  It is this clause that a change
  of direction must restore (`MergeNextMoves`, `MergePrevMoves`).  On top, the
  three loops of `DBIter` have an invariant each, over what is left to visit
  (`Onward`, `Behind`): `FwdOK` says that the newest entry of the key looked for is
  still ahead and everything before it is hidden, `BackOK` that every entry before
  the old key is still behind, `RevOK` that the saved entry is the last one passed.
  Smallest and largest elements exist by a least-number argument (`LeastNat`, from
  the well-foundedness of the naturals).

The type invariants and the small parts of the inductive invariants are proved and
not run.  What is only model-checked, and why:

* liveness (`RequestsFinish`, `CallsReturn`, `QuietExit`): out of this prover's
  reach;
* `LevelsDisjoint` and `ReadsCorrect` of `LSM`: they do not hold for every load
  (`GapLoad`, run `lsm_split_key`);
* `SSTable`, `Coding` and `Simulator`: what they say is the result
  of a recursive or iterated computation over sequences, which needs induction over
  data; `SSTable` and the schemes declare RECURSIVE operators;
* `Cache` and `Recovery`: state machines whose steps fold over sequences of handles,
  records and files; not proved so far.

## 6. Where the code falls short of what one would expect

These are behaviours of the code that the models show when the bounds or
parameters named here allow them.  The properties say what holds beside them.

* FTL.  Writing all advertised clusters makes garbage collection double its
  divider to 0 and divide by it (`Flash/FTL.c:160-184`): the FTL needs slack that
  `MaxCluster` does not reserve.  `SlackSuffices` says how much is enough.
* WiscKey.  `wisckey_set` does not store its value: the log holds the text
  `offset&&32` (`wisckey_test.cc:218`).  A set after a get of an older key
  overwrites the next record, because both use one FILE position (`:208`).  A
  failed `Put` or `Delete` leaves an address of freed memory in LevelDB
  (`lab2_common.h:95`, reachable with `PutMayFail`).
* LSM.  With a snapshot a user key can be split over two files of a level;
  compacting the newer half alone puts it below the older half, and `Get` returns
  the old value (`db/version_set.cc:1310`; run `lsm_split_key`).  A memtable
  flushed into the gap between the inputs of a manual compaction makes the output
  level overlap (`db/version_set.cc:502`; put `GapLoad` for `BothLoads` in
  `MCLSM.cfg`).
* DBLock.  `LockFile` opens LOCK before it looks into its table, and the close
  after a refusal gives up the lock that the process holds: a second `Open` in the
  same process, which fails, lets another process in (`util/env_posix.cc:436`;
  `OneProcess` states what doc/index.html promises and is violated).  The same close in `UnlockFile`, and `DestroyDB`'s deletion of
  LOCK after it has unlocked it (`db/db_impl.cc:1960`), lose a lock that somebody
  took in between.
* DBImpl.  An unrelated error lets `TEST_CompactRange` cancel its request while the
  background thread works for it; the thread then dereferences NULL
  (`db/db_impl.cc:978`, the state `crashed`, which `CallsReturn` allows).
* FlashOps.  `WritewithFTL` takes the recorded page counts for sectors, so tables
  share clusters.  A merge output recorded after a flush inside the merge replaces
  the newer entry of `KeySSTableMap`; a failed flush still records its keys.
  A flush records a key without its last four characters, tag included, and what
  is left may be another user key: the sequence number 131100 has a zero byte, so
  `key_v_131100` written with it is recorded as `key_v_1311`, and a `Get` of
  `key_v_1311` (the workload of `wisckey_test.cc:331` has both) is traced to a
  table without it (`db/db_impl.cc:672`).  `ReadsNearTable` says how far a `Get`
  can be led astray.
  `main` leaves the replay loop with `FTL_mutex` locked, so background work that
  is still scheduled waits for ever and so does `close_wisckey`
  (`wisckey_test.cc:558`).  An iterator of `Operations` is kept across `unlock`
  while `push_back` may reallocate.  A `Get` in the window of a compaction output
  reads the first element of an empty vector (`db/db_impl.cc:1093`).
* Recovery.  `NewDB` and `RepairDB` do not sync MANIFEST-000001; a crash soon after
  the first `Open` makes the next one fail, and `OpenSucceeds` excepts it.  The log
  is closed without a sync at a memtable switch, so a crash may lose an earlier
  write and keep a later one of the next log; `PrefixOfLog` is about one log.
  `RepairDB` takes no lock, an interrupted one must be run again, and repairing a
  directory that has only a MANIFEST starts file numbers at 1.
* Other schemes.  `StripeEraseOneBlock` puts the victim on the free list before its
  pages have moved; with STRIPE_DYNAMIC a nested collection hands it out un-erased
  and data is lost after seven requests (`Flash/STRIPE.c:394`), so `ReadsNewest`
  leaves that scheme out, and of its free list `ListsSound` says only that no
  block is in it twice and that the counts per chip agree.  `StopsOnlyWhenFull`
  claims nothing of it and of DFTL.  BL resets a block's count of valid pages only
  when the block is taken again and DFTL never counts it down.  STRIPE_STATIC's divider can overflow,
  NFTL's collector can divide by zero, and chip erase counts are indexed by
  `BlockID % ChipNumber` and sorted by one pass.  DFTL leaks the reserve block of
  a collection until it exits, does not reset `LruOffset` on eviction, calls
  `RemoveElemenetFromLRUListD` with position -1, and does not take its own table
  blocks out of `MaxCluster`.  Bad blocks are not subtracted from
  `BlocksInFreeBlockListArray`.

What the properties do not say.  `LSM` reads are atomic; `Get`'s own release of
the mutex is harmless because it holds references to immutable versions, but that
is an argument, not a check.  `compacted` is a plain `bool` shared by two threads;
its only reader runs a collector that never collects.  Checksum and Bloom-filter
collisions of real hashes, and memory ordering weaker than what `MemTable` allows
(stale heights, links published in order), are not considered.

## 7. Plan

1. Proofs: `RefsExact` and `RightBlock` of `Cache`; `SequenceOrder` and
   `BatchWhole` of `Recovery`; disjoint levels of `LSM` for loads without manual
   compactions.
2. `CompactRange` over all levels, seek statistics and read sampling.

## 8. Not modelled

`BEYONDADDR` and `FAST` are not in any build file; the first keeps sub-page state
that no other part shares.  `LRUListSRAM` serves only them, and `FTL.cc` is a copy
of `FTL.c` that is not compiled.  `memenv` and the ports: mutexes, condition
variables and atomic pointers are primitives of the models.  The logger and the
clock keep no state of the database.  `Recovery` and `DBImpl` assume that one
caller has the database open, which `DBLock` is about.  The arena: nodes live as
long as their memtable.  `crc32c` and `hash` are pure functions with unit tests.  Statistics, output, benchmarks, tools, the C
binding, `leveldb_test` and the test programs keep no state of the system.
