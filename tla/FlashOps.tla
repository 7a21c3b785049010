------------------------------ MODULE FlashOps ------------------------------
(***************************************************************************)
(* The hooks that tie the LSM tree to the flash simulator, in db_impl.cc   *)
(* and in main of wisckey_test.cc.                                         *)
(*                                                                         *)
(* Every table that the background thread finishes is given a range of     *)
(* pages, entered into KeySSTableMap (key -> table) and SSTableClusterMap  *)
(* (table -> range), and traced as a write in the vector Operations; a Get *)
(* traces a read of the range of the table its key is entered under.  When *)
(* the workload is over main replays Operations into WritewithFTL while    *)
(* the background thread may still be at work.                             *)
(*                                                                         *)
(* Two threads: main, and the background thread with its flush and its     *)
(* compaction (a flush may run inside a compaction).  Table_mutex is never *)
(* held across a step.  mutex_ is held by a flush from the end of          *)
(* BuildTable to its install and by a Get, FTL_mutex for ever once the     *)
(* replay loop has left by its break.  The two loops over keys are one     *)
(* step each: a Get between two iterations meets what it meets before or   *)
(* after the loop.                                                         *)
(***************************************************************************)
EXTENDS Integers, Sequences, FiniteSets, FiniteSetsExt

CONSTANTS
    Keys,            \* user keys, sequences of bytes
    FirstSequence,   \* the last sequence number when the program starts
    ByteValues,      \* values of a byte of the tag (256)
    PageToLBARatio,  \* sectors in a page
    EntrySize, PageSize, \* of an entry of a table and of a page
    MemLimit,        \* entries that fill a memtable
    MaxPuts, MaxGets, \* bounds: calls of the workload
    MaxTables        \* bound: no compaction starts once so many tables were made

kTypeValue == 1      \* the type of a Put, the first byte of its tag
kSequenceBytes == 7  \* the bytes of a sequence number

\* The workload's keys are printable.
ASSUME KeyAssumption == Keys \subseteq Seq(Nat \ {0, kTypeValue})
ASSUME FlashOpsAssumption ==
    /\ FirstSequence \in Nat /\ ByteValues \in Nat \ {0, 1}
    /\ PageToLBARatio \in Nat \ {0} 
    /\ EntrySize \in Nat /\ PageSize \in Nat \ {0}
    /\ MemLimit \in Nat \ {0} /\ MaxPuts \in Nat /\ MaxGets \in Nat /\ MaxTables \in Nat

VARIABLES
    mem, imm,           \* entries of the memtables; imm = {} stands for NULL
    live,               \* numbers of the tables of the current version
    contents,           \* number -> keys ever written to the table
    KeySSTableMap,      \* recorded key -> number, 0 by default
    SSTableClusterMap,  \* number -> <<start, length>>
    CurrentCluster,     \* the next page to give out
    Operations,         \* the trace
    capacity,           \* of the vector Operations
    mutex_, FTL_mutex,  \* "free" or the thread that keeps it
    main,               \* where main is
    lookup,             \* the key and SSTableNum of the Get under way
    iter,               \* main's iterator: its index, and whether it is valid
    mapped, failed,     \* clusters the FTL maps; has a replayed read failed?
    flush, compact,     \* the flush and the compaction under way
    bgError, scheduled, \* bg_error_, bg_compaction_scheduled_
    calls               \* Put and Get calls made

treeVars  == <<mem, imm, live, contents>>
traceVars == <<KeySSTableMap, SSTableClusterMap, CurrentCluster, Operations, capacity>>
replayVars == <<iter, mapped, failed>>
bgVars    == <<flush, compact, bgError, scheduled>>
vars == <<treeVars, traceVars, mutex_, FTL_mutex, main, lookup, replayVars, bgVars, calls>>

NoTable == 0
NoFlush == [pc |-> "none", number |-> NoTable, pages |-> 0, start |-> 0, ok |-> TRUE]
NoCompaction == [pc |-> "none", inputs |-> {}, rest |-> <<>>, keyvalues |-> <<>>,
                 output |-> {}, number |-> NoTable, pages |-> 0, start |-> 0, outputs |-> {}]

-----------------------------------------------------------------------------
(* Names of keys.  An internal key is the user key and a tag of eight      *)
(* bytes: the type, 0 for a deletion, then the sequence number, least byte *)
(* first.  Read as a C string it ends before its first zero byte.          *)

Byte(s, i) == (s \div ByteValues ^ (i - 1)) % ByteValues
LowBytes(s) == {i \in 1 .. kSequenceBytes : \A j \in 1 .. i : Byte(s, j) # 0}
TagString(e) ==
    IF e.type = "delete" THEN <<>>
    ELSE <<kTypeValue>> \o [i \in 1 .. Cardinality(LowBytes(e.seq)) |-> Byte(e.seq, i)]

\* The last four characters are cut off, be they of the tag or of the user key;
\* strlen - 4 wraps around for a shorter string, which stays whole.
FlushedKey(e) ==
    LET t == e.key \o TagString(e)
    IN  IF Len(t) < 4 THEN t ELSE SubSeq(t, 1, Len(t) - 4)

\* file_size/PageSize: what is left of a page is not counted.
Pages(entries) == (Cardinality(entries) * EntrySize) \div PageSize

Used == DOMAIN contents
NewFileNumber == IF Used = {} THEN 1 ELSE Max(Used) + 1
RecordKeys(names, number) ==
    KeySSTableMap' = [n \in DOMAIN KeySSTableMap \cup names |->
                        IF n \in names THEN number ELSE KeySSTableMap[n]]

-----------------------------------------------------------------------------
(* The trace.  push_back moves the elements when the vector is full, which *)
(* invalidates main's iterator.                                            *)

PushBack(op) ==
    LET full == Len(Operations) = capacity
    IN  /\ Operations' = Append(Operations, op)
        /\ capacity' = IF full THEN (IF capacity = 0 THEN 1 ELSE 2 * capacity) ELSE capacity
        /\ iter' = [iter EXCEPT !.valid = @ /\ ~full]

Operation(type, range) == [AccessType |-> type, StartCluster |-> range[1], Length |-> range[2]]

(* What WritewithFTL makes of an operation: it takes the pages for sectors.*)
TruncDiv(n, d) == IF n >= 0 THEN n \div d ELSE -((-n) \div d)
Clusters(op) == TruncDiv(op.StartCluster, PageToLBARatio)
                .. TruncDiv(op.StartCluster - 1 + op.Length, PageToLBARatio)

-----------------------------------------------------------------------------
Init ==
    /\ mem = {} /\ imm = {} /\ live = {} /\ contents = <<>>
    /\ KeySSTableMap = <<>> /\ SSTableClusterMap = <<>>
    /\ CurrentCluster = 0 /\ Operations = <<>> /\ capacity = 0
    /\ mutex_ = "free" /\ FTL_mutex = "free"
    /\ main = "workload" /\ lookup = [key |-> CHOOSE k \in Keys : TRUE, number |-> NoTable]
    /\ iter = [pos |-> 0, valid |-> FALSE] /\ mapped = {} /\ failed = FALSE
    /\ flush = NoFlush /\ compact = NoCompaction /\ bgError = FALSE /\ scheduled = FALSE
    /\ calls = [put |-> 0, get |-> 0]

(* main: the workload.                                                     *)

\* Put and Delete.  A full memtable becomes imm_ once the last imm_ is gone.
Write(k, type) ==
    LET e == [key |-> k, seq |-> FirstSequence + calls.put + 1, type |-> type]
        full == Cardinality(mem) >= MemLimit
    IN  /\ main = "workload" /\ mutex_ = "free" /\ ~bgError
        /\ calls.put < MaxPuts
        /\ full => imm = {}
        /\ mem' = IF full THEN {e} ELSE mem \cup {e}
        /\ imm' = IF full THEN mem ELSE imm
        /\ scheduled' = (scheduled \/ full)
        /\ calls' = [calls EXCEPT !.put = @ + 1]
        /\ UNCHANGED <<live, contents, traceVars, mutex_, FTL_mutex, main, lookup,
                       replayVars, flush, compact, bgError>>

\* Get: after the lookup, with mutex_ held, the table the key is entered under.
\* The lookup may have used up the seeks of a file.
GetTable(k, seek) ==
    LET names == DOMAIN KeySSTableMap \cup {k}
        map == [n \in names |-> IF n \in DOMAIN KeySSTableMap THEN KeySSTableMap[n] ELSE NoTable]
    IN  /\ main = "workload" /\ mutex_ = "free"
        /\ calls.get < MaxGets
        /\ KeySSTableMap' = map
        /\ lookup' = [key |-> k, number |-> map[k]]
        /\ main' = "get" /\ mutex_' = "main"
        /\ scheduled' = (scheduled \/ (seek /\ ~bgError))
        /\ calls' = [calls EXCEPT !.get = @ + 1]
        /\ UNCHANGED <<treeVars, SSTableClusterMap, CurrentCluster, Operations, capacity,
                       FTL_mutex, replayVars, flush, compact, bgError>>

\* ... and, under FTL_mutex, its range.  A table without a range has an empty
\* vector there, and temp[0] reads through a null pointer.
GetRange ==
    /\ main = "get" /\ FTL_mutex = "free"
    /\ IF lookup.number \in DOMAIN SSTableClusterMap
       THEN PushBack(Operation("read", SSTableClusterMap[lookup.number])) /\ main' = "workload"
       ELSE /\ main' = IF lookup.number = NoTable THEN "workload" ELSE "crashed"
            /\ UNCHANGED <<Operations, capacity, iter>>
    /\ mutex_' = "free"
    /\ UNCHANGED <<treeVars, KeySSTableMap, SSTableClusterMap, CurrentCluster, FTL_mutex,
                   lookup, mapped, failed, bgVars, calls>>

(* main: the replay.                                                       *)

StartReplay ==
    /\ main = "workload" /\ FTL_mutex = "free"
    /\ main' = "replay" /\ iter' = [pos |-> 1, valid |-> TRUE]
    /\ UNCHANGED <<treeVars, traceVars, mutex_, FTL_mutex, lookup, mapped, failed, bgVars, calls>>

\* Mutant: the else branch keeps FTL_mutex.
ReplayOneLocked ==
    LET op == Operations[iter.pos]
    IN  /\ main = "replay" /\ FTL_mutex = "free" /\ iter.valid
        /\ iter.pos <= Len(Operations)
        /\ mapped' = IF op.AccessType = "write" THEN mapped \cup Clusters(op) ELSE mapped
        /\ failed' = (failed \/ (op.AccessType = "read" /\ ~(Clusters(op) \subseteq mapped)))
        /\ iter' = [iter EXCEPT !.pos = @ + 1]
        /\ FTL_mutex' = "main"
        /\ UNCHANGED <<treeVars, traceVars, mutex_, main, lookup, bgVars, calls>>

\* One operation: a write maps its clusters, a read fails at an unmapped one.
ReplayOne ==
    LET op == Operations[iter.pos]
    IN  /\ main = "replay" /\ FTL_mutex = "free" /\ iter.valid
        /\ iter.pos <= Len(Operations)
        /\ mapped' = IF op.AccessType = "write" THEN mapped \cup Clusters(op) ELSE mapped
        /\ failed' = (failed \/ (op.AccessType = "read" /\ ~(Clusters(op) \subseteq mapped)))
        /\ iter' = [iter EXCEPT !.pos = @ + 1]
        /\ UNCHANGED <<treeVars, traceVars, mutex_, FTL_mutex, main, lookup, bgVars, calls>>

\* An iterator that a push_back invalidated points into freed memory.
ReplayDangling ==
    /\ main = "replay" /\ FTL_mutex = "free" /\ ~iter.valid
    /\ main' = "crashed"
    /\ UNCHANGED <<treeVars, traceVars, mutex_, FTL_mutex, lookup, replayVars, bgVars, calls>>

\* At the end the loop breaks with FTL_mutex locked.
ReplayEnd ==
    /\ main = "replay" /\ FTL_mutex = "free" /\ iter.valid
    /\ iter.pos = Len(Operations) + 1
    /\ FTL_mutex' = "main" /\ main' = "closing"
    /\ UNCHANGED <<treeVars, traceVars, mutex_, lookup, replayVars, bgVars, calls>>

\* close_wisckey: the destructor asks the background thread to stop ...
Close ==
    /\ main = "closing" /\ mutex_ = "free"
    /\ main' = "closed"
    /\ UNCHANGED <<treeVars, traceVars, mutex_, FTL_mutex, lookup, replayVars, bgVars, calls>>

\* ... and waits for it.
Exit ==
    /\ main = "closed" /\ mutex_ = "free"
    /\ ~scheduled
    /\ main' = "exited"
    /\ UNCHANGED <<treeVars, traceVars, mutex_, FTL_mutex, lookup, replayVars, bgVars, calls>>

-----------------------------------------------------------------------------
(* The background thread: a flush.                                         *)

Running == main \notin {"crashed", "exited"}
ShuttingDown == main = "closed"

\* The end of BackgroundCall: MaybeScheduleCompaction, if nothing forbids it.
Reschedule(again) ==
    scheduled' = (again /\ ~ShuttingDown /\ ~bgError')

\* BackgroundCall with nothing to do, or nothing it may do.
BackgroundIdle ==
    /\ Running /\ scheduled /\ mutex_ = "free"
    /\ flush.pc = "none" /\ compact.pc = "none"
    /\ ShuttingDown \/ bgError \/ imm = {}
    /\ scheduled' = FALSE
    /\ UNCHANGED <<treeVars, traceVars, mutex_, FTL_mutex, main, lookup, replayVars, flush,
                   compact, bgError, calls>>

\* CompactMemTable, of BackgroundCompaction or of the loop of a compaction,
\* which tries again after an error (MaxTables bounds how often).
FlushStart ==
    /\ Running /\ scheduled /\ mutex_ = "free" /\ imm # {} /\ flush.pc = "none"
    /\ ~ShuttingDown
    /\ \/ compact.pc = "none" /\ ~bgError
       \/ compact.pc = "merge" /\ compact.rest # <<>>
          /\ (bgError => Cardinality(Used) < MaxTables)
    /\ flush' = [NoFlush EXCEPT !.pc = "build", !.number = NewFileNumber]
    /\ contents' = [n \in Used \cup {NewFileNumber} |->
                      IF n \in Used THEN contents[n] ELSE {e.key : e \in imm}]
    /\ UNCHANGED <<mem, imm, live, traceVars, mutex_, FTL_mutex, main, lookup, replayVars,
                   compact, bgError, scheduled, calls>>

\* Mutant: mutex_ is taken again only after the hooks.
FlushKeysUnlocked(ok) ==
    /\ Running /\ flush.pc = "build" /\ mutex_ = "free"
    /\ RecordKeys({FlushedKey(e) : e \in imm}, flush.number)
    /\ flush' = [flush EXCEPT !.pc = "alloc", !.pages = Pages(imm), !.ok = ok]
    /\ UNCHANGED <<treeVars, SSTableClusterMap, CurrentCluster, Operations, capacity, mutex_,
                   FTL_mutex, main, lookup, replayVars, compact, bgError, scheduled, calls>>

\* BuildTable ends, well or not, and the keys are recorded with mutex_ held.
FlushKeys(ok) ==
    /\ Running /\ flush.pc = "build" /\ mutex_ = "free"
    /\ mutex_' = "background"
    /\ RecordKeys({FlushedKey(e) : e \in imm}, flush.number)
    /\ flush' = [flush EXCEPT !.pc = "alloc", !.pages = Pages(imm), !.ok = ok]
    /\ UNCHANGED <<treeVars, SSTableClusterMap, CurrentCluster, Operations, capacity, FTL_mutex,
                   main, lookup, replayVars, compact, bgError, scheduled, calls>>

Allocate(pages) == CurrentCluster' = CurrentCluster + pages

FlushAllocate ==
    /\ Running /\ flush.pc = "alloc" /\ FTL_mutex = "free"
    /\ Allocate(flush.pages)
    /\ flush' = [flush EXCEPT !.pc = "enter", !.start = CurrentCluster]
    /\ UNCHANGED <<treeVars, KeySSTableMap, SSTableClusterMap, Operations, capacity, mutex_,
                   FTL_mutex, main, lookup, replayVars, compact, bgError, scheduled, calls>>

\* The range of a table and the write of it, in one critical section.
Enter(number, start, pages) ==
    /\ SSTableClusterMap' = [n \in DOMAIN SSTableClusterMap \cup {number} |->
                               IF n = number THEN <<start, pages>> ELSE SSTableClusterMap[n]]
    /\ PushBack(Operation("write", <<start, pages>>))

FlushEnter ==
    /\ Running /\ flush.pc = "enter" /\ FTL_mutex = "free"
    /\ Enter(flush.number, flush.start, flush.pages)
    /\ flush' = [flush EXCEPT !.pc = "install"]
    /\ UNCHANGED <<treeVars, KeySSTableMap, CurrentCluster, mutex_, FTL_mutex, main, lookup,
                   mapped, failed, compact, bgError, scheduled, calls>>

\* The rest of CompactMemTable: the version edit, or the error.
FlushInstall(more) ==
    LET good == flush.ok /\ ~ShuttingDown
    IN  /\ Running /\ flush.pc = "install"
        /\ live' = IF good THEN live \cup {flush.number} ELSE live
        /\ imm' = IF good THEN {} ELSE imm
        /\ bgError' = (bgError \/ ~good)
        /\ flush' = NoFlush /\ mutex_' = "free"
        /\ IF compact.pc = "none" THEN Reschedule(more) ELSE UNCHANGED scheduled
        /\ UNCHANGED <<mem, contents, traceVars, FTL_mutex, main, lookup, replayVars, compact, calls>>

-----------------------------------------------------------------------------
(* The background thread: a compaction.                                    *)

\* BytewiseComparator: a is less than b.
Less(a, b) == \E i \in 1 .. Len(b) :
    /\ \A j \in 1 .. i - 1 : j <= Len(a) /\ a[j] = b[j]
    /\ i > Len(a) \/ a[i] < b[i]

\* The keys of the inputs in the order of the merging iterator.
KeysInOrder(inputs) ==
    LET ks == UNION {contents[n] : n \in inputs}
    IN  CHOOSE s \in [1 .. Cardinality(ks) -> ks] :
          \A i, j \in 1 .. Cardinality(ks) : i < j => Less(s[i], s[j])

CompactStart(inputs) ==
    /\ Running /\ scheduled /\ ~ShuttingDown /\ mutex_ = "free" /\ ~bgError
    /\ flush.pc = "none" /\ compact.pc = "none" /\ imm = {}
    /\ Cardinality(Used) < MaxTables
    /\ compact' = [NoCompaction EXCEPT !.pc = "merge", !.inputs = inputs,
                                       !.rest = KeysInOrder(inputs)]
    /\ UNCHANGED <<treeVars, traceVars, mutex_, FTL_mutex, main, lookup, replayVars, flush,
                   bgError, scheduled, calls>>

\* Mutant: a dropped key is noted in keyvalues too.
CompactKeyNoting(drop) ==
    LET k == Head(compact.rest)
        first == compact.number = NoTable
        number == IF first THEN NewFileNumber ELSE compact.number
    IN  /\ Running /\ flush.pc = "none"
        /\ compact.pc = "merge" /\ compact.rest # <<>>
        /\ first /\ ~drop => mutex_ = "free"
        /\ IF drop
           THEN /\ compact' = [compact EXCEPT !.rest = Tail(@), !.keyvalues = Append(@, k)]
                /\ UNCHANGED contents
           ELSE /\ compact' = [compact EXCEPT !.rest = Tail(@), !.number = number,
                                  !.keyvalues = Append(@, k), !.output = @ \cup {k}]
                /\ contents' = [n \in Used \cup {number} |->
                                  IF n = number THEN compact.output \cup {k} ELSE contents[n]]
        /\ UNCHANGED <<mem, imm, live, traceVars, mutex_, FTL_mutex, main, lookup, replayVars,
                       flush, bgError, scheduled, calls>>

\* One key of the loop of DoCompactionWork: dropped, or added to the output.
CompactKey(drop) ==
    LET k == Head(compact.rest)
        first == compact.number = NoTable
        number == IF first THEN NewFileNumber ELSE compact.number
    IN  /\ Running /\ flush.pc = "none"
        /\ compact.pc = "merge" /\ compact.rest # <<>>
        /\ first /\ ~drop => mutex_ = "free"
        /\ IF drop
           THEN compact' = [compact EXCEPT !.rest = Tail(@)] /\ UNCHANGED contents
           ELSE /\ compact' = [compact EXCEPT !.rest = Tail(@), !.number = number,
                                  !.keyvalues = Append(@, k), !.output = @ \cup {k}]
                /\ contents' = [n \in Used \cup {number} |->
                                  IF n = number THEN compact.output \cup {k} ELSE contents[n]]
        /\ UNCHANGED <<mem, imm, live, traceVars, mutex_, FTL_mutex, main, lookup, replayVars,
                       flush, bgError, scheduled, calls>>

\* FinishCompactionOutputFile up to the recorded keys, without mutex_.
FinishKeys ==
    /\ Running /\ flush.pc = "none"
    /\ compact.pc = "merge" /\ compact.number # NoTable
    /\ RecordKeys({compact.keyvalues[i] : i \in DOMAIN compact.keyvalues},
                  compact.number)
    /\ compact' = [compact EXCEPT !.pc = "alloc", !.pages = Pages(compact.output)]
    /\ UNCHANGED <<treeVars, SSTableClusterMap, CurrentCluster, Operations, capacity, mutex_,
                   FTL_mutex, main, lookup, replayVars, flush, bgError, scheduled, calls>>

\* Mutant: the range of the table is entered before the write of it is traced.
FinishAllocateEntering ==
    /\ Running /\ compact.pc = "alloc" /\ FTL_mutex = "free"
    /\ Allocate(compact.pages)
    /\ SSTableClusterMap' = [n \in DOMAIN SSTableClusterMap \cup {compact.number} |->
                               IF n = compact.number THEN <<CurrentCluster, compact.pages>>
                               ELSE SSTableClusterMap[n]]
    /\ compact' = [compact EXCEPT !.pc = "enter", !.start = CurrentCluster]
    /\ UNCHANGED <<treeVars, KeySSTableMap, Operations, capacity, mutex_,
                   FTL_mutex, main, lookup, replayVars, flush, bgError, scheduled, calls>>

FinishAllocate ==
    /\ Running /\ compact.pc = "alloc" /\ FTL_mutex = "free"
    /\ Allocate(compact.pages)
    /\ compact' = [compact EXCEPT !.pc = "enter", !.start = CurrentCluster]
    /\ UNCHANGED <<treeVars, KeySSTableMap, SSTableClusterMap, Operations, capacity, mutex_,
                   FTL_mutex, main, lookup, replayVars, flush, bgError, scheduled, calls>>

FinishEnter ==
    /\ Running /\ compact.pc = "enter" /\ FTL_mutex = "free"
    /\ Enter(compact.number, compact.start, compact.pages)
    /\ compact' = [compact EXCEPT !.pc = "merge", !.output = {}, !.number = NoTable,
                                  !.outputs = @ \cup {compact.number}, !.keyvalues = <<>>]
    /\ UNCHANGED <<treeVars, KeySSTableMap, CurrentCluster, mutex_, FTL_mutex, main, lookup,
                   mapped, failed, flush, bgError, scheduled, calls>>

\* The table fails to be written: no hook runs, and the compaction ends.
FinishFails ==
    /\ Running /\ flush.pc = "none" /\ mutex_ = "free"
    /\ compact.pc = "merge" /\ compact.number # NoTable
    /\ compact' = NoCompaction /\ bgError' = TRUE /\ scheduled' = FALSE
    /\ UNCHANGED <<treeVars, traceVars, mutex_, FTL_mutex, main, lookup, replayVars, flush, calls>>

\* InstallCompactionResults, once every key is merged and every output finished.
CompactInstall(more) ==
    /\ Running /\ mutex_ = "free" /\ flush.pc = "none"
    /\ compact.pc = "merge" /\ compact.rest = <<>> /\ compact.number = NoTable
    /\ live' = (live \ compact.inputs) \cup compact.outputs
    /\ compact' = NoCompaction
    /\ UNCHANGED <<mem, imm, contents, traceVars, mutex_, FTL_mutex, main, lookup, replayVars,
                   flush, bgError, calls>>
    /\ Reschedule(more \/ imm # {})

\* The loop sees shutting_down_: the compaction is given up.
CompactStop ==
    /\ ShuttingDown /\ mutex_ = "free" /\ flush.pc = "none" /\ compact.pc = "merge"
    /\ compact' = NoCompaction /\ bgError' = TRUE /\ scheduled' = FALSE
    /\ UNCHANGED <<treeVars, traceVars, mutex_, FTL_mutex, main, lookup, replayVars, flush, calls>>

-----------------------------------------------------------------------------
MainReplay == StartReplay \/ ReplayOne \/ ReplayDangling \/ ReplayEnd \/ Close \/ Exit
Main ==
    \/ \E k \in Keys, type \in {"value", "delete"} : Write(k, type)
    \/ \E k \in Keys, seek \in BOOLEAN : GetTable(k, seek)
    \/ GetRange
    \/ MainReplay

Background ==
    \/ FlushStart \/ FlushAllocate \/ FlushEnter \/ BackgroundIdle
    \/ \E more \in BOOLEAN : FlushInstall(more) \/ CompactInstall(more)
    \/ \E ok \in BOOLEAN : FlushKeys(ok)
    \/ \E inputs \in (SUBSET live) \ {{}} : CompactStart(inputs)
    \/ \E drop \in BOOLEAN : CompactKey(drop)
    \/ FinishKeys \/ FinishAllocate \/ FinishEnter \/ FinishFails \/ CompactStop

Next == Main \/ Background

\* Both threads are runnable by the operating system; main's program is finite.
Spec == Init /\ [][Next]_vars /\ WF_vars(MainReplay) /\ WF_vars(GetRange) /\ WF_vars(Background)

-----------------------------------------------------------------------------
\* A replayed read finds every cluster it names mapped: the trace holds the
\* write of a table before any read of it, and reads and writes are cut into
\* clusters alike (FailedReadOperation of WritewithFTL stays 0).
ReadsSucceed == ~failed

\* The name k may be what is left of the key l.
CutFrom(k, l) == Len(l) - Len(k) \in 0 .. 4 /\ SubSeq(l, 1, Len(k)) = k

\* A Get may be sent to a table without its key, for a name that
\* WriteLevel0Table has cut may be another user key (db_impl.cc:672); but then
\* the table holds, or held, a key of at most four more characters of which the
\* Get's key is the beginning.  Keys of one length are never confused.
ReadsNearTable ==
    main = "get" /\ lookup.number # NoTable =>
        \E l \in contents[lookup.number] : CutFrom(lookup.key, l)

\* A Get dies of a missing range only in the window that a compaction output
\* leaves open without mutex_ (db_impl.cc:1086-1100); a flush, which records
\* its table with mutex_ held, never exposes it, nor does a failed one.
FlushReadsSafe ==
    main = "get" /\ lookup.number # NoTable =>
        \/ lookup.number \in DOMAIN SSTableClusterMap
        \/ compact.pc \in {"alloc", "enter"} /\ compact.number = lookup.number

\* If no background work is scheduled while main replays, the replay comes to
\* its end and the program exits, although FTL_mutex stays locked.
QuietExit ==
    (main = "replay" /\ iter.valid /\ ~scheduled) ~> (main = "exited")
=============================================================================
