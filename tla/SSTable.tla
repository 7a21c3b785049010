------------------------------ MODULE SSTable ------------------------------
(***************************************************************************)
(* A table file: TableBuilder with its data, index and filter blocks, and  *)
(* the readers Table::InternalGet and the two-level iterator over index    *)
(* and data blocks.                                                        *)
(*                                                                         *)
(* An internal key is a sequence of bytes whose last element is the tag    *)
(* (sequence number and type).  Bytes are 0 .. FF.  An offset inside a     *)
(* block counts entries, an offset in the file counts units: one for an    *)
(* entry's header and value, one per key byte, one per restart point.      *)
(***************************************************************************)
EXTENDS Integers, Sequences, FiniteSets, SequencesExt, FiniteSetsExt

CONSTANTS
    Keys,                   \* internal keys that may be added
    Targets,                \* internal keys that are looked up
    FF,                     \* the largest byte
    MaxTag,                 \* PackSequenceAndType(kMaxSequenceNumber, kValueTypeForSeek)
    block_size,
    block_restart_interval,
    use_filter,             \* filter_policy != NULL
    kFilterBase,
    Hash(_), HashWidth, Rotation,    \* BloomHash and its rotation
    bits_per_key, kMinBits, k_,
    MaxEntries              \* bound: entries of a table

VARIABLES
    added,      \* keys passed to Add, in order
    r,          \* TableBuilder::Rep
    state,      \* "building", "kept", "deleted"
    damaged,    \* offsets of blocks whose checksum no longer matches
    it,         \* the TwoLevelIterator
    expect,     \* the entry it should be at (0: none)
    skipped     \* it has passed over entries of a damaged block

vars == <<added, r, state, damaged, it, expect, skipped>>

-----------------------------------------------------------------------------
(* Comparators.                                                             *)

ExtractUserKey(k) == Front(k)
Tag(k) == Last(k)
BytewiseLess(a, b) ==
    \E i \in 1 .. Len(b) : /\ i <= Len(a) + 1
                           /\ \A j \in 1 .. i - 1 : a[j] = b[j]
                           /\ i <= Len(a) => a[i] < b[i]
Less(a, b) ==
    LET ua == ExtractUserKey(a)
        ub == ExtractUserKey(b)
    IN  BytewiseLess(ua, ub) \/ (ua = ub /\ Tag(a) > Tag(b))
AtLeast(a, b) == ~Less(a, b)

SharedPrefix(a, b) ==
    Max({n \in 0 .. Min({Len(a), Len(b)}) : \A j \in 1 .. n : a[j] = b[j]})

\* Mutant: the separator may be the next key's prefix.
SeparatorTooLarge(start, limit) ==
    LET d == SharedPrefix(start, limit) + 1
    IN  IF d > Min({Len(start), Len(limit)}) \/ start[d] = FF \/ start[d] + 1 > limit[d]
        THEN start
        ELSE Append(SubSeq(start, 1, d - 1), start[d] + 1)
\* BytewiseComparatorImpl::FindShortestSeparator and FindShortSuccessor.
BytewiseSeparator(start, limit) ==
    LET d == SharedPrefix(start, limit) + 1
    IN  IF d > Min({Len(start), Len(limit)}) \/ start[d] = FF \/ start[d] + 1 >= limit[d]
        THEN start
        ELSE Append(SubSeq(start, 1, d - 1), start[d] + 1)
BytewiseSuccessor(key) ==
    LET small == {i \in DOMAIN key : key[i] # FF}
    IN  IF small = {} THEN key
        ELSE Append(SubSeq(key, 1, Min(small) - 1), key[Min(small)] + 1)

\* The internal versions keep the key unless its user part became shorter.
Shortened(key, tmp) ==
    IF Len(tmp) < Len(ExtractUserKey(key)) /\ BytewiseLess(ExtractUserKey(key), tmp)
    THEN Append(tmp, MaxTag) ELSE key
FindShortestSeparator(start, limit) ==
    Shortened(start, BytewiseSeparator(ExtractUserKey(start), ExtractUserKey(limit)))
FindShortSuccessor(key) == Shortened(key, BytewiseSuccessor(ExtractUserKey(key)))

-----------------------------------------------------------------------------
(* Bloom filters: a filter is its number of bits and the set of those set.  *)

BloomProbes(user_key, bits) ==
    LET h == Hash(user_key)
        delta == (h \div 2^Rotation) + ((h * 2^(HashWidth - Rotation)) % 2^HashWidth)
    IN  {((h + j * delta) % 2^HashWidth) % bits : j \in 0 .. k_ - 1}
NoFilter == [bits |-> 0, set |-> {}]
CreateFilter(keys) ==
    LET wanted == Max({kMinBits, Len(keys) * bits_per_key})
        bits == 8 * ((wanted + 7) \div 8)
    IN  [bits |-> bits, set |-> UNION {BloomProbes(ExtractUserKey(keys[i]), bits) : i \in DOMAIN keys}]
BloomMayMatch(user_key, f) == f.bits # 0 /\ BloomProbes(user_key, f.bits) \subseteq f.set

\* FilterBlockBuilder: keys of the filter being collected and finished filters.
GenerateFilter(fb) ==
    [keys |-> <<>>,
     filters |-> Append(fb.filters, IF fb.keys = <<>> THEN NoFilter ELSE CreateFilter(fb.keys))]
RECURSIVE StartBlock(_, _)
StartBlock(fb, offset) ==
    IF offset \div kFilterBase > Len(fb.filters) THEN StartBlock(GenerateFilter(fb), offset) ELSE fb
FilterFinish(fb) == IF fb.keys = <<>> THEN fb ELSE GenerateFilter(fb)
KeyMayMatch(filters, offset, key) ==
    LET index == offset \div kFilterBase
    IN  index >= Len(filters) \/ BloomMayMatch(ExtractUserKey(key), filters[index + 1])

-----------------------------------------------------------------------------
(* BlockBuilder.                                                            *)

EmptyBlock == [ents |-> <<>>, restarts |-> <<0>>, counter |-> 0, last_key |-> <<>>]
CurrentSizeEstimate(b) ==
    FoldLeft(LAMBDA n, e : n + 1 + Len(e.delta), 0, b.ents) + Len(b.restarts) + 1
BlockAdd(b, key, value, interval) ==
    LET restart == b.counter >= interval
        shared == IF restart THEN 0 ELSE SharedPrefix(b.last_key, key)
        e == [shared |-> shared, delta |-> SubSeq(key, shared + 1, Len(key)), value |-> value]
    IN  [ents |-> Append(b.ents, e),
         restarts |-> IF restart THEN Append(b.restarts, Len(b.ents)) ELSE b.restarts,
         counter |-> IF restart THEN 1 ELSE b.counter + 1,
         last_key |-> key]

-----------------------------------------------------------------------------
(* Block::Iter.  Entry i of a block has offset i - 1.                       *)

RestartsAt(b) == Len(b.ents)
NewIter(b) == [block |-> b, current |-> RestartsAt(b), restart_index |-> Len(b.restarts),
               key |-> <<>>, next |-> 0, ok |-> TRUE]
NewErrorIterator == [NewIter(EmptyBlock) EXCEPT !.ok = FALSE]
Valid(i) == i.current < RestartsAt(i.block)
IterValue(i) == i.block.ents[i.current + 1].value
GetRestartPoint(i, index) == i.block.restarts[index + 1]
SeekToRestartPoint(i, index) ==
    [i EXCEPT !.key = <<>>, !.restart_index = index, !.next = GetRestartPoint(i, index)]
Invalidated(i) == [i EXCEPT !.current = RestartsAt(i.block), !.restart_index = Len(i.block.restarts)]
CorruptionError(i) == [Invalidated(i) EXCEPT !.ok = FALSE, !.key = <<>>, !.next = 0]
\* Mutant: the key is not cut to its shared prefix.
ParseWithoutCut(i) ==
    LET cur == i.next
        e == i.block.ents[cur + 1]
        passed == {j \in i.restart_index .. Len(i.block.restarts) - 1 :
                      j = i.restart_index \/ GetRestartPoint(i, j) < cur}
    IN  IF cur >= RestartsAt(i.block) THEN Invalidated(i)
        ELSE IF Len(i.key) < e.shared THEN CorruptionError(i)
        ELSE [i EXCEPT !.current = cur, !.next = cur + 1, !.restart_index = Max(passed),
                       !.key = i.key \o e.delta]
ParseNextKey(i) ==
    LET cur == i.next
        e == i.block.ents[cur + 1]
        passed == {j \in i.restart_index .. Len(i.block.restarts) - 1 :
                      j = i.restart_index \/ GetRestartPoint(i, j) < cur}
    IN  IF cur >= RestartsAt(i.block) THEN Invalidated(i)
        ELSE IF Len(i.key) < e.shared THEN CorruptionError(i)
        ELSE [i EXCEPT !.current = cur, !.next = cur + 1, !.restart_index = Max(passed),
                       !.key = SubSeq(i.key, 1, e.shared) \o e.delta]

\* ParseNextKey until the end of the entry is at limit.
RECURSIVE ParseUpTo(_, _)
ParseUpTo(i, limit) ==
    LET n == ParseNextKey(i)
    IN  IF Valid(n) /\ n.next < limit THEN ParseUpTo(n, limit) ELSE n
RECURSIVE ParseUntil(_, _)
ParseUntil(i, target) ==
    LET n == ParseNextKey(i)
    IN  IF Valid(n) /\ Less(n.key, target) THEN ParseUntil(n, target) ELSE n

BlockNext(i) == ParseNextKey(i)
BlockPrev(i) ==
    LET points == {j \in 0 .. i.restart_index : GetRestartPoint(i, j) < i.current}
    IN  IF points = {} THEN Invalidated(i)
        ELSE ParseUpTo(SeekToRestartPoint(i, Max(points)), i.current)
\* The binary search over restart points; the keys there are stored whole.
RECURSIVE SearchRestart(_, _, _, _)
SearchRestart(i, target, left, right) ==
    LET mid == (left + right + 1) \div 2
    IN  IF left >= right THEN left
        ELSE IF Less(i.block.ents[GetRestartPoint(i, mid) + 1].delta, target)
             THEN SearchRestart(i, target, mid, right)
             ELSE SearchRestart(i, target, left, mid - 1)
BlockSeek(i, target) ==
    ParseUntil(SeekToRestartPoint(i, SearchRestart(i, target, 0, Len(i.block.restarts) - 1)), target)
BlockSeekToFirst(i) == ParseNextKey(SeekToRestartPoint(i, 0))
BlockSeekToLast(i) ==
    ParseUpTo(SeekToRestartPoint(i, Len(i.block.restarts) - 1), RestartsAt(i.block))

-----------------------------------------------------------------------------
(* TableBuilder.  file maps the offset of a block to its contents.          *)

NoHandle == -1
ok == r.status
\* WriteBlock and WriteRawBlock; appending may fail.
WriteBlock(rep, block, fails) ==
    IF fails THEN [rep EXCEPT !.status = FALSE]
    ELSE [rep EXCEPT !.file = [o \in DOMAIN rep.file \cup {rep.offset} |->
                                  IF o = rep.offset THEN block ELSE rep.file[o]],
                     !.offset = @ + CurrentSizeEstimate(block) + 1]
Flush(rep, fails) ==
    IF ~rep.status \/ rep.data_block.ents = <<>> THEN rep
    ELSE LET w == WriteBlock(rep, rep.data_block, fails)
         IN  [w EXCEPT !.data_block = EmptyBlock, !.pending_handle = rep.offset,
                       !.pending_index_entry = w.status,
                       !.filter_block = IF use_filter THEN StartBlock(@, w.offset) ELSE @]
\* The index entry of the last block, once the first key after it is known.
IndexPending(rep, separator) ==
    IF ~rep.pending_index_entry THEN rep
    ELSE [rep EXCEPT !.index_block = BlockAdd(@, separator, rep.pending_handle, 1),
                     !.pending_index_entry = FALSE]

Add(key, fails) ==
    LET r1 == IndexPending(r, FindShortestSeparator(r.last_key, key))
        r2 == [r1 EXCEPT !.filter_block.keys = IF use_filter THEN Append(@, key) ELSE @,
                         !.last_key = key,
                         !.data_block = BlockAdd(@, key, Len(added) + 1, block_restart_interval)]
    IN  /\ state = "building" /\ Len(added) < MaxEntries
        /\ added # <<>> => Less(Last(added), key)
        /\ added' = Append(added, key)
        /\ r' = IF ~ok THEN r
                ELSE IF CurrentSizeEstimate(r2.data_block) >= block_size THEN Flush(r2, fails) ELSE r2
        /\ UNCHANGED <<state, damaged, it, expect, skipped>>

\* Finish: the rest of the data, the filter, the index with its last entry.
\* The metaindex block and the footer hold where those two blocks are.
Finished(rep, fails) ==
    LET r1 == Flush(rep, fails)
        r2 == IF r1.status /\ use_filter
              THEN [r1 EXCEPT !.filter_block = FilterFinish(@)] ELSE r1
        r3 == IF r2.status THEN IndexPending(r2, FindShortSuccessor(r2.last_key)) ELSE r2
    IN  r3
NoIterator == [index |-> NewIter(EmptyBlock), data |-> NewIter(EmptyBlock), has_data |-> FALSE,
               handle |-> NoHandle, ok |-> TRUE]
NewTwoLevelIterator(index_block) == [NoIterator EXCEPT !.index = NewIter(index_block)]

\* ReadMeta and ReadFilter when the table is opened: meta tells whether the
\* metaindex block and the filter block can be read.  Without them the table
\* is used without a filter and no error is reported.
ReadMeta(rep, meta) == [rep EXCEPT !.has_filter = use_filter /\ meta]

\* BuildTable: a table is kept if it could be written, synced and opened.
\* Some of its blocks are damaged later.
BuildTable(fails, bad, meta) ==
    LET f == ReadMeta(Finished(r, fails), meta)
        kept == f.status /\ ~fails
    IN  /\ state = "building" /\ added # <<>> /\ bad \subseteq DOMAIN f.file
        /\ r' = f
        /\ damaged' = IF kept THEN bad ELSE {}
        /\ state' = IF kept THEN "kept" ELSE "deleted"
        /\ it' = IF kept THEN NewTwoLevelIterator(f.index_block) ELSE it
        /\ UNCHANGED <<added, expect, skipped>>

-----------------------------------------------------------------------------
(* Table::BlockReader and TwoLevelIterator.                                 *)

\* ReadBlock of a reader with verify_checksums.  Only data blocks are damaged.
\* (Without the option, which is off by default, damage may pass unreported.)
BlockReader(handle) == IF handle \in damaged THEN NewErrorIterator ELSE NewIter(r.file[handle])

SetDataIterator(t, has, data) ==
    [t EXCEPT !.ok = @ /\ (t.has_data => t.data.ok), !.data = data, !.has_data = has]
NoData(t) == SetDataIterator(t, FALSE, NewIter(EmptyBlock))
InitDataBlock(t) ==
    LET handle == IterValue(t.index)
    IN  IF ~Valid(t.index) THEN NoData(t)
        ELSE IF t.has_data /\ t.handle = handle THEN t
        ELSE [SetDataIterator(t, TRUE, BlockReader(handle)) EXCEPT !.handle = handle]

\* The operations of an error iterator do nothing.
OnData(t, Op(_)) == IF t.has_data /\ t.data.ok THEN [t EXCEPT !.data = Op(@)] ELSE t
RECURSIVE SkipEmptyDataBlocksForward(_)
SkipEmptyDataBlocksForward(t) ==
    IF t.has_data /\ Valid(t.data) THEN t
    ELSE IF ~Valid(t.index) THEN NoData(t)
    ELSE SkipEmptyDataBlocksForward(
            OnData(InitDataBlock([t EXCEPT !.index = BlockNext(@)]), BlockSeekToFirst))
RECURSIVE SkipEmptyDataBlocksBackward(_)
SkipEmptyDataBlocksBackward(t) ==
    IF t.has_data /\ Valid(t.data) THEN t
    ELSE IF ~Valid(t.index) THEN NoData(t)
    ELSE SkipEmptyDataBlocksBackward(
            OnData(InitDataBlock([t EXCEPT !.index = BlockPrev(@)]), BlockSeekToLast))

TwoLevelSeek(t, target) ==
    SkipEmptyDataBlocksForward(
        OnData(InitDataBlock([t EXCEPT !.index = BlockSeek(@, target)]),
               LAMBDA d : BlockSeek(d, target)))
TwoLevelSeekToFirst(t) ==
    SkipEmptyDataBlocksForward(
        OnData(InitDataBlock([t EXCEPT !.index = BlockSeekToFirst(@)]), BlockSeekToFirst))
TwoLevelSeekToLast(t) ==
    SkipEmptyDataBlocksBackward(
        OnData(InitDataBlock([t EXCEPT !.index = BlockSeekToLast(@)]), BlockSeekToLast))
TwoLevelNext(t) == SkipEmptyDataBlocksForward([t EXCEPT !.data = BlockNext(@)])
TwoLevelPrev(t) == SkipEmptyDataBlocksBackward([t EXCEPT !.data = BlockPrev(@)])
TwoLevelStatus(t) == t.index.ok /\ (t.has_data => t.data.ok) /\ t.ok

\* Table::InternalGet: the entry passed to the saver, 0 for none, -1 for an error.
InternalGet(k) ==
    LET iiter == BlockSeek(NewIter(r.index_block), k)
        d == BlockReader(IterValue(iiter))
        block_iter == IF d.ok THEN BlockSeek(d, k) ELSE d
    IN  IF ~Valid(iiter) THEN 0
        ELSE IF r.has_filter /\ ~KeyMayMatch(r.filter_block.filters, IterValue(iiter), k) THEN 0
        ELSE IF ~block_iter.ok THEN -1
        ELSE IF Valid(block_iter) THEN IterValue(block_iter) ELSE 0

\* Table::ApproximateOffsetOf.
ApproximateOffsetOf(k) ==
    LET iiter == BlockSeek(NewIter(r.index_block), k)
    IN  IF Valid(iiter) THEN IterValue(iiter) ELSE r.offset

-----------------------------------------------------------------------------
(* Iterator operations, each with what it should lead to: the nearest entry *)
(* of an undamaged block in its direction.                                  *)

\* The block of entry i: entries are numbered in the order they were added.
Entries == DOMAIN added
BlockOf(i) == CHOOSE o \in DOMAIN r.file :
                 \E e \in DOMAIN r.file[o].ents : r.file[o].ents[e].value = i
Readable(i) == BlockOf(i) \notin damaged
FirstOf(S) == IF S = {} THEN 0 ELSE Min(S)
LastOf(S)  == IF S = {} THEN 0 ELSE Max(S)
Reading == state = "kept"

\* The operation t leads forwards to entry lo or the next readable one.
Forward(t, lo) ==
    LET to == FirstOf({i \in Entries : i >= lo /\ Readable(i)})
    IN  /\ it' = t /\ expect' = to
        /\ skipped' = (skipped \/ \E i \in Entries : i >= lo /\ (to = 0 \/ i < to))
        /\ UNCHANGED <<added, r, state, damaged>>
Backward(t, hi) ==
    LET to == LastOf({i \in Entries : i <= hi /\ Readable(i)})
    IN  /\ it' = t /\ expect' = to
        /\ skipped' = (skipped \/ \E i \in Entries : i <= hi /\ i > to)
        /\ UNCHANGED <<added, r, state, damaged>>

SeekIt(target) ==
    /\ Reading
    /\ Forward(TwoLevelSeek(it, target),
               Cardinality({i \in Entries : Less(added[i], target)}) + 1)
SeekToFirst == Reading /\ Forward(TwoLevelSeekToFirst(it), 1)
SeekToLast == Reading /\ Backward(TwoLevelSeekToLast(it), Len(added))
NextEntry == Reading /\ expect # 0 /\ Forward(TwoLevelNext(it), expect + 1)
PrevEntry == Reading /\ expect # 0 /\ Backward(TwoLevelPrev(it), expect - 1)

Init ==
    /\ added = <<>> /\ state = "building" /\ damaged = {} /\ it = NoIterator
    /\ expect = 0 /\ skipped = FALSE
    /\ r = [file |-> <<>>, offset |-> 0, status |-> TRUE, data_block |-> EmptyBlock,
            index_block |-> EmptyBlock, last_key |-> <<0>>, pending_index_entry |-> FALSE,
            pending_handle |-> NoHandle, has_filter |-> FALSE,
            filter_block |-> [keys |-> <<>>, filters |-> <<>>]]

Next ==
    \/ \E key \in Keys, fails \in BOOLEAN : Add(key, fails)
    \/ \E fails \in BOOLEAN : \E bad \in SUBSET DOMAIN Finished(r, fails).file, meta \in BOOLEAN :
          BuildTable(fails, bad, meta)
    \/ \E target \in Targets : SeekIt(target)
    \/ SeekToFirst
    \/ SeekToLast
    \/ NextEntry
    \/ PrevEntry

Spec == Init /\ [][Next]_vars

-----------------------------------------------------------------------------
(* Properties.                                                              *)

\* After any sequence of operations the iterator of a kept table stands at the
\* nearest readable entry in its direction and shows the key that was added:
\* prefix compression, restart points and the index lose and invent nothing,
\* and a table whose builder met an error is not kept.  An iterator that passed
\* over a damaged block says so in its status until it is deleted, and reports no
\* error if it met none (SetDataIterator, SaveError).
Positioned ==
    Reading => /\ (it.has_data /\ Valid(it.data)) = (expect # 0)
               /\ expect # 0 => /\ IterValue(it.data) = expect
                                /\ it.data.key = added[expect]
               /\ skipped => ~TwoLevelStatus(it)
               /\ damaged = {} => TwoLevelStatus(it)

\* Table::InternalGet hands the saver the first entry at or after the key if it
\* has the same user key, whatever separators the index holds and whether the
\* table has a filter or lost it; if that entry's block is damaged it reports
\* an error, never that there is none.  ApproximateOffsetOf is the offset of
\* that block.
GetRight ==
    Reading => \A k \in Targets :
        LET first == FirstOf({i \in Entries : AtLeast(added[i], k)})
            wanted == first # 0 /\ ExtractUserKey(added[first]) = ExtractUserKey(k)
        IN  /\ wanted => InternalGet(k) = IF Readable(first) THEN first ELSE -1
            /\ wanted => ApproximateOffsetOf(k) = BlockOf(first)
=============================================================================
