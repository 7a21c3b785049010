------------------------------- MODULE Coding -------------------------------
(***************************************************************************)
(* How numbers, keys, memtable entries, block handles and footers become   *)
(* bytes and are read back: util/coding.cc, and its users in               *)
(* db/dbformat.cc, db/memtable.cc, table/format.cc and table/block.cc.     *)
(* Pure functions on sequences of bytes; the assumptions at the end check  *)
(* them against what they are meant to be inverses of.                     *)
(*                                                                         *)
(* The sizes are parameters, for TLC's integers have 32 bits: a varint     *)
(* byte has GroupBits bits and one that says whether more follow; an       *)
(* unsigned number of n bytes has n * (GroupBits + 1) bits.                *)
(***************************************************************************)
EXTENDS Integers, Sequences, FiniteSetsExt

CONSTANTS GroupBits,   \* 7
          Bytes32,     \* 4
          Bytes64      \* 8

ASSUME CodingAssumption == GroupBits \in Nat \ {0} /\ Bytes32 \in Nat /\ Bytes64 \in Nat
                           /\ 1 <= Bytes32 /\ Bytes32 <= Bytes64

B        == 2 ^ GroupBits
ByteSize == 2 * B
Width(n) == n * (GroupBits + 1)       \* bits of a number of n bytes
Failed   == [ok |-> FALSE]
StartingAt(s, i) == SubSeq(s, i, Len(s))

-----------------------------------------------------------------------------
(* Numbers.                                                                *)

EncodeFixed(v, n) == [i \in 1 .. n |-> (v \div ByteSize ^ (i - 1)) % ByteSize]
DecodeFixed(s) == MapThenSumSet(LAMBDA i : s[i] * ByteSize ^ (i - 1), DOMAIN s)

\* The loops over shift <= 28 and shift <= 63.
Groups(n) == (Width(n) + GroupBits - 1) \div GroupBits

\* Unrolled in the code: one case for each length.
EncodeVarint32(v) ==
    LET n == Min({k \in 1 .. Groups(Bytes32) : v < B ^ k} \cup {Groups(Bytes32)})
    IN  [i \in 1 .. n |-> ((v \div B ^ (i - 1)) % B) + (IF i < n THEN B ELSE 0)]

EncodeVarint64(v) ==
    LET encode[u \in Nat] == IF u < B THEN <<u>> ELSE <<(u % B) + B>> \o encode[u \div B]
    IN  encode[v]

VarintLength(v) ==
    LET len[u \in Nat] == IF u < B THEN 1 ELSE 1 + len[u \div B]
    IN  len[v]

\* Up to the first byte that says that no more follow; bits beyond the width
\* of the result are shifted out.
GetVarint(s, n) ==
    LET last == {i \in 1 .. Min({Len(s), Groups(n)}) : s[i] < B}
        value == MapThenSumSet(LAMBDA i : (s[i] % B) * B ^ (i - 1), 1 .. Min(last))
    IN  IF last = {} THEN Failed
        ELSE [ok |-> TRUE, value |-> value % 2 ^ Width(n), rest |-> StartingAt(s, Min(last) + 1)]
GetVarint32(s) == GetVarint(s, Bytes32)
GetVarint64(s) == GetVarint(s, Bytes64)

PutLengthPrefixedSlice(v) == EncodeVarint32(Len(v)) \o v
GetLengthPrefixedSlice(s) ==
    LET g == GetVarint32(s)
    IN  IF ~g.ok THEN Failed
        ELSE IF Len(g.rest) < g.value THEN Failed
        ELSE [ok |-> TRUE, value |-> SubSeq(g.rest, 1, g.value), rest |-> StartingAt(g.rest, g.value + 1)]

-----------------------------------------------------------------------------
(* Internal keys.                                                          *)

TypeDeletion == 0
TypeValue    == 1
kMaxSequenceNumber == ByteSize ^ (Bytes64 - 1) - 1

PackSequenceAndType(seq, t) == seq * ByteSize + t

AppendInternalKey(user_key, seq, t) ==
    user_key \o EncodeFixed(PackSequenceAndType(seq, t), Bytes64)

ParseInternalKey(s) ==
    LET n   == Len(s)
        num == DecodeFixed(StartingAt(s, n - Bytes64 + 1))
    IN  IF n < Bytes64 THEN Failed
        ELSE [ok |-> num % ByteSize <= TypeValue, user_key |-> SubSeq(s, 1, n - Bytes64),
              sequence |-> num \div ByteSize, type |-> num % ByteSize]

\* memtable_key of a LookupKey: the greatest type, which sorts first.
LookupKey(user_key, seq) ==
    EncodeVarint32(Len(user_key) + Bytes64) \o AppendInternalKey(user_key, seq, TypeValue)

-----------------------------------------------------------------------------
(* Entries of the memtable: MemTable::Add, its iterator and MemTable::Get. *)

EncodedLength(key, value) ==
    LET internal == Len(key) + Bytes64
    IN  VarintLength(internal) + internal + VarintLength(Len(value)) + Len(value)
EncodeEntry(seq, t, key, value) ==
    PutLengthPrefixedSlice(AppendInternalKey(key, seq, t)) \o PutLengthPrefixedSlice(value)

EntryKey(entry)   == GetLengthPrefixedSlice(entry).value
EntryValue(entry) == GetLengthPrefixedSlice(GetLengthPrefixedSlice(entry).rest).value

\* What Get makes of the entry that its Seek found.
GetFromEntry(entry, user_key) ==
    LET ikey == ParseInternalKey(EntryKey(entry))
    IN  IF ikey.user_key # user_key THEN "not here"
        ELSE IF ikey.type = TypeValue THEN EntryValue(entry) ELSE "NotFound"

-----------------------------------------------------------------------------
(* BlockHandle and Footer.                                                 *)

kMaxEncodedLength == 2 * Groups(Bytes64)
kTableMagicNumber == <<5, 7>>          \* its low and its high half

HandleEncodeTo(h) == EncodeVarint64(h.offset) \o EncodeVarint64(h.size)
HandleDecodeFrom(s) ==
    LET o == GetVarint64(s)
        z == GetVarint64(o.rest)
    IN  IF ~o.ok THEN Failed ELSE IF ~z.ok THEN Failed
        ELSE [ok |-> TRUE, handle |-> [offset |-> o.value, size |-> z.value], rest |-> z.rest]

FooterEncodeTo(metaindex, index) ==
    LET handles == HandleEncodeTo(metaindex) \o HandleEncodeTo(index)
    IN  [i \in 1 .. 2 * kMaxEncodedLength |-> IF i <= Len(handles) THEN handles[i] ELSE 0]
        \o EncodeFixed(kTableMagicNumber[1], Bytes32) \o EncodeFixed(kTableMagicNumber[2], Bytes32)
FooterDecodeFrom(s) ==
    LET at   == 2 * kMaxEncodedLength
        half(i) == DecodeFixed(SubSeq(s, at + (i - 1) * Bytes32 + 1, at + i * Bytes32))
        m == HandleDecodeFrom(s)
        x == HandleDecodeFrom(m.rest)
    IN  IF <<half(1), half(2)>> # kTableMagicNumber THEN Failed
        ELSE IF ~m.ok THEN Failed ELSE IF ~x.ok THEN Failed
        ELSE [ok |-> TRUE, metaindex |-> m.handle, index |-> x.handle]

-----------------------------------------------------------------------------
(* Entries of a block: BlockBuilder::Add and DecodeEntry.                  *)

EncodeBlockEntry(shared, delta, value) ==
    EncodeVarint32(shared) \o EncodeVarint32(Len(delta)) \o EncodeVarint32(Len(value))
      \o delta \o value

\* One byte for each number is the common case.  The sum of the lengths is
\* taken modulo the width of a number.
DecodeEntry(s) ==
    LET one(i) == [ok |-> TRUE, value |-> s[i], rest |-> StartingAt(s, i + 1)]
        fast  == s[1] < B /\ s[2] < B /\ s[3] < B
        sh    == IF fast THEN one(1) ELSE GetVarint32(s)
        non   == IF fast THEN one(2) ELSE IF sh.ok THEN GetVarint32(sh.rest) ELSE Failed
        len   == IF fast THEN one(3) ELSE IF non.ok THEN GetVarint32(non.rest) ELSE Failed
    IN  IF Len(s) < 3 THEN Failed ELSE IF ~len.ok THEN Failed
        ELSE IF Len(len.rest) < (non.value + len.value) % 2 ^ Width(Bytes32) THEN Failed
        ELSE [ok |-> TRUE, shared |-> sh.value, non_shared |-> non.value,
              value_length |-> len.value, rest |-> len.rest]

-----------------------------------------------------------------------------
(* What they are for.  Values are taken at every change of length.         *)

Around(n) == {v \in UNION {{2 ^ k - 1, 2 ^ k, 2 ^ k + 1} : k \in 0 .. Width(n)} :
                 v < 2 ^ Width(n)}
Strings(n) == UNION {[1 .. l -> 0 .. ByteSize - 1] : l \in 0 .. n}

\* A number is read back from any of its encodings, whatever follows, and a cut
\* encoding is refused.
ASSUME NumbersReadBack ==
    /\ \A v \in Around(Bytes64) : DecodeFixed(EncodeFixed(v, Bytes64)) = v
    /\ \A v \in 0 .. 2 ^ Width(Bytes32) - 1 :
         /\ GetVarint32(EncodeVarint32(v) \o <<B, 1>>) = [ok |-> TRUE, value |-> v, rest |-> <<B, 1>>]
         /\ EncodeVarint32(v) = EncodeVarint64(v)
    /\ \A v \in Around(Bytes64) :
         LET e == EncodeVarint64(v)
         IN  /\ GetVarint64(e \o <<B>>) = [ok |-> TRUE, value |-> v, rest |-> <<B>>]
             /\ Len(e) = VarintLength(v) /\ Len(e) <= Groups(Bytes64)
             /\ \A i \in 0 .. Len(e) - 1 : ~GetVarint64(SubSeq(e, 1, i)).ok

\* Whatever the bytes are, a number read fits its width and took no more bytes
\* than the longest encoding.
ASSUME AnyBytesRead ==
    \A s \in Strings(Groups(Bytes32) + 1) :
        LET g == GetVarint32(s)
        IN  g.ok => g.value < 2 ^ Width(Bytes32) /\ Len(s) - Len(g.rest) <= Groups(Bytes32)

\* An entry of the memtable takes the bytes that Add allocated for it; key,
\* sequence number, type and value are read back; Get finds it for its own user
\* key only, and LookupKey is the prefix of the entry with that number.
ASSUME EntriesReadBack ==
    \A key, value \in Strings(1) \cup {[i \in 1 .. B |-> 1]}, seq \in {0, 1, kMaxSequenceNumber},
       t \in {TypeDeletion, TypeValue} :
        LET e == EncodeEntry(seq, t, key, value)
            look == LookupKey(key, seq)
        IN  /\ Len(e) = EncodedLength(key, value)
            /\ ParseInternalKey(EntryKey(e)) =
                  [ok |-> TRUE, user_key |-> key, sequence |-> seq, type |-> t]
            /\ EntryValue(e) = value
            /\ GetFromEntry(e, key) = IF t = TypeValue THEN value ELSE "NotFound"
            /\ GetFromEntry(e, key \o <<0>>) = "not here"
            /\ t = TypeValue => SubSeq(e, 1, Len(look)) = look

\* An entry of a block is read back with what follows it, on the short and on
\* the long path; one that is cut is refused.
ASSUME BlockEntriesReadBack ==
    \A shared \in {0, 1, B - 1, B, 2 ^ Width(Bytes32) - 1}, n, l \in {0, 1, B - 1, B} :
        LET body == [i \in 1 .. n |-> 1] \o [i \in 1 .. l |-> 2]
            e == EncodeBlockEntry(shared, SubSeq(body, 1, n), SubSeq(body, n + 1, n + l))
        IN  /\ DecodeEntry(e \o <<B>>) = [ok |-> TRUE, shared |-> shared, non_shared |-> n,
                                          value_length |-> l, rest |-> body \o <<B>>]
            /\ \A i \in 0 .. Len(e) - 1 : ~DecodeEntry(SubSeq(e, 1, i)).ok

\* A footer has one length whatever its handles are, and is read back.
ASSUME FootersReadBack ==
    \A o, z \in {0, 1, B, 2 ^ Width(Bytes64) - 2} :
        LET h == [offset |-> o, size |-> z]
            k == [offset |-> z, size |-> o]
            f == FooterEncodeTo(h, k)
        IN  /\ Len(f) = 2 * kMaxEncodedLength + 2 * Bytes32
            /\ FooterDecodeFrom(f) = [ok |-> TRUE, metaindex |-> h, index |-> k]
=============================================================================
