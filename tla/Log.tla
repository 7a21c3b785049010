-------------------------------- MODULE Log --------------------------------
(***************************************************************************)
(* The record format of write-ahead logs and MANIFEST files: the writer of *)
(* db/log_writer.cc and the reader of db/log_reader.cc.                    *)
(*                                                                         *)
(* A file is a sequence of cells.  A physical record is kHeaderSize header *)
(* cells (checksum, length, type) followed by its fragment.  A checksum is *)
(* the pair it was computed from, so two contents never share one.  The    *)
(* writer may die after any byte, the log may then be appended to again    *)
(* (Options::reuse_logs), and one cell of the file may be damaged before   *)
(* it is read.  A damaged length or type is read as any value.             *)
(***************************************************************************)
EXTENDS Integers, Sequences, FiniteSets

CONSTANTS kBlockSize, kHeaderSize,
          Sizes,          \* bound: lengths of the records
          MaxRecords,     \* bound: records written
          Offsets,        \* bound: values of initial_offset
          checksum_       \* does the reader verify checksums? (repair.cc:193: FALSE)

ASSUME LogAssumption ==
    /\ kHeaderSize \in Nat /\ kHeaderSize >= 3
    /\ kBlockSize \in Nat /\ kBlockSize >= 2 * kHeaderSize
    /\ Sizes \subseteq Nat /\ MaxRecords \in Nat /\ Offsets \subseteq Nat
    /\ checksum_ \in BOOLEAN

kZeroType == 0
kFullType == 1
kFirstType == 2
kMiddleType == 3
kLastType == 4
kEof == 5
kBadRecord == 6

VARIABLES
    file,          \* the cells on disk
    block_offset_, \* Writer: offset in the current block
    records,       \* per AddRecord call: [data, start, end, acked]
    left,          \* AddRecord: cells still to emit, or <<>>
    begin,         \* AddRecord: no fragment emitted yet
    phase,         \* "open", "add", "crashed", "read", "done"
    damage,        \* position of the damaged cell, or 0
    seam,          \* was anything appended behind half a physical record?
    emitted,       \* history: the physical records in the file, see EmitPhysicalRecord
    buffer_, eof_, end_of_buffer_offset_, last_record_offset_, resyncing_,
    initial_offset_,
    scratch, in_fragmented_record, prospective_record_offset,
    out,           \* records returned by ReadRecord
    reported       \* Reporter::Corruption was called

writerVars == <<file, block_offset_, records, left, begin, damage, seam, emitted>>
readerVars == <<buffer_, eof_, end_of_buffer_offset_, last_record_offset_, resyncing_,
                scratch, in_fragmented_record, prospective_record_offset, out, reported>>
vars == <<writerVars, phase, initial_offset_, readerVars>>

Cells(n, c) == [k \in 1 .. n |-> c]
Zero == [kind |-> "zero"]
Bad  == [kind |-> "bad"]
From(s, n) == SubSeq(s, n + 1, Len(s))
FirstN(s, n) == SubSeq(s, 1, IF n < Len(s) THEN n ELSE Len(s))

Init ==
    /\ file = <<>> /\ block_offset_ = 0 /\ records = <<>> /\ left = <<>> /\ begin = FALSE
    /\ phase = "open" /\ damage = 0 /\ seam = "none" /\ emitted = {}
    /\ buffer_ = <<>> /\ eof_ = FALSE /\ end_of_buffer_offset_ = 0 /\ last_record_offset_ = 0
    /\ initial_offset_ \in Offsets
    /\ resyncing_ = (initial_offset_ > 0)
    /\ scratch = <<>> /\ in_fragmented_record = FALSE /\ prospective_record_offset = 0
    /\ out = <<>> /\ reported = FALSE

-----------------------------------------------------------------------------
(* log::Writer.                                                            *)

AddRecord(n) ==
    /\ phase = "open" /\ Len(records) < MaxRecords
    /\ left' = [k \in 1 .. n |-> [kind |-> "data", rec |-> Len(records) + 1, at |-> k]]
    /\ records' = Append(records, [data |-> left', start |-> -1, end |-> -1, acked |-> FALSE])
    /\ begin' = TRUE
    /\ phase' = "add"
    /\ UNCHANGED <<file, block_offset_, damage, seam, emitted, initial_offset_, readerVars>>

\* The header and the fragment, as EmitPhysicalRecord appends them.
PhysicalRecord(t, fragment) ==
    Cells(kHeaderSize - 2, [kind |-> "crc", sum |-> <<t, fragment>>])
      \o <<[kind |-> "len", n |-> Len(fragment)], [kind |-> "type", t |-> t]>> \o fragment

FragmentType(first, last) ==
    CASE first /\ last -> kFullType
      [] first /\ ~last -> kFirstType
      [] ~first /\ last -> kLastType
      [] OTHER -> kMiddleType

\* Mutant: the trailer of a block is not filled.
TrailerMissing == <<>>
\* A rest of the block too short for a header is filled with zeros.
Trailer == IF kBlockSize - block_offset_ < kHeaderSize
           THEN Cells(kBlockSize - block_offset_, Zero) ELSE <<>>

\* One iteration of the loop of AddRecord: the offset in the block behind the
\* trailer, the fragment that fits there, and whether it is the last.
Offset   == IF kBlockSize - block_offset_ < kHeaderSize THEN 0 ELSE block_offset_
Fragment == FirstN(left, kBlockSize - Offset - kHeaderSize)
IsEnd    == Len(Fragment) = Len(left)
Type     == FragmentType(begin, IsEnd)

\* History: a physical record with `len' of its cells in the file, the first at
\* offset `start': `n' cells of record `rec' after the first `from'.
Emitted(len) ==
    LET r == Len(records)
    IN  [start |-> Len(file) + Len(Trailer), type |-> Type, rec |-> r,
         from |-> Len(records[r].data) - Len(left), n |-> Len(Fragment), len |-> len]

\* EmitPhysicalRecord and the rest of the iteration.
EmitPhysicalRecord ==
    LET physical == PhysicalRecord(Type, Fragment)
        r        == Len(records)
    IN  /\ phase = "add"
        /\ file' = file \o Trailer \o physical
        /\ emitted' = emitted \cup {Emitted(Len(physical))}
        /\ block_offset_' = Offset + Len(physical)
        /\ left' = From(left, Len(Fragment))
        /\ begin' = FALSE
        /\ records' = [records EXCEPT
              ![r].start = IF begin THEN Len(file) + Len(Trailer) ELSE @,
              ![r].end = Len(file'), ![r].acked = IsEnd]
        /\ phase' = IF IsEnd THEN "open" ELSE "add"
        /\ UNCHANGED <<damage, seam, initial_offset_, readerVars>>

\* Append fails part way (bound: once).  The offset advances as if it had not,
\* AddRecord returns the error, and the log stays open for the next record.
EmitFails ==
    LET physical == PhysicalRecord(Type, Fragment)
    IN  /\ phase = "add" /\ seam = "none" /\ damage = 0
        /\ \E n \in 0 .. Len(physical) - 1 :
              /\ file' = file \o Trailer \o SubSeq(physical, 1, n)
              /\ emitted' = IF n = 0 THEN emitted ELSE emitted \cup {Emitted(n)}
        /\ block_offset_' = Offset + Len(physical)
        /\ left' = <<>> /\ begin' = FALSE
        /\ seam' = "torn"
        /\ phase' = "open"
        /\ UNCHANGED <<records, damage, initial_offset_, readerVars>>

-----------------------------------------------------------------------------
(* Faults and reopening.                                                    *)

\* The writer dies while it appends: the file ends after any byte of the last
\* record written.  What ends later was never on disk.
Crash ==
    /\ phase \in {"open", "add"} /\ records # <<>> /\ damage = 0
    /\ \E n \in 0 .. Len(file) :
          /\ LET first == records[Len(records)].start
             IN  n >= IF first = -1 THEN Len(file) ELSE first
          /\ file' = SubSeq(file, 1, n)
          /\ records' = [r \in DOMAIN records |->
                [records[r] EXCEPT !.acked = @ /\ records[r].end <= n,
                                   !.end = IF @ <= n THEN @ ELSE -1]]
          /\ emitted' = {[e EXCEPT !.len = IF e.start + @ <= n THEN @ ELSE n - e.start]
                            : e \in {x \in emitted : x.start < n}}
    /\ left' = <<>> /\ begin' = FALSE
    /\ phase' = "crashed"
    /\ UNCHANGED <<block_offset_, damage, seam, initial_offset_, readerVars>>

\* Is the end of the file the end of a physical record (or of a trailer)?
WholeRecords ==
    \/ file = <<>>
    \/ \E r \in DOMAIN records : records[r].end = Len(file)

\* Writer(dest, dest_length): the log is reused (bound: once).
Reopen ==
    /\ phase = "crashed" /\ seam = "none" /\ damage = 0 /\ Len(records) < MaxRecords
    /\ block_offset_' = Len(file) % kBlockSize
    /\ seam' = IF WholeRecords THEN "whole" ELSE "torn"
    /\ phase' = "open"
    /\ UNCHANGED <<file, records, left, begin, damage, emitted, initial_offset_, readerVars>>

Damage ==
    /\ phase \in {"open", "crashed"} /\ damage = 0 /\ seam = "none"
    /\ \E p \in DOMAIN file : file' = [file EXCEPT ![p] = Bad] /\ damage' = p
    /\ phase' = "crashed"
    /\ UNCHANGED <<block_offset_, records, left, begin, seam, emitted, initial_offset_, readerVars>>

-----------------------------------------------------------------------------
(* log::Reader.                                                             *)

\* The first ReadRecord, which calls SkipToInitialBlock: seek to the block that
\* can hold the record.  Skip does not fail past the end of a file.
OpenReader ==
    /\ phase \in {"open", "crashed"}
    /\ end_of_buffer_offset_' =
          LET inBlock == initial_offset_ % kBlockSize
              start   == initial_offset_ - inBlock
          IN  IF inBlock > kBlockSize - (kHeaderSize - 1) THEN start + kBlockSize ELSE start
    /\ phase' = "read"
    /\ UNCHANGED <<writerVars, initial_offset_, buffer_, eof_, last_record_offset_, resyncing_,
                   scratch, in_fragmented_record, prospective_record_offset, out, reported>>

\* ReadPhysicalRecord refills its buffer; what is left of it is a trailer.
ReadBlock ==
    /\ phase = "read" /\ Len(buffer_) < kHeaderSize /\ ~eof_
    /\ buffer_' = FirstN(From(file, end_of_buffer_offset_), kBlockSize)
    /\ end_of_buffer_offset_' = end_of_buffer_offset_ + Len(buffer_')
    /\ eof_' = (Len(buffer_') < kBlockSize)
    /\ UNCHANGED <<writerVars, phase, initial_offset_, last_record_offset_, resyncing_,
                   scratch, in_fragmented_record, prospective_record_offset, out, reported>>

\* The values the header's length and type can be read as.
Lengths == LET c == buffer_[kHeaderSize - 1]
           IN  CASE c.kind = "len" -> {c.n} [] c.kind = "zero" -> {0} [] OTHER -> 0 .. kBlockSize
Types   == LET c == buffer_[kHeaderSize]
           IN  CASE c.kind = "type" -> {c.t} [] c.kind = "zero" -> {0} [] OTHER -> 0 .. 4

\* Mutant: the checksum is not compared.
CrcMatchesAlways(t, fragment) == TRUE
CrcMatches(t, fragment) ==
    checksum_ => \A k \in 1 .. kHeaderSize - 2 :
                    buffer_[k] = [kind |-> "crc", sum |-> <<t, fragment>>]

\* What ReadPhysicalRecord returns: a type, the fragment, the rest of the
\* buffer and the bytes it reports as dropped.
Outcome(type, fragment, rest, drop) ==
    [type |-> type, fragment |-> fragment, rest |-> rest, drop |-> drop]
\* Mutant: a checksum mismatch ends the file.
ReadPhysicalRecordGivesUp(t, n) ==
    LET fragment == SubSeq(buffer_, kHeaderSize + 1, kHeaderSize + n)
    IN  IF kHeaderSize + n > Len(buffer_) \/ ~CrcMatches(t, fragment)
        THEN Outcome(kEof, <<>>, <<>>, 0)
        ELSE Outcome(t, fragment, From(buffer_, kHeaderSize + n), 0)
ReadPhysicalRecord(t, n) ==
    LET fragment == SubSeq(buffer_, kHeaderSize + 1, kHeaderSize + n)
        rest     == From(buffer_, kHeaderSize + n)
        start    == end_of_buffer_offset_ - Len(buffer_)
    IN  CASE kHeaderSize + n > Len(buffer_) ->
                IF eof_ THEN Outcome(kEof, <<>>, <<>>, 0)
                        ELSE Outcome(kBadRecord, <<>>, <<>>, Len(buffer_))
          [] kHeaderSize + n <= Len(buffer_) /\ t = kZeroType /\ n = 0 ->
                Outcome(kBadRecord, <<>>, <<>>, 0)
          [] kHeaderSize + n <= Len(buffer_) /\ ~(t = kZeroType /\ n = 0) ->
                CASE ~CrcMatches(t, fragment) -> Outcome(kBadRecord, <<>>, <<>>, Len(buffer_))
                  [] CrcMatches(t, fragment) /\ start < initial_offset_ ->
                        Outcome(kBadRecord, <<>>, rest, 0)
                  [] OTHER -> Outcome(t, fragment, rest, 0)

\* ReportDrop: bytes before initial_offset are not reported.
ReportDrop(bytes, rest) ==
    bytes > 0 /\ end_of_buffer_offset_ - Len(rest) - bytes >= initial_offset_

\* ReadRecord acts on the physical record o; `dropped' is what it reports itself.
Return(record, offset) ==
    /\ out' = Append(out, record)
    /\ last_record_offset_' = offset
    /\ scratch' = <<>> /\ in_fragmented_record' = FALSE /\ prospective_record_offset' = 0
Collect(s, inside, offset) ==
    /\ scratch' = s /\ in_fragmented_record' = inside /\ prospective_record_offset' = offset
    /\ UNCHANGED <<out, last_record_offset_>>

Interpret(o) ==
    LET offset == end_of_buffer_offset_ - Len(o.rest) - kHeaderSize - Len(o.fragment)
        inside == in_fragmented_record
    IN  CASE o.type = kFullType -> Return(o.fragment, offset)
          [] o.type = kFirstType -> Collect(o.fragment, TRUE, offset)
          [] o.type = kMiddleType /\ inside ->
                Collect(scratch \o o.fragment, TRUE, prospective_record_offset)
          [] o.type = kLastType /\ inside -> Return(scratch \o o.fragment, prospective_record_offset)
          [] o.type \in {kMiddleType, kLastType} /\ ~inside ->
                Collect(scratch, FALSE, prospective_record_offset)
          [] OTHER -> Collect(<<>>, FALSE, prospective_record_offset)
DroppedBytes(o) ==
    CASE o.type \in {kFullType, kFirstType, kBadRecord} ->
            IF in_fragmented_record THEN Len(scratch) ELSE 0
      [] o.type \in {kMiddleType, kLastType} ->
            IF in_fragmented_record THEN 0 ELSE Len(o.fragment)
      [] OTHER -> Len(o.fragment) + Len(scratch)

\* One iteration of the loop of ReadRecord.  The caller asks for the next
\* record until there is none.
ReadRecord ==
    /\ phase = "read" /\ Len(buffer_) >= kHeaderSize
    /\ \E n \in Lengths, t \in Types :
          LET o == ReadPhysicalRecord(t, n)
          IN  /\ o.type # kEof
              /\ buffer_' = o.rest
              /\ resyncing_' = (resyncing_ /\ o.type = kMiddleType)
              /\ IF resyncing_ /\ o.type \in {kMiddleType, kLastType}
                 THEN /\ UNCHANGED <<out, last_record_offset_, scratch,
                                     in_fragmented_record, prospective_record_offset>>
                      /\ reported' = (reported \/ ReportDrop(o.drop, o.rest))
                 ELSE /\ Interpret(o)
                      /\ reported' = (reported \/ ReportDrop(o.drop, o.rest)
                                               \/ ReportDrop(DroppedBytes(o), o.rest))
    /\ UNCHANGED <<writerVars, phase, initial_offset_, eof_, end_of_buffer_offset_>>

\* kEof: a truncated header, or a length beyond the end of the file.
ReadEof ==
    /\ phase = "read"
    /\ \/ Len(buffer_) < kHeaderSize /\ eof_
       \/ /\ Len(buffer_) >= kHeaderSize
          /\ \E n \in Lengths, t \in Types : ReadPhysicalRecord(t, n).type = kEof
    /\ buffer_' = <<>> /\ scratch' = <<>> /\ in_fragmented_record' = FALSE
    /\ phase' = "done"
    /\ UNCHANGED <<writerVars, initial_offset_, eof_, end_of_buffer_offset_, last_record_offset_,
                   resyncing_, prospective_record_offset, out, reported>>

-----------------------------------------------------------------------------
Next ==
    \/ \E n \in Sizes : AddRecord(n)
    \/ EmitPhysicalRecord \/ EmitFails \/ Crash \/ Reopen \/ Damage
    \/ OpenReader \/ ReadBlock \/ ReadRecord \/ ReadEof
Spec == Init /\ [][Next]_vars

-----------------------------------------------------------------------------
(* Properties.                                                              *)

\* A reader that verifies checksums returns only records that were given to
\* AddRecord, in that order, whole: no crash, damaged byte, reused log or start
\* in the middle of the file makes it join fragments of two records.
NothingInvented ==
    checksum_ =>
      \A j \in DOMAIN out : out[j] # <<>> =>
        /\ out[j] \in {records[r].data : r \in DOMAIN records}
        /\ \A k \in 1 .. j - 1 : out[k] # <<>> => out[k][1].rec < out[j][1].rec

\* The records a reader from initial_offset_ should return.
Expected == {r \in DOMAIN records : records[r].acked /\ records[r].start >= initial_offset_}

\* Without damage, and unless a log was appended to behind half a physical
\* record, reading from an offset returns exactly the records that start there
\* or later and are wholly on disk; a torn tail is not reported as a corruption.
AckedRecordsRead ==
    (phase = "done" /\ damage = 0 /\ seam # "torn") =>
        /\ \E which \in [DOMAIN out -> Expected] :
              /\ \A i, j \in DOMAIN out : i < j => which[i] < which[j]
              /\ \A r \in Expected : \E j \in DOMAIN out : which[j] = r
              /\ \A j \in DOMAIN out : out[j] = records[which[j]].data
        /\ initial_offset_ = 0 /\ seam = "none" => ~reported

\* A damaged byte costs at most the records that have a byte in its block: all
\* others are still returned.
BlockOf(p) == (p - 1) \div kBlockSize
DamageIsLocal ==
    (phase = "done" /\ damage # 0 /\ checksum_ /\ seam # "torn" /\ initial_offset_ = 0) =>
        \A r \in DOMAIN records :
            \/ ~records[r].acked
            \/ BlockOf(damage) \in BlockOf(records[r].start + 1) .. BlockOf(records[r].end)
            \/ records[r].data \in {out[j] : j \in DOMAIN out}
=============================================================================
