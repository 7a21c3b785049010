----------------------------- MODULE LogProofs -----------------------------
(***************************************************************************)
(* For every block size, header size and number of records: a reader that  *)
(* verifies checksums returns only records that were given to AddRecord,   *)
(* whole and in order; without damage it returns every acknowledged one;   *)
(* and one damaged byte costs only the records with a byte in its block.   *)
(*                                                                         *)
(* The first invariant (Inv) says what the cells of the file are: fill, a  *)
(* damaged cell, or a cell of one of the physical records in `emitted',    *)
(* which lie in the file one behind the other in the order of the data     *)
(* they carry.  A fragment that passes the checksum and is not empty is    *)
(* then one of them, and the reader stands where it starts.  What the      *)
(* reader has collected is what the continuation it would accept next      *)
(* continues, because that continuation lies directly behind its           *)
(* predecessor and nothing as short as a trailer can.  The one exception   *)
(* is an empty first fragment, which the reader may see inside a torn      *)
(* header: then the position of the block's end decides.                   *)
(*                                                                         *)
(* The second (CompleteInv) says the converse while nothing was appended   *)
(* behind half a physical record: the physical records tile the blocks,    *)
(* every cell of them is in the file but the damaged one, the reader       *)
(* stands at the start of one whenever it is outside the damaged block,    *)
(* and it has returned every record that ends before it and has no byte    *)
(* in that block.  In the damaged block it may do anything, but it does    *)
(* not leave the block without standing at the start of the next one.      *)
(***************************************************************************)
EXTENDS Log, SequenceTheorems, TLAPS

Data(r, k) == [kind |-> "data", rec |-> r, at |-> k]
DataCell   == [kind : {"data"}, rec : Nat, at : Nat]
Cell == {Zero, Bad} \cup DataCell \cup [kind : {"crc"}, sum : (1 .. 4) \X Seq(DataCell)]
          \cup [kind : {"len"}, n : Nat] \cup [kind : {"type"}, t : 1 .. 4]
Physical == [start : Nat, type : 1 .. 4, rec : Nat, from : Nat, n : Nat, len : Nat]
Entry == [data : Seq(DataCell), start : Int, end : Int, acked : BOOLEAN]

\* A multiple of the block size.
Aligned(x) == \E k \in Int : x = k * kBlockSize

\* The fragment of a physical record, and the cell k of it in the file.
FragmentOf(P) == [k \in 1 .. P.n |-> Data(P.rec, P.from + k)]
CellOf(P, k) == PhysicalRecord(P.type, FragmentOf(P))[k]
Owns(P, p) == P.start < p /\ p <= P.start + P.len
Size(r) == Len(records[r].data)
Whole(P) == P.len = kHeaderSize + P.n

\* Where the reader stands, and where the next physical record it looks at starts.
Pos == end_of_buffer_offset_ - Len(buffer_)
NextPos == IF Len(buffer_) >= kHeaderSize THEN Pos ELSE end_of_buffer_offset_

TypeOK ==
    /\ file \in Seq(Cell) /\ records \in Seq(Entry) /\ left \in Seq(DataCell)
    /\ emitted \subseteq Physical
    /\ begin \in BOOLEAN /\ block_offset_ \in 0 .. kBlockSize
    /\ phase \in {"open", "add", "crashed", "read", "done"}
    /\ seam \in {"none", "whole", "torn"} /\ damage \in Nat
    /\ buffer_ \in Seq(Cell) /\ eof_ \in BOOLEAN /\ end_of_buffer_offset_ \in Nat
    /\ initial_offset_ \in Nat
    /\ resyncing_ \in BOOLEAN /\ in_fragmented_record \in BOOLEAN
    /\ scratch \in Seq(Cell) /\ out \in Seq(Seq(Cell))

\* The records, and the physical records they were cut into.
RecordsInv ==
    \A r \in 1 .. Len(records) : records[r].data = [k \in 1 .. Size(r) |-> Data(r, k)]
EmittedInv ==
    \A P \in emitted :
        /\ P.rec \in 1 .. Len(records) /\ P.from + P.n <= Size(P.rec)
        /\ 1 <= P.len /\ P.len <= kHeaderSize + P.n /\ P.start + P.len <= Len(file)
        /\ P.type \in {kFirstType, kFullType} => P.from = 0
        /\ P.type \in {kLastType, kFullType} => P.from + P.n = Size(P.rec)
        /\ P.n = 0 => P.type \in {kFirstType, kFullType}
OrderInv ==
    \A P, Q \in emitted :
        /\ P.start = Q.start => P = Q
        /\ P.start < Q.start =>
              /\ P.start + P.len <= Q.start /\ P.rec <= Q.rec
              /\ P.rec = Q.rec => /\ P.from + P.n <= Q.from
                                  /\ P.type \notin {kFullType, kLastType}
ContInv ==
    \A Q \in emitted : Q.type \in {kMiddleType, kLastType} =>
        \E P \in emitted : /\ P.type \in {kFirstType, kMiddleType} /\ P.rec = Q.rec /\ Whole(P)
                           /\ P.start + P.len = Q.start /\ P.from + P.n = Q.from
CellInv ==
    \A p \in 1 .. Len(file) :
        \/ file[p] = Zero
        \/ file[p] = Bad
        \/ \E P \in emitted : Owns(P, p) /\ file[p] = CellOf(P, p - P.start)

\* The call of AddRecord that is under way.
AddInv ==
    phase = "add" =>
        /\ Len(records) > 0 /\ Len(left) <= Size(Len(records))
        /\ left = [k \in 1 .. Len(left) |->
                      Data(Len(records), Size(Len(records)) - Len(left) + k)]
        /\ begin => Len(left) = Size(Len(records))
        /\ \A P \in emitted : P.rec = Len(records) =>
              /\ ~begin /\ P.from + P.n <= Size(Len(records)) - Len(left)
              /\ P.type \notin {kFullType, kLastType}
        /\ ~begin =>
              /\ Len(left) > 0 /\ block_offset_ = kBlockSize
              /\ \E P \in emitted :
                    /\ P.type \in {kFirstType, kMiddleType} /\ P.rec = Len(records) /\ Whole(P)
                    /\ P.start + P.len = Len(file)
                    /\ P.from + P.n = Size(Len(records)) - Len(left)

\* Until something was appended behind a torn record, an empty first fragment
\* ends at the end of a block; one that was torn may be elsewhere only at the end.
EmptyFirst(P) == P.type = kFirstType /\ P.n = 0
LastOne(P) == \A Q \in emitted : Q.start <= P.start
AlignInv ==
    /\ seam = "none" /\ phase \in {"open", "add"} => Aligned(Len(file) - block_offset_)
    /\ \A P \in emitted : EmptyFirst(P) =>
          \/ Aligned(P.start + kHeaderSize)
          \/ seam # "none" /\ (P.len = kHeaderSize \/ (phase \notin {"open", "add"} /\ LastOne(P)))

WriterInv ==
    /\ RecordsInv /\ EmittedInv /\ OrderInv /\ ContInv /\ CellInv /\ AddInv /\ AlignInv

\* The buffer holds the cells of the file it stands for.
BufferInv ==
    /\ Len(buffer_) <= end_of_buffer_offset_
    /\ buffer_ # <<>> => end_of_buffer_offset_ <= Len(file)
    /\ \A k \in 1 .. Len(buffer_) : buffer_[k] = file[Pos + k]
    /\ phase = "read" /\ ~eof_ => Aligned(end_of_buffer_offset_)
IdleInv ==
    phase \in {"open", "add", "crashed"} =>
        buffer_ = <<>> /\ ~eof_ /\ out = <<>> /\ scratch = <<>> /\ ~in_fragmented_record

\* What was collected is what the continuation that is accepted next continues.
ScratchInv ==
    /\ resyncing_ => ~in_fragmented_record
    /\ in_fragmented_record /\ phase = "read" /\ (Len(buffer_) >= kHeaderSize \/ ~eof_) =>
          \A Q \in emitted : Q.type \in {kMiddleType, kLastType} /\ Q.start = NextPos =>
              scratch = [k \in 1 .. Q.from |-> Data(Q.rec, k)]

\* Every record returned was written, and all that is still to be read is later.
OutInv ==
    /\ \A j \in 1 .. Len(out) : out[j] # <<>> =>
          \E r \in 1 .. Len(records) :
             /\ out[j] = records[r].data
             /\ phase = "read" => \A P \in emitted : P.start >= Pos => P.rec > r
    /\ \A j \in 1 .. Len(out) : \A k \in 1 .. j - 1 :
          out[j] # <<>> /\ out[k] # <<>> => out[k][1].rec < out[j][1].rec

ReaderInv == BufferInv /\ IdleInv /\ ScratchInv /\ OutInv
Inv == TypeOK /\ WriterInv /\ (checksum_ => ReaderInv)

-----------------------------------------------------------------------------
(* The operators.                                                           *)

LEMMA CellsProps ==
    ASSUME NEW S, NEW n \in Nat, NEW c \in S
    PROVE  /\ Cells(n, c) \in Seq(S) /\ Len(Cells(n, c)) = n
           /\ \A k \in 1 .. n : Cells(n, c)[k] = c
  BY DEF Cells

LEMMA FromProps ==
    ASSUME NEW S, NEW s \in Seq(S), NEW n \in 0 .. Len(s)
    PROVE  /\ From(s, n) \in Seq(S) /\ Len(From(s, n)) = Len(s) - n
           /\ \A k \in 1 .. Len(s) - n : From(s, n)[k] = s[n + k]
  <1>1. Len(s) \in Nat /\ s \in [1 .. Len(s) -> S]  BY LenProperties
  <1>2. \A i \in n + 1 .. Len(s) : s[i] \in S  BY <1>1
  <1>3. n + 1 \in Int /\ Len(s) \in Int  BY <1>1
  <1> DEFINE t == SubSeq(s, n + 1, Len(s))
  <1>4. /\ t \in Seq(S) /\ Len(t) = IF n + 1 <= Len(s) THEN Len(s) - (n + 1) + 1 ELSE 0
        /\ \A i \in 1 .. Len(s) - (n + 1) + 1 : t[i] = s[(n + 1) + i - 1]
    BY <1>2, <1>3, SubSeqProperties
  <1>5. From(s, n) = t  BY DEF From
  <1> HIDE DEF t
  <1>6. Len(t) = Len(s) - n
    <2>1. Len(t) = IF n + 1 <= Len(s) THEN Len(s) - (n + 1) + 1 ELSE 0  BY <1>4
    <2>2. Len(s) \in Nat  BY <1>1
    <2> QED  BY <2>1, <2>2
  <1>7. \A k \in 1 .. Len(s) - n : t[k] = s[n + k]
    <2> TAKE k \in 1 .. Len(s) - n
    <2>1. k \in 1 .. Len(s) - (n + 1) + 1 /\ (n + 1) + k - 1 = n + k  BY <1>1
    <2> QED  BY <1>4, <2>1
  <1> QED  BY <1>4, <1>5, <1>6, <1>7

\* Behind the end of the file there is nothing to read.
LEMMA FromBehind ==
    ASSUME NEW S, NEW s \in Seq(S), NEW n \in Nat, n > Len(s)
    PROVE  From(s, n) = <<>>
  <1>1. Len(s) \in Int /\ n + 1 \in Int /\ Len(s) < n + 1  BY LenProperties
  <1>2. SubSeq(s, n + 1, Len(s)) = <<>>  BY <1>1, SubSeqEmpty, Zenon
  <1> QED  BY <1>2 DEF From

LEMMA FirstNProps ==
    ASSUME NEW S, NEW s \in Seq(S), NEW n \in Nat
    PROVE  /\ FirstN(s, n) \in Seq(S)
           /\ Len(FirstN(s, n)) = IF n < Len(s) THEN n ELSE Len(s)
           /\ \A k \in 1 .. Len(FirstN(s, n)) : FirstN(s, n)[k] = s[k]
  <1>1. Len(s) \in Nat /\ s \in [1 .. Len(s) -> S]  BY LenProperties
  <1> DEFINE m == IF n < Len(s) THEN n ELSE Len(s)
  <1>2. m \in Nat /\ m <= Len(s)  BY <1>1
  <1>3. \A i \in 1 .. m : s[i] \in S  BY <1>1, <1>2
  <1>4. FirstN(s, n) = SubSeq(s, 1, m)  BY DEF FirstN
  <1> HIDE DEF m
  <1>5. /\ SubSeq(s, 1, m) \in Seq(S) /\ Len(SubSeq(s, 1, m)) = m
        /\ \A k \in 1 .. m : SubSeq(s, 1, m)[k] = s[k]
    <2>1. /\ SubSeq(s, 1, m) \in Seq(S) /\ Len(SubSeq(s, 1, m)) = (IF 1 <= m THEN m - 1 + 1 ELSE 0)
          /\ \A k \in 1 .. m - 1 + 1 : SubSeq(s, 1, m)[k] = s[1 + k - 1]
      BY <1>2, <1>3, SubSeqProperties
    <2> QED  BY <1>2, <2>1
  <1> QED  BY <1>4, <1>5 DEF m

\* The cells of a physical record.
LEMMA PhysicalCells ==
    ASSUME NEW t \in 1 .. 4, NEW f \in Seq(DataCell)
    PROVE  /\ PhysicalRecord(t, f) \in Seq(Cell)
           /\ Len(PhysicalRecord(t, f)) = kHeaderSize + Len(f)
           /\ \A k \in 1 .. kHeaderSize - 2 :
                 PhysicalRecord(t, f)[k] = [kind |-> "crc", sum |-> <<t, f>>]
           /\ PhysicalRecord(t, f)[kHeaderSize - 1] = [kind |-> "len", n |-> Len(f)]
           /\ PhysicalRecord(t, f)[kHeaderSize] = [kind |-> "type", t |-> t]
           /\ \A k \in 1 .. Len(f) : PhysicalRecord(t, f)[kHeaderSize + k] = f[k]
  <1> DEFINE c == [kind |-> "crc", sum |-> <<t, f>>]
             h == Cells(kHeaderSize - 2, c)
             l == [kind |-> "len", n |-> Len(f)]
             y == [kind |-> "type", t |-> t]
             m == <<l, y>>
  <1>1. kHeaderSize \in Nat /\ kHeaderSize >= 3 /\ Len(f) \in Nat
    BY LogAssumption, LenProperties
  <1>2. c \in Cell /\ l \in Cell /\ y \in Cell  BY <1>1 DEF Cell
  <1>3. f \in Seq(Cell)
    <2>1. DataCell \subseteq Cell  BY DEF Cell
    <2> QED  BY <2>1, SeqMonotonic
  <1> HIDE DEF c, l, y
  <1>4. h \in Seq(Cell) /\ Len(h) = kHeaderSize - 2 /\ \A k \in 1 .. kHeaderSize - 2 : h[k] = c
    <2>1. kHeaderSize - 2 \in Nat  BY <1>1
    <2> QED  BY <1>2, <2>1, CellsProps, Zenon
  <1>5. m \in Seq(Cell) /\ Len(m) = 2 /\ m[1] = l /\ m[2] = y  BY <1>2
  <1> HIDE DEF h, m
  <1>12. /\ h \o m \in Seq(Cell) /\ Len(h \o m) = Len(h) + Len(m)
         /\ \A i \in 1 .. Len(h) + Len(m) :
               (h \o m)[i] = IF i <= Len(h) THEN h[i] ELSE m[i - Len(h)]
    BY <1>4, <1>5, ConcatProperties, Zenon
  <1>6. /\ h \o m \in Seq(Cell) /\ Len(h \o m) = kHeaderSize
        /\ \A k \in 1 .. kHeaderSize :
              (h \o m)[k] = IF k <= kHeaderSize - 2 THEN h[k] ELSE m[k - (kHeaderSize - 2)]
    BY <1>1, <1>4, <1>5, <1>12
  <1> DEFINE g == h \o m
  <1>13. g \in Seq(Cell) /\ Len(g) = kHeaderSize  BY <1>6
  <1>14. g[kHeaderSize - 1] = l /\ g[kHeaderSize] = y  
    <2>1. /\ kHeaderSize - 1 \in 1 .. kHeaderSize /\ ~(kHeaderSize - 1 <= kHeaderSize - 2)
          /\ kHeaderSize - 1 - (kHeaderSize - 2) = 1
          /\ kHeaderSize \in 1 .. kHeaderSize /\ ~(kHeaderSize <= kHeaderSize - 2)
          /\ kHeaderSize - (kHeaderSize - 2) = 2
      BY <1>1
    <2>2. /\ g[kHeaderSize - 1] = m[kHeaderSize - 1 - (kHeaderSize - 2)]
          /\ g[kHeaderSize] = m[kHeaderSize - (kHeaderSize - 2)]
      BY <1>6, <2>1, Zenon
    <2> QED  BY <1>5, <2>1, <2>2, Zenon
  <1>15. \A k \in 1 .. kHeaderSize - 2 : g[k] = c  BY <1>1, <1>4, <1>6
  <1> HIDE DEF g
  <1> DEFINE p == g \o f
  <1>7. /\ p \in Seq(Cell) /\ Len(p) = Len(g) + Len(f)
        /\ \A k \in 1 .. Len(g) + Len(f) : p[k] = IF k <= Len(g) THEN g[k] ELSE f[k - Len(g)]
    BY <1>3, <1>13, ConcatProperties
  <1>8. PhysicalRecord(t, f) = p  BY DEF PhysicalRecord, h, m, c, l, y, g, p
  <1> HIDE DEF p
  <1>9. \A k \in 1 .. kHeaderSize - 2 : p[k] = c  BY <1>1, <1>7, <1>13, <1>15
  <1>10. p[kHeaderSize - 1] = l /\ p[kHeaderSize] = y  BY <1>1, <1>7, <1>13, <1>14
  <1>11. \A k \in 1 .. Len(f) : p[kHeaderSize + k] = f[k]
    <2> TAKE k \in 1 .. Len(f)
    <2> DEFINE q == kHeaderSize + k
    <2>1. q \in 1 .. Len(g) + Len(f) /\ ~(q <= Len(g)) /\ q - Len(g) = k  BY <1>1, <1>13
    <2> HIDE DEF q
    <2>2. p[q] = f[q - Len(g)]  BY <1>7, <2>1
    <2> QED  BY <2>1, <2>2 DEF q
  <1>16. p \in Seq(Cell) /\ Len(p) = kHeaderSize + Len(f)  BY <1>7, <1>13
  <1> QED  BY <1>8, <1>9, <1>10, <1>11, <1>16, Zenon DEF c, l, y

LEMMA FragmentOfProps ==
    ASSUME NEW P \in Physical
    PROVE  /\ FragmentOf(P) \in Seq(DataCell) /\ Len(FragmentOf(P)) = P.n
           /\ \A k \in 1 .. P.n : FragmentOf(P)[k] = Data(P.rec, P.from + k)
  <1>1. P.n \in Nat /\ P.rec \in Nat /\ P.from \in Nat  BY DEF Physical
  <1>2. \A k \in 1 .. P.n : Data(P.rec, P.from + k) \in DataCell  BY <1>1 DEF Data, DataCell
  <1>3. FragmentOf(P) \in [1 .. P.n -> DataCell]  BY <1>2, Zenon DEF FragmentOf
  <1>4. FragmentOf(P) \in Seq(DataCell) /\ Len(FragmentOf(P)) = P.n
    <2> HIDE DEF FragmentOf
    <2> QED  BY <1>1, <1>3
  <1>5. \A k \in 1 .. P.n : FragmentOf(P)[k] = Data(P.rec, P.from + k)  BY DEF FragmentOf
  <1> QED  BY <1>4, <1>5

LEMMA CellOfProps ==
    ASSUME NEW P \in Physical
    PROVE  /\ \A k \in 1 .. kHeaderSize - 2 :
                 CellOf(P, k) = [kind |-> "crc", sum |-> <<P.type, FragmentOf(P)>>]
           /\ CellOf(P, kHeaderSize - 1).kind = "len"
           /\ CellOf(P, kHeaderSize).kind = "type"
           /\ \A k \in kHeaderSize + 1 .. kHeaderSize + P.n :
                 CellOf(P, k) = Data(P.rec, P.from + (k - kHeaderSize))
  <1>1. P.type \in 1 .. 4 /\ P.n \in Nat  BY DEF Physical
  <1>2. kHeaderSize \in Nat  BY LogAssumption
  <1>3. FragmentOf(P) \in Seq(DataCell) /\ Len(FragmentOf(P)) = P.n
        /\ \A k \in 1 .. P.n : FragmentOf(P)[k] = Data(P.rec, P.from + k)
    BY FragmentOfProps
  <1> DEFINE p == PhysicalRecord(P.type, FragmentOf(P))
             f == FragmentOf(P)
  <1>4. /\ \A k \in 1 .. kHeaderSize - 2 : p[k] = [kind |-> "crc", sum |-> <<P.type, f>>]
        /\ p[kHeaderSize - 1] = [kind |-> "len", n |-> Len(f)]
        /\ p[kHeaderSize] = [kind |-> "type", t |-> P.type]
        /\ \A k \in 1 .. Len(f) : p[kHeaderSize + k] = f[k]
    BY <1>1, <1>3, PhysicalCells, ZenonT(60)
  <1>5. \A k \in Int : CellOf(P, k) = p[k]  BY DEF CellOf
  <1> HIDE DEF p
  <1>6. \A k \in kHeaderSize + 1 .. kHeaderSize + P.n : p[k] = Data(P.rec, P.from + (k - kHeaderSize))
    <2> TAKE k \in kHeaderSize + 1 .. kHeaderSize + P.n
    <2> DEFINE j == k - kHeaderSize
    <2>1. j \in 1 .. P.n /\ k = kHeaderSize + j  BY <1>1, <1>2
    <2> HIDE DEF j
    <2>2. p[kHeaderSize + j] = Data(P.rec, P.from + j)  BY <1>3, <1>4, <2>1
    <2> QED  BY <2>1, <2>2 DEF j
  <1>7. \A k \in 1 .. kHeaderSize - 2 : CellOf(P, k) = p[k]  BY <1>2, <1>5
  <1>8. kHeaderSize - 1 \in Int /\ kHeaderSize \in Int  BY <1>2
  <1>9. CellOf(P, kHeaderSize - 1).kind = "len" /\ CellOf(P, kHeaderSize).kind = "type"
    BY <1>4, <1>5, <1>8
  <1>10. \A k \in kHeaderSize + 1 .. kHeaderSize + P.n : CellOf(P, k) = p[k]  BY <1>1, <1>2, <1>5
  <1> QED  BY <1>4, <1>6, <1>7, <1>9, <1>10

-----------------------------------------------------------------------------
(* One iteration of the loop of AddRecord.                                  *)

LEMMA TrailerProps ==
    ASSUME TypeOK
    PROVE  /\ Trailer \in Seq(Cell) /\ \A k \in 1 .. Len(Trailer) : Trailer[k] = Zero
           /\ Len(Trailer) = IF kBlockSize - block_offset_ < kHeaderSize
                             THEN kBlockSize - block_offset_ ELSE 0
           /\ Len(Trailer) \in Nat
           /\ Offset \in Nat /\ Offset <= kBlockSize - kHeaderSize
           /\ kBlockSize - Offset - kHeaderSize \in Nat
  <1>1. /\ kHeaderSize \in Nat /\ kHeaderSize >= 3 /\ kBlockSize \in Nat
        /\ kBlockSize >= 2 * kHeaderSize /\ block_offset_ \in 0 .. kBlockSize
    BY LogAssumption DEF TypeOK
  <1>2. Zero \in Cell  BY DEF Cell
  <1>3. Offset \in Nat /\ Offset <= kBlockSize - kHeaderSize
        /\ kBlockSize - Offset - kHeaderSize \in Nat
    BY <1>1 DEF Offset
  <1>4. CASE kBlockSize - block_offset_ < kHeaderSize
    <2> DEFINE n == kBlockSize - block_offset_
    <2>1. n \in Nat  BY <1>1
    <2>2. Trailer = Cells(n, Zero)  BY <1>4 DEF Trailer
    <2> HIDE DEF n
    <2>3. /\ Cells(n, Zero) \in Seq(Cell) /\ Len(Cells(n, Zero)) = n
          /\ \A k \in 1 .. n : Cells(n, Zero)[k] = Zero
      BY <1>2, <2>1, CellsProps, Zenon
    <2> QED  BY <1>3, <1>4, <2>1, <2>2, <2>3, Zenon DEF n
  <1>5. CASE ~(kBlockSize - block_offset_ < kHeaderSize)
    <2>1. Trailer = <<>>  BY <1>5 DEF Trailer
    <2>2. Trailer \in Seq(Cell) /\ Len(Trailer) = 0  BY <2>1
    <2>3. \A k \in 1 .. Len(Trailer) : Trailer[k] = Zero  BY <2>2
    <2> QED  BY <1>3, <1>5, <2>2, <2>3
  <1> QED  BY <1>4, <1>5

\* The fragment is the next part of the record, and fills the block or ends it.
LEMMA FragmentProps ==
    ASSUME TypeOK, AddInv, phase = "add"
    PROVE  /\ Fragment \in Seq(DataCell) /\ Len(Fragment) \in Nat
           /\ Len(Fragment) <= Len(left) /\ Len(Fragment) <= kBlockSize - Offset - kHeaderSize
           /\ ~IsEnd => Len(Fragment) = kBlockSize - Offset - kHeaderSize
           /\ ~begin => Len(Fragment) > 0
           /\ \A k \in 1 .. Len(Fragment) :
                 Fragment[k] = Data(Len(records), Size(Len(records)) - Len(left) + k)
  <1> DEFINE m == kBlockSize - Offset - kHeaderSize
  <1>1. m \in Nat  BY TrailerProps
  <1>2. left \in Seq(DataCell) /\ Len(left) \in Nat  BY LenProperties DEF TypeOK
  <1>3. Fragment = FirstN(left, m)  BY DEF Fragment
  <1>9. ~begin => m > 0
    <2> HAVE ~begin
    <2>1. block_offset_ = kBlockSize  BY DEF AddInv
    <2> QED  BY <2>1, LogAssumption DEF Offset
  <1> HIDE DEF m
  <1>4. /\ FirstN(left, m) \in Seq(DataCell)
        /\ Len(FirstN(left, m)) = IF m < Len(left) THEN m ELSE Len(left)
        /\ \A k \in 1 .. Len(FirstN(left, m)) : FirstN(left, m)[k] = left[k]
    BY <1>1, <1>2, FirstNProps, Zenon
  <1>5. /\ Fragment \in Seq(DataCell) /\ Len(Fragment) = IF m < Len(left) THEN m ELSE Len(left)
    BY <1>3, <1>4
  <1>6. Len(Fragment) \in Nat /\ Len(Fragment) <= Len(left) /\ Len(Fragment) <= m
    BY <1>1, <1>2, <1>5
  <1>7. ~IsEnd => Len(Fragment) = m  BY <1>5 DEF IsEnd
  <1>8. \A k \in 1 .. Len(Fragment) : Fragment[k] = Data(Len(records), Size(Len(records)) - Len(left) + k)
    <2> TAKE k \in 1 .. Len(Fragment)
    <2>1. Fragment[k] = left[k]  BY <1>3, <1>4
    <2>2. k \in 1 .. Len(left)  BY <1>2, <1>6
    <2>3. left = [i \in 1 .. Len(left) |-> Data(Len(records), Size(Len(records)) - Len(left) + i)]
      BY DEF AddInv
    <2>4. left[k] = Data(Len(records), Size(Len(records)) - Len(left) + k)
      BY <2>2, <2>3, Zenon
    <2> QED  BY <2>1, <2>4
  <1>10. ~begin => Len(Fragment) > 0
    <2> HAVE ~begin
    <2>1. Len(left) > 0  BY DEF AddInv
    <2> QED  BY <1>1, <1>2, <1>5, <1>9, <2>1
  <1> QED  BY <1>5, <1>6, <1>7, <1>8, <1>10 DEF m

LEMMA TypeProps ==
    ASSUME TypeOK
    PROVE  /\ Type \in 1 .. 4
           /\ Type \in {kFirstType, kFullType} <=> begin
           /\ Type \in {kLastType, kFullType} <=> IsEnd
  <1>1. begin \in BOOLEAN /\ IsEnd \in BOOLEAN  BY DEF TypeOK, IsEnd
  <1>2. CASE begin /\ IsEnd
    <2>1. Type = 1  BY <1>2 DEF Type, FragmentType, kFullType
    <2> QED  BY <1>2, <2>1 DEF kFirstType, kFullType, kLastType
  <1>3. CASE begin /\ ~IsEnd
    <2>1. Type = 2  BY <1>3 DEF Type, FragmentType, kFirstType
    <2> QED  BY <1>3, <2>1 DEF kFirstType, kFullType, kLastType
  <1>4. CASE ~begin /\ IsEnd
    <2>1. Type = 4  BY <1>4 DEF Type, FragmentType, kLastType
    <2> QED  BY <1>4, <2>1 DEF kFirstType, kFullType, kLastType
  <1>5. CASE ~begin /\ ~IsEnd
    <2>1. Type = 3  BY <1>5 DEF Type, FragmentType, kMiddleType
    <2> QED  BY <1>5, <2>1 DEF kFirstType, kFullType, kLastType
  <1> QED  BY <1>1, <1>2, <1>3, <1>4, <1>5

LEMMA EmittedProps ==
    ASSUME TypeOK, AddInv, phase = "add", NEW n \in Nat
    PROVE  /\ Emitted(n) \in Physical
           /\ Emitted(n).start = Len(file) + Len(Trailer) /\ Emitted(n).type = Type
           /\ Emitted(n).rec = Len(records) /\ Emitted(n).len = n
           /\ Emitted(n).from = Size(Len(records)) - Len(left)
           /\ Emitted(n).n = Len(Fragment)
           /\ FragmentOf(Emitted(n)) = Fragment
  <1>1. /\ Len(file) \in Nat /\ Len(records) \in Nat /\ Len(left) \in Nat
        /\ records \in Seq(Entry)
    BY LenProperties DEF TypeOK
  <1>2. Len(Trailer) \in Nat  BY TrailerProps
  <1>3. Len(records) > 0 /\ Len(left) <= Size(Len(records))  BY DEF AddInv
  <1>4. Size(Len(records)) \in Nat
    <2>1. records[Len(records)] \in Entry  BY <1>1, <1>3, ElementOfSeq
    <2>2. records[Len(records)].data \in Seq(DataCell)  BY <2>1 DEF Entry
    <2> QED  BY <2>2, LenProperties DEF Size
  <1>5. Type \in 1 .. 4  BY TypeProps
  <1>6. /\ Fragment \in Seq(DataCell) /\ Len(Fragment) \in Nat
        /\ \A k \in 1 .. Len(Fragment) :
                 Fragment[k] = Data(Len(records), Size(Len(records)) - Len(left) + k)
    BY FragmentProps
  <1> DEFINE P == Emitted(n)
  <1>7. P = [start |-> Len(file) + Len(Trailer), type |-> Type, rec |-> Len(records),
             from |-> Size(Len(records)) - Len(left), n |-> Len(Fragment), len |-> n]
    BY DEF Emitted, Size
  <1>8. /\ P.start = Len(file) + Len(Trailer) /\ P.type = Type
        /\ P.rec = Len(records) /\ P.len = n
        /\ P.from = Size(Len(records)) - Len(left) /\ P.n = Len(Fragment)
    BY <1>7
  <1>9. P \in Physical
    <2>1. Len(file) + Len(Trailer) \in Nat /\ Size(Len(records)) - Len(left) \in Nat
      BY <1>1, <1>2, <1>3, <1>4
    <2> QED  BY <1>1, <1>5, <1>6, <1>7, <2>1 DEF Physical
  <1> HIDE DEF P
  <1>10. FragmentOf(P) = Fragment
    <2>1. /\ FragmentOf(P) \in Seq(DataCell) /\ Len(FragmentOf(P)) = P.n
          /\ \A k \in 1 .. P.n : FragmentOf(P)[k] = Data(P.rec, P.from + k)
      BY <1>9, FragmentOfProps, Zenon
    <2>2. \A k \in 1 .. Len(FragmentOf(P)) : FragmentOf(P)[k] = Fragment[k]
      BY <1>6, <1>8, <2>1
    <2> QED  BY <1>6, <1>8, <2>1, <2>2, SeqEqual
  <1> QED  BY <1>8, <1>9, <1>10 DEF P

\* The file behind n cells of the physical record.
FileAfter(n) == file \o Trailer \o SubSeq(PhysicalRecord(Type, Fragment), 1, n)

LEMMA FileAfterProps ==
    ASSUME TypeOK, AddInv, phase = "add", NEW n \in 0 .. kHeaderSize + Len(Fragment)
    PROVE  /\ FileAfter(n) \in Seq(Cell)
           /\ Len(FileAfter(n)) = Len(file) + Len(Trailer) + n
           /\ \A p \in 1 .. Len(file) : FileAfter(n)[p] = file[p]
           /\ \A p \in Len(file) + 1 .. Len(file) + Len(Trailer) : FileAfter(n)[p] = Zero
           /\ \A p \in Len(file) + Len(Trailer) + 1 .. Len(file) + Len(Trailer) + n :
                 FileAfter(n)[p] = CellOf(Emitted(n), p - (Len(file) + Len(Trailer)))
  <1> DEFINE r == PhysicalRecord(Type, Fragment)
             s == SubSeq(r, 1, n)
             g == file \o Trailer
  <1>1. Fragment \in Seq(DataCell) /\ Len(Fragment) \in Nat /\ Type \in 1 .. 4
        /\ kHeaderSize \in Nat /\ n \in Nat
    BY FragmentProps, TypeProps, LogAssumption
  <1>2. r \in Seq(Cell) /\ Len(r) = kHeaderSize + Len(Fragment)
    BY <1>1, PhysicalCells, Zenon
  <1>3. \A k \in Int : CellOf(Emitted(n), k) = r[k]
    <2>1. Emitted(n).type = Type /\ FragmentOf(Emitted(n)) = Fragment  BY <1>1, EmittedProps
    <2> QED  BY <2>1 DEF CellOf
  <1> HIDE DEF r
  <1>4. s \in Seq(Cell) /\ Len(s) = n /\ \A k \in 1 .. n : s[k] = r[k]
    <2>1. \A k \in 1 .. n : r[k] \in Cell
      <3>1. \A k \in 1 .. Len(r) : r[k] \in Cell  BY <1>2, ElementOfSeq
      <3> QED  BY <1>1, <1>2, <3>1
    <2>2. /\ s \in Seq(Cell) /\ Len(s) = IF 1 <= n THEN n - 1 + 1 ELSE 0
          /\ \A k \in 1 .. n - 1 + 1 : s[k] = r[1 + k - 1]
      BY <1>1, <2>1, SubSeqProperties
    <2> HIDE DEF s
    <2>3. Len(s) = n
      <3>1. Len(s) = IF 1 <= n THEN n - 1 + 1 ELSE 0  BY <2>2
      <3> QED  BY <1>1, <3>1
    <2>4. \A k \in 1 .. n : s[k] = r[k]
      <3> TAKE k \in 1 .. n
      <3>1. k \in 1 .. n - 1 + 1 /\ 1 + k - 1 = k  BY <1>1
      <3> QED  BY <2>2, <3>1
    <2> QED  BY <2>2, <2>3, <2>4
  <1> HIDE DEF s
  <1>5. file \in Seq(Cell) /\ Trailer \in Seq(Cell) /\ Len(file) \in Nat /\ Len(Trailer) \in Nat
    BY TrailerProps, LenProperties DEF TypeOK
  <1>6. /\ g \in Seq(Cell) /\ Len(g) = Len(file) + Len(Trailer)
        /\ \A p \in 1 .. Len(file) + Len(Trailer) :
              g[p] = IF p <= Len(file) THEN file[p] ELSE Trailer[p - Len(file)]
    BY <1>5, ConcatProperties, Zenon
  <1> HIDE DEF g
  <1> DEFINE f == g \o s
  <1>7. /\ f \in Seq(Cell) /\ Len(f) = Len(g) + Len(s)
        /\ \A p \in 1 .. Len(g) + Len(s) : f[p] = IF p <= Len(g) THEN g[p] ELSE s[p - Len(g)]
    <2>1. g \in Seq(Cell) /\ s \in Seq(Cell)  BY <1>4, <1>6
    <2> QED  BY <2>1, ConcatProperties
  <1>8. FileAfter(n) = f  BY DEF FileAfter, f, g, s, r
  <1> HIDE DEF f
  <1>9. Len(f) = Len(file) + Len(Trailer) + n  BY <1>4, <1>6, <1>7
  <1>10. \A p \in 1 .. Len(file) : f[p] = file[p]
    <2> TAKE p \in 1 .. Len(file)
    <2>1. /\ p \in 1 .. Len(g) + Len(s) /\ p <= Len(g) /\ p \in 1 .. Len(file) + Len(Trailer)
          /\ p <= Len(file)
      <3>1. Len(g) = Len(file) + Len(Trailer) /\ Len(s) = n  BY <1>4, <1>6
      <3> QED  BY <1>1, <1>5, <3>1
    <2>2. f[p] = g[p]  BY <1>7, <2>1
    <2>3. g[p] = file[p]  BY <1>6, <2>1
    <2> QED  BY <2>2, <2>3
  <1>11. \A p \in Len(file) + 1 .. Len(file) + Len(Trailer) : f[p] = Zero
    <2> TAKE p \in Len(file) + 1 .. Len(file) + Len(Trailer)
    <2>1. /\ p \in 1 .. Len(g) + Len(s) /\ p <= Len(g) /\ p \in 1 .. Len(file) + Len(Trailer)
          /\ ~(p <= Len(file)) /\ p - Len(file) \in 1 .. Len(Trailer)
      <3>1. Len(g) = Len(file) + Len(Trailer) /\ Len(s) = n  BY <1>4, <1>6
      <3> QED  BY <1>1, <1>5, <3>1
    <2>2. f[p] = g[p]  BY <1>7, <2>1
    <2>3. g[p] = Trailer[p - Len(file)]  BY <1>6, <2>1
    <2>4. Trailer[p - Len(file)] = Zero  BY <2>1, TrailerProps
    <2> QED  BY <2>2, <2>3, <2>4
  <1>12. \A p \in Len(file) + Len(Trailer) + 1 .. Len(file) + Len(Trailer) + n :
            f[p] = CellOf(Emitted(n), p - (Len(file) + Len(Trailer)))
    <2> TAKE p \in Len(file) + Len(Trailer) + 1 .. Len(file) + Len(Trailer) + n
    <2> DEFINE k == p - (Len(file) + Len(Trailer))
    <2>1. p \in 1 .. Len(g) + Len(s) /\ ~(p <= Len(g)) /\ p - Len(g) = k /\ k \in 1 .. n /\ k \in Int
      <3>1. Len(g) = Len(file) + Len(Trailer) /\ Len(s) = n  BY <1>4, <1>6
      <3> QED  BY <1>1, <1>5, <3>1
    <2> HIDE DEF k
    <2>2. f[p] = s[k]  BY <1>7, <2>1
    <2>3. s[k] = r[k]  BY <1>4, <2>1
    <2> QED  BY <1>3, <2>1, <2>2, <2>3 DEF k
  <1> QED  BY <1>7, <1>8, <1>9, <1>10, <1>11, <1>12

LEMMA SizeNat ==
    ASSUME TypeOK, NEW r \in 1 .. Len(records)
    PROVE  Size(r) \in Nat
  <1>1. records[r] \in Entry  BY ElementOfSeq DEF TypeOK
  <1>2. records[r].data \in Seq(DataCell)  BY <1>1 DEF Entry
  <1> QED  BY <1>2, LenProperties DEF Size

\* Appending a trailer and n cells of the next physical record.
LEMMA AppendStep ==
    ASSUME TypeOK, RecordsInv, EmittedInv, OrderInv, ContInv, CellInv, AddInv, phase = "add",
           NEW n \in 0 .. kHeaderSize + Len(Fragment), file' = FileAfter(n),
           emitted' = IF n = 0 THEN emitted ELSE emitted \cup {Emitted(n)},
           Len(records') = Len(records),
           \A r \in 1 .. Len(records) : records'[r].data = records[r].data
    PROVE  /\ emitted' \subseteq Physical /\ file' \in Seq(Cell)
           /\ RecordsInv' /\ EmittedInv' /\ OrderInv' /\ ContInv' /\ CellInv'
  <1> DEFINE R == Len(records)
  <1>1. /\ kHeaderSize \in Nat /\ n \in Nat /\ Len(Fragment) \in Nat
        /\ Len(file) \in Nat /\ Len(Trailer) \in Nat /\ R \in Nat
        /\ Len(left) \in Nat
    BY LogAssumption, FragmentProps, TrailerProps, LenProperties DEF TypeOK
  <1>2. R > 0 /\ Size(R) \in Nat /\ Len(left) <= Size(R)
    <2>1. R > 0 /\ Len(left) <= Size(R)  BY DEF AddInv
    <2> QED  BY <1>1, <2>1, SizeNat
  <1>3. PICK P : P = Emitted(n)  OBVIOUS
  <1>4. /\ P \in Physical /\ P.start = Len(file) + Len(Trailer) /\ P.type = Type
        /\ P.rec = R /\ P.len = n /\ P.from = Size(R) - Len(left) /\ P.n = Len(Fragment)
    BY <1>1, <1>3, EmittedProps
  <1>5. \A r \in 1 .. R : Size(r)' = Size(r)  BY DEF Size
  <1>6. /\ file' \in Seq(Cell) /\ Len(file') = Len(file) + Len(Trailer) + n
        /\ \A p \in 1 .. Len(file) : file'[p] = file[p]
        /\ \A p \in Len(file) + 1 .. Len(file) + Len(Trailer) : file'[p] = Zero
        /\ \A p \in Len(file) + Len(Trailer) + 1 .. Len(file) + Len(Trailer) + n :
              file'[p] = CellOf(P, p - (Len(file) + Len(Trailer)))
    BY <1>3, FileAfterProps
  <1>7. \A Q \in emitted' : Q \in emitted \/ (n > 0 /\ Q = P)  BY <1>1, <1>3
  <1>8. emitted \subseteq emitted' /\ (n > 0 => P \in emitted')  BY <1>1, <1>3
  <1>9. emitted' \subseteq Physical  BY <1>4, <1>7 DEF TypeOK
  <1>10. \A Q \in emitted : /\ Q \in Physical /\ Q.rec \in 1 .. R /\ Q.start + Q.len <= Len(file)
                            /\ 1 <= Q.len /\ Q.start < P.start /\ Q.start + Q.len <= P.start
    <2> TAKE Q \in emitted
    <2>1. Q \in Physical  BY DEF TypeOK
    <2>2. Q.start \in Nat /\ Q.len \in Nat  BY <2>1 DEF Physical
    <2>3. Q.rec \in 1 .. R /\ Q.start + Q.len <= Len(file) /\ 1 <= Q.len  BY DEF EmittedInv
    <2> QED  BY <1>1, <1>4, <2>1, <2>2, <2>3, SMTT(60)
  <1>11. RecordsInv'
    <2> SUFFICES ASSUME NEW r \in 1 .. R
                 PROVE  records'[r].data = [k \in 1 .. Size(r)' |-> Data(r, k)]
      BY DEF RecordsInv
    <2> QED  BY <1>5 DEF RecordsInv
  <1>12. EmittedInv'
    <2> SUFFICES ASSUME NEW Q \in emitted'
                 PROVE  /\ Q.rec \in 1 .. R /\ Q.from + Q.n <= Size(Q.rec)'
                        /\ 1 <= Q.len /\ Q.len <= kHeaderSize + Q.n
                        /\ Q.start + Q.len <= Len(file')
                        /\ Q.type \in {kFirstType, kFullType} => Q.from = 0
                        /\ Q.type \in {kLastType, kFullType} => Q.from + Q.n = Size(Q.rec)'
                        /\ Q.n = 0 => Q.type \in {kFirstType, kFullType}
      BY DEF EmittedInv
    <2>1. CASE Q \in emitted
      <3>1. Q.start + Q.len <= Len(file')
        <4>1. Q.start \in Nat /\ Q.len \in Nat /\ Q.start + Q.len <= Len(file)
          BY <1>10, <2>1 DEF Physical
        <4>2. Len(file') = Len(file) + Len(Trailer) + n  BY <1>6
        <4> QED  BY <1>1, <4>1, <4>2
      <3>2. Q.rec \in 1 .. R /\ Size(Q.rec)' = Size(Q.rec)  BY <1>5, <1>10, <2>1
      <3> QED  BY <2>1, <3>1, <3>2 DEF EmittedInv
    <2>2. CASE n > 0 /\ Q = P
      <3>1. Size(R)' = Size(R) /\ R \in 1 .. R  BY <1>1, <1>2, <1>5
      <3>2. Len(Fragment) <= Len(left) /\ (~begin => Len(Fragment) > 0)  BY FragmentProps
      <3>3. /\ P.type \in {kFirstType, kFullType} <=> begin
            /\ P.type \in {kLastType, kFullType} <=> Len(Fragment) = Len(left)
        BY <1>4, TypeProps DEF IsEnd
      <3>4. begin => Len(left) = Size(R)  BY DEF AddInv
      <3>5. Len(file') = Len(file) + Len(Trailer) + n  BY <1>6
      <3>6. P.from + P.n <= Size(R) /\ P.start + P.len <= Len(file')
        BY <1>1, <1>2, <1>4, <3>2, <3>5
      <3>7. 1 <= P.len /\ P.len <= kHeaderSize + P.n  BY <1>1, <1>4, <2>2
      <3>8. P.type \in {kFirstType, kFullType} => P.from = 0  BY <1>1, <1>2, <1>4, <3>3, <3>4
      <3>9. P.type \in {kLastType, kFullType} => P.from + P.n = Size(R)
        BY <1>1, <1>2, <1>4, <3>3
      <3>10. P.n = 0 => P.type \in {kFirstType, kFullType}  BY <1>1, <1>4, <3>2, <3>3
      <3> QED  BY <1>4, <2>2, <3>1, <3>6, <3>7, <3>8, <3>9, <3>10
    <2> QED  BY <1>7, <2>1, <2>2
  <1>13. OrderInv'
    <2> SUFFICES ASSUME NEW A \in emitted', NEW B \in emitted'
                 PROVE  /\ A.start = B.start => A = B
                        /\ A.start < B.start =>
                              /\ A.start + A.len <= B.start /\ A.rec <= B.rec
                              /\ A.rec = B.rec => /\ A.from + A.n <= B.from
                                                  /\ A.type \notin {kFullType, kLastType}
      BY DEF OrderInv
    <2>1. CASE A \in emitted /\ B \in emitted  BY <2>1 DEF OrderInv
    <2>2. CASE A \in emitted /\ B = P
      <3>1. /\ A.start \in Nat /\ B.start \in Nat /\ A.rec \in 1 .. R /\ A.start < B.start
            /\ A.start + A.len <= B.start
        BY <1>4, <1>10, <2>2 DEF Physical
      <3>2. A.rec = R => /\ A.from + A.n <= Size(R) - Len(left)
                         /\ A.type \notin {kFullType, kLastType}
        BY <2>2 DEF AddInv
      <3> QED  BY <1>1, <1>4, <2>2, <3>1, <3>2, SMTT(60)
    <2>3. CASE A = P /\ B \in emitted
      <3>1. A.start \in Nat /\ B.start \in Nat /\ B.start < A.start
        BY <1>4, <1>10, <2>3 DEF Physical
      <3> QED  BY <3>1
    <2>4. CASE A = P /\ B = P
      <3>1. A.start \in Nat  BY <1>4, <2>4 DEF Physical
      <3> QED  BY <2>4, <3>1
    <2> QED  BY <1>7, <2>1, <2>2, <2>3, <2>4
  <1>14. ContInv'
    <2> SUFFICES ASSUME NEW Q \in emitted', Q.type \in {kMiddleType, kLastType}
                 PROVE  \E A \in emitted' :
                           /\ A.type \in {kFirstType, kMiddleType} /\ A.rec = Q.rec /\ Whole(A)
                           /\ A.start + A.len = Q.start /\ A.from + A.n = Q.from
      BY DEF ContInv, Whole
    <2>1. CASE Q \in emitted
      <3>1. PICK A \in emitted :
               /\ A.type \in {kFirstType, kMiddleType} /\ A.rec = Q.rec /\ Whole(A)
               /\ A.start + A.len = Q.start /\ A.from + A.n = Q.from
        BY <2>1 DEF ContInv
      <3> QED  BY <1>8, <3>1
    <2>2. CASE Q = P
      <3>1. ~begin
        <4>1. P.type \in {kFirstType, kFullType} <=> begin  BY <1>4, TypeProps
        <4> QED  BY <2>2, <4>1 DEF kMiddleType, kLastType, kFirstType, kFullType
      <3>2. PICK A \in emitted :
               /\ A.type \in {kFirstType, kMiddleType} /\ A.rec = R /\ Whole(A)
               /\ A.start + A.len = Len(file)
               /\ A.from + A.n = Size(R) - Len(left)
        BY <3>1 DEF AddInv
      <3>3. Len(Trailer) = 0
        <4>1. block_offset_ = kBlockSize  BY <3>1 DEF AddInv
        <4>2. kBlockSize \in Nat /\ kHeaderSize >= 3  BY LogAssumption
        <4>3. Len(Trailer) = IF kBlockSize - block_offset_ < kHeaderSize
                             THEN kBlockSize - block_offset_ ELSE 0
          BY TrailerProps
        <4> QED  BY <1>1, <4>1, <4>2, <4>3
      <3>4. A.start + A.len = P.start /\ A.rec = P.rec /\ A.from + A.n = P.from
        BY <1>1, <1>4, <3>2, <3>3
      <3> QED  BY <1>8, <2>2, <3>2, <3>4
    <2> QED  BY <1>7, <2>1, <2>2
  <1>15. CellInv'
    <2> SUFFICES ASSUME NEW p \in 1 .. Len(file')
                 PROVE  \/ file'[p] = Zero
                        \/ file'[p] = Bad
                        \/ \E Q \in emitted' : Owns(Q, p) /\ file'[p] = CellOf(Q, p - Q.start)
      BY DEF CellInv, Owns
    <2>0. Len(file') = Len(file) + Len(Trailer) + n  BY <1>6
    <2>1. CASE p \in 1 .. Len(file)
      <3>1. file'[p] = file[p]  BY <1>6, <2>1
      <3>2. \/ file[p] = Zero
            \/ file[p] = Bad
            \/ \E Q \in emitted : Owns(Q, p) /\ file[p] = CellOf(Q, p - Q.start)
        BY <2>1 DEF CellInv
      <3> QED  BY <1>8, <3>1, <3>2
    <2>2. CASE p \in Len(file) + 1 .. Len(file) + Len(Trailer)
      BY <1>6, <2>2
    <2>3. CASE p \in Len(file) + Len(Trailer) + 1 .. Len(file) + Len(Trailer) + n
      <3>1. file'[p] = CellOf(P, p - P.start)  BY <1>4, <1>6, <2>3
      <3>2. n > 0 /\ Owns(P, p)  BY <1>1, <1>4, <2>3 DEF Owns
      <3> QED  BY <1>8, <3>1, <3>2
    <2> QED  BY <1>1, <2>0, <2>1, <2>2, <2>3
  <1> QED  BY <1>6, <1>9, <1>11, <1>12, <1>13, <1>14, <1>15

\* Multiples of the block size.
LEMMA AlignedNext ==
    ASSUME NEW x \in Int, Aligned(x)
    PROVE  Aligned(x + kBlockSize)
  <1>1. kBlockSize \in Int  BY LogAssumption
  <1>2. PICK k \in Int : x = k * kBlockSize  BY DEF Aligned
  <1>3. k + 1 \in Int /\ x + kBlockSize = (k + 1) * kBlockSize  BY <1>1, <1>2
  <1> QED  BY <1>3 DEF Aligned

\* Until something was appended behind a torn record the offset in the block
\* is the offset in the file.
LEMMA AlignStep ==
    ASSUME TypeOK, AddInv, AlignInv, phase = "add", seam = "none"
    PROVE  /\ Aligned(Len(file) + Len(Trailer) - Offset)
           /\ Len(Fragment) = 0 /\ ~IsEnd => Aligned(Len(file) + Len(Trailer) + kHeaderSize)
  <1>1. /\ kHeaderSize \in Nat /\ kBlockSize \in Nat /\ block_offset_ \in Nat
        /\ block_offset_ <= kBlockSize
    BY LogAssumption DEF TypeOK
  <1>2. Len(file) \in Nat /\ Len(Trailer) \in Nat /\ Offset \in Nat
    BY TrailerProps, LenProperties DEF TypeOK
  <1>3. Aligned(Len(file) - block_offset_)  BY DEF AlignInv
  <1>4. Len(Trailer) = IF kBlockSize - block_offset_ < kHeaderSize
                       THEN kBlockSize - block_offset_ ELSE 0
    BY TrailerProps
  <1>5. Aligned(Len(file) + Len(Trailer) - Offset)
    <2>1. CASE kBlockSize - block_offset_ < kHeaderSize
      <3> DEFINE x == Len(file) - block_offset_
      <3>1. x \in Int /\ Len(file) + Len(Trailer) - Offset = x + kBlockSize
        BY <1>1, <1>2, <1>4, <2>1 DEF Offset
      <3> HIDE DEF x
      <3>2. Aligned(x + kBlockSize)  BY <1>3, <3>1, AlignedNext DEF x
      <3> QED  BY <3>1, <3>2
    <2>2. CASE ~(kBlockSize - block_offset_ < kHeaderSize)
      <3>1. Len(file) + Len(Trailer) - Offset = Len(file) - block_offset_
        BY <1>1, <1>2, <1>4, <2>2 DEF Offset
      <3> QED  BY <1>3, <3>1
    <2> QED  BY <2>1, <2>2
  <1>6. ASSUME Len(Fragment) = 0, ~IsEnd
        PROVE  Aligned(Len(file) + Len(Trailer) + kHeaderSize)
    <2> DEFINE x == Len(file) + Len(Trailer) - Offset
    <2>1. 0 = kBlockSize - Offset - kHeaderSize  BY <1>6, FragmentProps
    <2>2. x \in Int /\ Len(file) + Len(Trailer) + kHeaderSize = x + kBlockSize
      BY <1>1, <1>2, <2>1
    <2> HIDE DEF x
    <2>3. Aligned(x + kBlockSize)  BY <1>5, <2>2, AlignedNext DEF x
    <2> QED  BY <2>2, <2>3
  <1> QED  BY <1>5, <1>6

-----------------------------------------------------------------------------
(* The steps of the writer, and the faults.                                 *)

\* While nothing is read the reader's part of the invariant says little.
LEMMA ReaderIdle ==
    ASSUME TypeOK, checksum_ => ReaderInv, phase \in {"open", "add", "crashed"},
           phase' \in {"open", "add", "crashed"}, UNCHANGED readerVars
    PROVE  checksum_ => ReaderInv'
  <1> HAVE checksum_
  <1>1. ReaderInv  OBVIOUS
  <1>2. buffer_ = <<>> /\ ~eof_ /\ out = <<>> /\ scratch = <<>> /\ ~in_fragmented_record
    BY <1>1 DEF ReaderInv, IdleInv
  <1>3. /\ buffer_' = <<>> /\ ~eof_' /\ out' = <<>> /\ scratch' = <<>> /\ ~in_fragmented_record'
        /\ end_of_buffer_offset_' \in Nat /\ phase' # "read"
    BY <1>2 DEF readerVars, TypeOK
  <1>4. Len(buffer_') = 0 /\ Len(out') = 0  BY <1>3
  <1>5. BufferInv'
    <2>1. \A k \in 1 .. 0 : buffer_'[k] = file'[Pos' + k]  OBVIOUS
    <2> QED  BY <1>3, <1>4, <2>1 DEF BufferInv
  <1>6. IdleInv'  BY <1>3 DEF IdleInv
  <1>7. ScratchInv'  BY <1>3 DEF ScratchInv
  <1>8. OutInv'  BY <1>4 DEF OutInv
  <1> QED  BY <1>5, <1>6, <1>7, <1>8 DEF ReaderInv

LEMMA AddRecordStep ==
    ASSUME Inv, NEW n \in Sizes, AddRecord(n)
    PROVE  Inv'
  <1>1. TypeOK /\ RecordsInv /\ EmittedInv /\ OrderInv /\ ContInv /\ CellInv /\ AlignInv
        /\ (checksum_ => ReaderInv)
    BY DEF Inv, WriterInv
  <1>2. n \in Nat  BY LogAssumption
  <1>3. /\ phase = "open" /\ phase' = "add" /\ begin' = TRUE
        /\ left' = [k \in 1 .. n |-> Data(Len(records) + 1, k)]
        /\ records' = Append(records, [data |-> left', start |-> -1, end |-> -1, acked |-> FALSE])
        /\ file' = file /\ block_offset_' = block_offset_ /\ damage' = damage /\ seam' = seam
        /\ emitted' = emitted /\ initial_offset_' = initial_offset_ /\ UNCHANGED readerVars
    BY DEF AddRecord, Data
  <1>4. /\ buffer_' = buffer_ /\ eof_' = eof_ /\ end_of_buffer_offset_' = end_of_buffer_offset_
        /\ resyncing_' = resyncing_ /\ in_fragmented_record' = in_fragmented_record
        /\ scratch' = scratch /\ out' = out
    BY <1>3 DEF readerVars
  <1>0. PICK R : R = Len(records)  OBVIOUS
  <1> DEFINE e == [data |-> left', start |-> -1, end |-> -1, acked |-> FALSE]
  <1>5. records \in Seq(Entry) /\ R \in Nat  BY <1>0, <1>1, LenProperties DEF TypeOK
  <1>6. left' \in Seq(DataCell) /\ Len(left') = n
    <2>1. \A k \in 1 .. n : Data(R + 1, k) \in DataCell  BY <1>2, <1>5 DEF Data, DataCell
    <2>2. left' \in [1 .. n -> DataCell]  BY <1>0, <1>3, <2>1
    <2> QED  BY <1>2, <2>2
  <1>7. e \in Entry  BY <1>6 DEF Entry
  <1>8. e.data = left'  OBVIOUS
  <1> HIDE DEF e
  <1>9. /\ records' \in Seq(Entry) /\ Len(records') = R + 1
        /\ \A r \in 1 .. R : records'[r] = records[r]
        /\ records'[R + 1] = e
    BY <1>0, <1>3, <1>5, <1>7, AppendProperties DEF e
  <1>10. TypeOK'  BY <1>1, <1>3, <1>4, <1>6, <1>9 DEF TypeOK
  <1>11. Size(R + 1)' = n
    BY <1>3, <1>6, <1>8, <1>9 DEF Size
  <1>12. \A r \in 1 .. R : Size(r)' = Size(r)  BY <1>9 DEF Size
  <1>13. RecordsInv'
    <2> SUFFICES ASSUME NEW r \in 1 .. R + 1
                 PROVE  records'[r].data = [k \in 1 .. Size(r)' |-> Data(r, k)]
      BY <1>9 DEF RecordsInv
    <2>1. CASE r \in 1 .. R  BY <1>0, <1>1, <1>9, <1>12, <2>1 DEF RecordsInv
    <2>2. CASE r = R + 1
      <3>1. records'[r].data = left'  BY <1>8, <1>9, <2>2
      <3> QED  BY <1>0, <1>3, <1>11, <2>2, <3>1
    <2> QED  BY <1>5, <2>1, <2>2
  <1>14. EmittedInv'
    <2> SUFFICES ASSUME NEW P \in emitted
                 PROVE  /\ P.rec \in 1 .. R + 1 /\ P.from + P.n <= Size(P.rec)'
                        /\ 1 <= P.len /\ P.len <= kHeaderSize + P.n /\ P.start + P.len <= Len(file)
                        /\ P.type \in {kFirstType, kFullType} => P.from = 0
                        /\ P.type \in {kLastType, kFullType} => P.from + P.n = Size(P.rec)'
                        /\ P.n = 0 => P.type \in {kFirstType, kFullType}
      BY <1>3, <1>9 DEF EmittedInv
    <2>1. P.rec \in 1 .. R  BY <1>0, <1>1 DEF EmittedInv
    <2>2. P.rec \in 1 .. R + 1 /\ Size(P.rec)' = Size(P.rec)  BY <1>5, <1>12, <2>1
    <2> QED  BY <1>1, <2>2 DEF EmittedInv
  <1>15. OrderInv' /\ ContInv' /\ CellInv'
    BY <1>1, <1>3 DEF OrderInv, ContInv, CellInv, Whole, Owns
  <1>16. AlignInv'  BY <1>1, <1>3 DEF AlignInv, LastOne, EmptyFirst
  <1>17. AddInv'
    <2>1. Len(records') > 0 /\ Len(left') <= Size(Len(records))'
          /\ (begin' => Len(left') = Size(Len(records))')
      BY <1>2, <1>5, <1>6, <1>9, <1>11
    <2>2. left' = [k \in 1 .. Len(left') |->
                      Data(Len(records'), Size(Len(records))' - Len(left') + k)]
      <3>1. \A k \in 1 .. n : n - n + k = k  BY <1>2
      <3>2. Size(Len(records))' = n  BY <1>9, <1>11
      <3>3. left' = [k \in 1 .. n |-> Data(R + 1, n - n + k)]  BY <1>0, <1>3, <3>1
      <3> QED  BY <1>6, <1>9, <3>2, <3>3
    <2>3. \A P \in emitted' : P.rec # Len(records')
      <3> TAKE P \in emitted'
      <3>1. P.rec \in 1 .. R  BY <1>0, <1>1, <1>3 DEF EmittedInv
      <3> QED  BY <1>5, <1>9, <3>1
    <2> QED  BY <1>3, <2>1, <2>2, <2>3 DEF AddInv
  <1>18. checksum_ => ReaderInv'  BY <1>1, <1>3, ReaderIdle
  <1> QED  BY <1>10, <1>13, <1>14, <1>15, <1>16, <1>17, <1>18 DEF Inv, WriterInv

LEMMA EmitPhysicalRecordStep ==
    ASSUME Inv, EmitPhysicalRecord
    PROVE  Inv'
  <1>1. TypeOK /\ RecordsInv /\ EmittedInv /\ OrderInv /\ ContInv /\ CellInv /\ AddInv /\ AlignInv
        /\ (checksum_ => ReaderInv)
    BY DEF Inv, WriterInv
  <1> DEFINE f == PhysicalRecord(Type, Fragment)
  <1>0. PICK R : R = Len(records)  OBVIOUS
  <1>2. /\ phase = "add" /\ phase' = IF IsEnd THEN "open" ELSE "add"
        /\ file' = file \o Trailer \o f /\ emitted' = emitted \cup {Emitted(Len(f))}
        /\ block_offset_' = Offset + Len(f) /\ left' = From(left, Len(Fragment)) /\ begin' = FALSE
        /\ records' = [records EXCEPT
              ![R].start = IF begin THEN Len(file) + Len(Trailer) ELSE @,
              ![R].end = Len(file'), ![R].acked = IsEnd]
        /\ damage' = damage /\ seam' = seam /\ initial_offset_' = initial_offset_
        /\ UNCHANGED readerVars
    BY <1>0 DEF EmitPhysicalRecord
  <1>3. /\ buffer_' = buffer_ /\ eof_' = eof_ /\ end_of_buffer_offset_' = end_of_buffer_offset_
        /\ resyncing_' = resyncing_ /\ in_fragmented_record' = in_fragmented_record
        /\ scratch' = scratch /\ out' = out
    BY <1>2 DEF readerVars
  <1>4. PICK F : F = Len(Fragment)  OBVIOUS
  <1>5. /\ Fragment \in Seq(DataCell) /\ F \in Nat /\ F <= Len(left)
        /\ F <= kBlockSize - Offset - kHeaderSize
        /\ ~IsEnd => F = kBlockSize - Offset - kHeaderSize
        /\ Type \in 1 .. 4 /\ (Type \in {kFirstType, kFullType} <=> begin)
        /\ (Type \in {kLastType, kFullType} <=> IsEnd)
    BY <1>1, <1>2, <1>4, FragmentProps, TypeProps
  <1>6. /\ kHeaderSize \in Nat /\ kHeaderSize >= 3 /\ kBlockSize \in Nat
        /\ Len(Trailer) \in Nat /\ Offset \in Nat /\ Len(file) \in Nat /\ Len(left) \in Nat
        /\ R \in Nat
    BY <1>0, <1>1, LogAssumption, TrailerProps, LenProperties DEF TypeOK
  <1>7. f \in Seq(Cell) /\ Len(f) = kHeaderSize + F  BY <1>4, <1>5, PhysicalCells
  <1>8. PICK n : n = kHeaderSize + F  OBVIOUS
  <1>9. n \in 0 .. kHeaderSize + Len(Fragment) /\ n \in Nat /\ n > 0  BY <1>4, <1>5, <1>6, <1>8
  <1>10. file' = FileAfter(n)
    <2>1. SubSeq(f, 1, Len(f)) = f  BY <1>7, SubSeqFull
    <2> QED  BY <1>2, <1>7, <1>8, <2>1 DEF FileAfter
  <1>25. /\ emitted' = emitted \cup {Emitted(n)} /\ block_offset_' = Offset + n
    BY <1>2, <1>7, <1>8
  <1> HIDE DEF f
  <1>11. emitted' = IF n = 0 THEN emitted ELSE emitted \cup {Emitted(n)}
    BY <1>9, <1>25
  <1>12. R > 0 /\ records \in Seq(Entry) /\ R \in 1 .. R
    BY <1>0, <1>1, <1>2, <1>6 DEF AddInv, TypeOK
  <1>13. Len(file') \in Nat
    <2>1. file' \in Seq(Cell)  BY <1>1, <1>2, <1>9, <1>10, FileAfterProps
    <2> QED  BY <2>1, LenProperties
  <1>14. /\ records' \in Seq(Entry) /\ Len(records') = R
         /\ \A r \in 1 .. R : records'[r].data = records[r].data
    <2> DEFINE e == [records[R] EXCEPT !.start = IF begin THEN Len(file) + Len(Trailer) ELSE @,
                                       !.end = Len(file'), !.acked = IsEnd]
    <2>1. records[R] \in Entry  BY <1>0, <1>12, ElementOfSeq
    <2>2. e \in Entry /\ e.data = records[R].data
      <3>1. (IF begin THEN Len(file) + Len(Trailer) ELSE records[R].start) \in Int
        BY <1>1, <1>6, <2>1 DEF Entry, TypeOK
      <3>2. Len(file') \in Int /\ IsEnd \in BOOLEAN  BY <1>13 DEF IsEnd
      <3> QED  BY <2>1, <3>1, <3>2, Zenon DEF Entry
    <2>3. records' = [records EXCEPT ![R] = e]  BY <1>2
    <2> HIDE DEF e
    <2>4. /\ records' \in Seq(Entry) /\ Len(records') = Len(records)
          /\ \A r \in 1 .. Len(records) : records'[r] = IF r = R THEN e ELSE records[r]
      BY <1>0, <1>12, <2>2, <2>3, ExceptSeq
    <2> QED  BY <1>0, <2>2, <2>4
  <1>15. /\ emitted' \subseteq Physical /\ file' \in Seq(Cell)
         /\ RecordsInv' /\ EmittedInv' /\ OrderInv' /\ ContInv' /\ CellInv'
    BY <1>0, <1>1, <1>2, <1>9, <1>10, <1>11, <1>14, AppendStep
  <1>16. Len(file') = Len(file) + Len(Trailer) + n
    BY <1>1, <1>2, <1>9, <1>10, FileAfterProps
  <1>17. left' \in Seq(DataCell) /\ Len(left') = Len(left) - F
         /\ \A k \in 1 .. Len(left) - F : left'[k] = left[F + k]
    <2>1. left \in Seq(DataCell) /\ F \in 0 .. Len(left)  BY <1>1, <1>5, <1>6 DEF TypeOK
    <2> QED  BY <1>2, <1>4, <2>1, FromProps
  <1>18. TypeOK'
    <2>1. block_offset_' \in 0 .. kBlockSize  BY <1>5, <1>6, <1>8, <1>25
    <2>2. phase' \in {"open", "add"}  BY <1>2
    <2>3. begin' \in BOOLEAN  BY <1>2
    <2> QED  BY <1>1, <1>2, <1>3, <1>14, <1>15, <1>17, <2>1, <2>2, <2>3 DEF TypeOK
  <1>19. PICK P : P = Emitted(n)  OBVIOUS
  <1>20. /\ P \in emitted' /\ P.start = Len(file) + Len(Trailer) /\ P.type = Type
         /\ P.rec = R /\ P.len = n /\ P.n = F
         /\ P.from = Size(R) - Len(left)
    BY <1>0, <1>1, <1>2, <1>4, <1>9, <1>11, <1>19, EmittedProps
  <1>21. Size(R)' = Size(R)  BY <1>12, <1>14 DEF Size
  <1>22. AddInv'
    <2> SUFFICES ASSUME ~IsEnd
                 PROVE  AddInv'
      BY <1>2 DEF AddInv
    <2>1. Size(R) \in Nat /\ Len(left) <= Size(R)
      <3>1. Size(R) \in Nat  BY <1>0, <1>1, <1>12, SizeNat
      <3> QED  BY <1>0, <1>1, <1>2, <3>1 DEF AddInv
    <2>2. Len(left') > 0 /\ Len(left') <= Size(R)
      <3>1. F # Len(left)  BY <1>4 DEF IsEnd
      <3>2. Len(left') = Len(left) - F  BY <1>17
      <3> QED  BY <1>5, <1>6, <2>1, <3>1, <3>2
    <2>3. left' = [k \in 1 .. Len(left') |-> Data(R, Size(R) - Len(left') + k)]
      <3>1. left = [k \in 1 .. Len(left) |-> Data(R, Size(R) - Len(left) + k)]
        BY <1>0, <1>1, <1>2 DEF AddInv
      <3>2. \A k \in 1 .. Len(left') : left'[k] = Data(R, Size(R) - Len(left') + k)
        <4> TAKE k \in 1 .. Len(left')
        <4>1. Len(left') = Len(left) - F  BY <1>17
        <4>2. /\ k \in 1 .. Len(left) - F /\ F + k \in 1 .. Len(left)
              /\ Size(R) - Len(left) + (F + k) = Size(R) - Len(left') + k
          BY <1>5, <1>6, <2>1, <4>1
        <4>3. left'[k] = left[F + k]  BY <1>17, <4>2
        <4>4. left[F + k] = Data(R, Size(R) - Len(left) + (F + k))  BY <3>1, <4>2, Zenon
        <4> QED  BY <4>2, <4>3, <4>4
      <3>3. left' = [k \in 1 .. Len(left') |-> left'[k]]  BY <1>17
      <3> QED  BY <3>2, <3>3
    <2>4. \A Q \in emitted' : Q.rec = R =>
             /\ Q.from + Q.n <= Size(R) - Len(left') /\ Q.type \notin {kFullType, kLastType}
      <3> SUFFICES ASSUME NEW Q \in emitted', Q.rec = R
                   PROVE  /\ Q.from + Q.n <= Size(R) - Len(left')
                          /\ Q.type \notin {kFullType, kLastType}
        OBVIOUS
      <3>0. Len(left') = Len(left) - F  BY <1>17
      <3>1. CASE Q \in emitted
        <4>1. Q.from \in Nat /\ Q.n \in Nat  BY <1>15 DEF Physical
        <4>2. Q.from + Q.n <= Size(R) - Len(left) /\ Q.type \notin {kFullType, kLastType}
          BY <1>0, <1>1, <1>2, <3>1 DEF AddInv
        <4> QED  BY <1>5, <1>6, <2>1, <3>0, <4>1, <4>2, SMTT(60)
      <3>2. CASE Q = P
        <4>1. Q.type \notin {kFullType, kLastType}  BY <1>5, <1>20, <3>2
        <4> QED  BY <1>5, <1>6, <1>20, <2>1, <3>0, <3>2, <4>1
      <3> QED  BY <1>9, <1>11, <1>19, <3>1, <3>2
    <2>5. block_offset_' = kBlockSize  BY <1>5, <1>6, <1>8, <1>25
    <2>6. /\ P.type \in {kFirstType, kMiddleType} /\ Whole(P) /\ P.start + P.len = Len(file')
          /\ P.from + P.n = Size(R) - Len(left')
      <3>1. P.type \in {kFirstType, kMiddleType}
        BY <1>5, <1>20 DEF kFirstType, kMiddleType, kFullType, kLastType
      <3>2. Len(left') = Len(left) - F  BY <1>17
      <3> QED  BY <1>5, <1>6, <1>8, <1>16, <1>20, <2>1, <3>1, <3>2 DEF Whole
    <2>7. \E Q \in emitted' :
             /\ Q.type \in {kFirstType, kMiddleType} /\ Q.rec = R /\ Whole(Q)
             /\ Q.start + Q.len = Len(file') /\ Q.from + Q.n = Size(R) - Len(left')
      BY <1>20, <2>6
    <2>8. Size(Len(records))' = Size(R) /\ Len(records') = R
      BY <1>14, <1>21
    <2>9. begin' = FALSE  BY <1>2
    <2> QED  BY <1>12, <2>2, <2>3, <2>4, <2>5, <2>7, <2>8, <2>9 DEF AddInv, Whole
  <1>23. AlignInv'
    <2>1. ASSUME seam = "none"
          PROVE  Aligned(Len(file') - block_offset_')
      <3>1. Len(file') - block_offset_' = Len(file) + Len(Trailer) - Offset
        BY <1>5, <1>6, <1>9, <1>16, <1>25
      <3> QED  BY <1>1, <1>2, <2>1, <3>1, AlignStep
    <2>2. ASSUME NEW Q \in emitted', EmptyFirst(Q)
          PROVE  \/ Aligned(Q.start + kHeaderSize)
                 \/ seam # "none" /\ Q.len = kHeaderSize
      <3>1. CASE Q \in emitted  BY <1>1, <1>2, <2>2, <3>1 DEF AlignInv
      <3>2. CASE Q = P /\ seam # "none"
        <4>1. F = 0  BY <1>20, <2>2, <3>2 DEF EmptyFirst
        <4> QED  BY <1>6, <1>8, <1>20, <3>2, <4>1
      <3>3. CASE Q = P /\ seam = "none"
        <4>1. F = 0 /\ Type = kFirstType  BY <1>20, <2>2, <3>3 DEF EmptyFirst
        <4>2. ~IsEnd  BY <1>5, <4>1 DEF kFirstType, kLastType, kFullType
        <4> QED  BY <1>1, <1>2, <1>4, <1>20, <3>3, <4>1, <4>2, AlignStep
      <3> QED  BY <1>9, <1>11, <1>19, <3>1, <3>2, <3>3
    <2>3. seam' = seam  BY <1>2
    <2> QED  BY <2>1, <2>2, <2>3 DEF AlignInv, EmptyFirst
  <1>24. checksum_ => ReaderInv'
    <2>1. phase' \in {"open", "add", "crashed"}  BY <1>2
    <2> QED  BY <1>1, <1>2, <2>1, ReaderIdle
  <1> QED  BY <1>15, <1>18, <1>22, <1>23, <1>24 DEF Inv, WriterInv

LEMMA EmitFailsStep ==
    ASSUME Inv, EmitFails
    PROVE  Inv'
  <1>1. TypeOK /\ RecordsInv /\ EmittedInv /\ OrderInv /\ ContInv /\ CellInv /\ AddInv /\ AlignInv
        /\ (checksum_ => ReaderInv)
    BY DEF Inv, WriterInv
  <1> DEFINE f == PhysicalRecord(Type, Fragment)
  <1>2. PICK n \in 0 .. Len(f) - 1 :
           /\ file' = file \o Trailer \o SubSeq(f, 1, n)
           /\ emitted' = IF n = 0 THEN emitted ELSE emitted \cup {Emitted(n)}
    BY DEF EmitFails
  <1>3. /\ phase = "add" /\ seam = "none" /\ phase' = "open" /\ seam' = "torn"
        /\ block_offset_' = Offset + Len(f) /\ left' = <<>> /\ begin' = FALSE
        /\ records' = records /\ damage' = damage /\ initial_offset_' = initial_offset_
        /\ UNCHANGED readerVars
    BY DEF EmitFails
  <1>4. /\ buffer_' = buffer_ /\ eof_' = eof_ /\ end_of_buffer_offset_' = end_of_buffer_offset_
        /\ resyncing_' = resyncing_ /\ in_fragmented_record' = in_fragmented_record
        /\ scratch' = scratch /\ out' = out
    BY <1>3 DEF readerVars
  <1>5. /\ Fragment \in Seq(DataCell) /\ Len(Fragment) \in Nat
        /\ Len(Fragment) <= kBlockSize - Offset - kHeaderSize
        /\ Type \in 1 .. 4 /\ (Type \in {kLastType, kFullType} <=> IsEnd)
    BY <1>1, <1>3, FragmentProps, TypeProps
  <1>6. kHeaderSize \in Nat /\ kBlockSize \in Nat /\ Offset \in Nat
    BY <1>1, LogAssumption, TrailerProps
  <1>7. Len(f) = kHeaderSize + Len(Fragment)  BY <1>5, PhysicalCells
  <1>8. n \in 0 .. kHeaderSize + Len(Fragment) /\ n \in Nat  BY <1>5, <1>6, <1>7
  <1>9. file' = FileAfter(n)  BY <1>2 DEF FileAfter
  <1>10. block_offset_' \in 0 .. kBlockSize  BY <1>3, <1>5, <1>6, <1>7
  <1> HIDE DEF f
  <1>11. /\ emitted' \subseteq Physical /\ file' \in Seq(Cell)
         /\ RecordsInv' /\ EmittedInv' /\ OrderInv' /\ ContInv' /\ CellInv'
    <2>1. Len(records') = Len(records) /\ \A r \in 1 .. Len(records) : records'[r].data = records[r].data
      BY <1>3
    <2> QED  BY <1>1, <1>2, <1>3, <1>8, <1>9, <2>1, AppendStep
  <1>12. TypeOK'
    <2>1. left' \in Seq(DataCell)  BY <1>3
    <2> QED  BY <1>1, <1>3, <1>4, <1>10, <1>11, <2>1 DEF TypeOK
  <1>13. AddInv'  BY <1>3 DEF AddInv
  <1>14. AlignInv'
    <2>1. ASSUME NEW Q \in emitted', EmptyFirst(Q)
          PROVE  Aligned(Q.start + kHeaderSize)
      <3>1. CASE Q \in emitted  BY <1>1, <1>3, <2>1, <3>1 DEF AlignInv
      <3>2. CASE Q = Emitted(n)
        <4>1. /\ Q.start = Len(file) + Len(Trailer) /\ Q.type = Type /\ Q.n = Len(Fragment)
          BY <1>1, <1>3, <1>8, <3>2, EmittedProps
        <4>2. Len(Fragment) = 0 /\ Type = kFirstType  BY <2>1, <4>1 DEF EmptyFirst
        <4>3. ~IsEnd  BY <1>5, <4>2 DEF kFirstType, kLastType, kFullType
        <4> QED  BY <1>1, <1>3, <4>1, <4>2, <4>3, AlignStep
      <3> QED  BY <1>2, <3>1, <3>2
    <2> QED  BY <1>3, <2>1 DEF AlignInv, EmptyFirst
  <1>15. checksum_ => ReaderInv'  BY <1>1, <1>3, ReaderIdle
  <1> QED  BY <1>11, <1>12, <1>13, <1>14, <1>15 DEF Inv, WriterInv

LEMMA ReopenStep ==
    ASSUME Inv, Reopen
    PROVE  Inv'
  <1>1. TypeOK /\ RecordsInv /\ EmittedInv /\ OrderInv /\ ContInv /\ CellInv /\ AlignInv
        /\ (checksum_ => ReaderInv)
    BY DEF Inv, WriterInv
  <1>2. /\ phase = "crashed" /\ phase' = "open" /\ seam = "none"
        /\ block_offset_' = Len(file) % kBlockSize /\ seam' \in {"whole", "torn"}
        /\ file' = file /\ records' = records /\ left' = left /\ begin' = begin /\ damage' = damage
        /\ emitted' = emitted /\ initial_offset_' = initial_offset_ /\ UNCHANGED readerVars
    BY DEF Reopen
  <1>3. block_offset_' \in 0 .. kBlockSize
    <2>1. Len(file) \in Nat /\ kBlockSize \in Nat /\ kBlockSize > 0
      BY <1>1, LogAssumption, LenProperties DEF TypeOK
    <2>2. Len(file) % kBlockSize \in 0 .. kBlockSize - 1  BY <2>1
    <2> QED  BY <1>2, <2>1, <2>2
  <1>4. TypeOK'  BY <1>1, <1>2, <1>3 DEF TypeOK, readerVars
  <1>5. RecordsInv' /\ EmittedInv' /\ OrderInv' /\ ContInv' /\ CellInv'
    BY <1>1, <1>2 DEF RecordsInv, EmittedInv, OrderInv, ContInv, CellInv, Size, Whole, Owns
  <1>6. AddInv'  BY <1>2 DEF AddInv
  <1>7. AlignInv'  BY <1>1, <1>2 DEF AlignInv, EmptyFirst
  <1>8. checksum_ => ReaderInv'  BY <1>1, <1>2, ReaderIdle
  <1> QED  BY <1>4, <1>5, <1>6, <1>7, <1>8 DEF Inv, WriterInv

LEMMA DamageStep ==
    ASSUME Inv, Damage
    PROVE  Inv'
  <1>1. TypeOK /\ RecordsInv /\ EmittedInv /\ OrderInv /\ ContInv /\ CellInv /\ AlignInv
        /\ (checksum_ => ReaderInv)
    BY DEF Inv, WriterInv
  <1>2. PICK p \in DOMAIN file : file' = [file EXCEPT ![p] = Bad] /\ damage' = p
    BY DEF Damage
  <1>3. /\ phase \in {"open", "crashed"} /\ phase' = "crashed" /\ seam = "none" /\ seam' = seam
        /\ block_offset_' = block_offset_ /\ records' = records /\ left' = left /\ begin' = begin
        /\ emitted' = emitted /\ initial_offset_' = initial_offset_ /\ UNCHANGED readerVars
    BY DEF Damage
  <1>4. file \in Seq(Cell) /\ p \in 1 .. Len(file) /\ Len(file) \in Nat /\ Bad \in Cell
    BY <1>1, <1>2, LenProperties DEF TypeOK, Cell
  <1>5. /\ file' \in Seq(Cell) /\ Len(file') = Len(file)
        /\ \A q \in 1 .. Len(file) : file'[q] = IF q = p THEN Bad ELSE file[q]
    BY <1>2, <1>4, ExceptSeq
  <1>6. TypeOK'
    <2>1. damage' \in Nat  BY <1>2, <1>4
    <2> QED  BY <1>1, <1>3, <1>5, <2>1 DEF TypeOK, readerVars
  <1>7. RecordsInv' /\ EmittedInv' /\ OrderInv' /\ ContInv'
    BY <1>1, <1>3, <1>5 DEF RecordsInv, EmittedInv, OrderInv, ContInv, Size, Whole
  <1>8. CellInv'
    <2> SUFFICES ASSUME NEW q \in 1 .. Len(file)
                 PROVE  \/ file'[q] = Zero
                        \/ file'[q] = Bad
                        \/ \E Q \in emitted : Owns(Q, q) /\ file'[q] = CellOf(Q, q - Q.start)
      BY <1>3, <1>5 DEF CellInv, Owns
    <2>1. file'[q] = Bad \/ file'[q] = file[q]  BY <1>5
    <2> QED  BY <1>1, <2>1 DEF CellInv
  <1>9. AddInv' /\ AlignInv'  BY <1>1, <1>3 DEF AddInv, AlignInv, EmptyFirst
  <1>10. checksum_ => ReaderInv'  BY <1>1, <1>3, ReaderIdle
  <1> QED  BY <1>6, <1>7, <1>8, <1>9, <1>10 DEF Inv, WriterInv

\* What is left of a physical record when the file ends after n cells.
Cut(P, n) == [P EXCEPT !.len = IF P.start + @ <= n THEN @ ELSE n - P.start]

LEMMA CutProps ==
    ASSUME NEW P \in Physical, NEW n \in Nat, P.start < n, 1 <= P.len
    PROVE  /\ Cut(P, n) \in Physical
           /\ Cut(P, n).start = P.start /\ Cut(P, n).type = P.type /\ Cut(P, n).rec = P.rec
           /\ Cut(P, n).from = P.from /\ Cut(P, n).n = P.n
           /\ 1 <= Cut(P, n).len /\ Cut(P, n).len <= P.len /\ P.start + Cut(P, n).len <= n
           /\ P.start + P.len <= n => Cut(P, n) = P
           /\ P.start + P.len > n => Cut(P, n).len = n - P.start
           /\ \A k : CellOf(Cut(P, n), k) = CellOf(P, k)
  <1> DEFINE l == IF P.start + P.len <= n THEN P.len ELSE n - P.start
             C == [P EXCEPT !.len = l]
  <1>1. P.start \in Nat /\ P.len \in Nat  BY DEF Physical
  <1>2. l \in Nat /\ 1 <= l /\ l <= P.len /\ P.start + l <= n  BY <1>1
  <1>3. P.start + P.len > n => l = n - P.start  BY <1>1
  <1>4. P.start + P.len <= n => l = P.len  OBVIOUS
  <1>5. Cut(P, n) = C  BY DEF Cut
  <1> HIDE DEF l
  <1>6. /\ C \in Physical /\ C.start = P.start /\ C.type = P.type /\ C.rec = P.rec
        /\ C.from = P.from /\ C.n = P.n /\ C.len = l /\ (l = P.len => C = P)
    BY <1>2 DEF Physical
  <1> HIDE DEF C
  <1>7. \A k : CellOf(C, k) = CellOf(P, k)
    <2>1. FragmentOf(C) = FragmentOf(P)  BY <1>6 DEF FragmentOf
    <2> QED  BY <1>6, <2>1 DEF CellOf
  <1> QED  BY <1>2, <1>3, <1>4, <1>5, <1>6, <1>7

LEMMA CrashStep ==
    ASSUME Inv, Crash
    PROVE  Inv'
  <1>1. TypeOK /\ RecordsInv /\ EmittedInv /\ OrderInv /\ ContInv /\ CellInv /\ AlignInv
        /\ (checksum_ => ReaderInv)
    BY DEF Inv, WriterInv
  <1>2. PICK n \in 0 .. Len(file) :
           /\ file' = SubSeq(file, 1, n)
           /\ records' = [r \in DOMAIN records |->
                 [records[r] EXCEPT !.acked = @ /\ records[r].end <= n,
                                    !.end = IF @ <= n THEN @ ELSE -1]]
           /\ emitted' = {Cut(e, n) : e \in {x \in emitted : x.start < n}}
    BY DEF Crash, Cut
  <1>3. /\ phase \in {"open", "add"} /\ phase' = "crashed" /\ left' = <<>> /\ begin' = FALSE
        /\ block_offset_' = block_offset_ /\ damage' = damage /\ seam' = seam
        /\ initial_offset_' = initial_offset_ /\ UNCHANGED readerVars
    BY DEF Crash
  <1>4. file \in Seq(Cell) /\ Len(file) \in Nat /\ n \in Nat /\ n <= Len(file)
        /\ records \in Seq(Entry) /\ Len(records) \in Nat
        /\ \A e \in emitted : e \in Physical
    <2>1. file \in Seq(Cell) /\ records \in Seq(Entry) /\ \A e \in emitted : e \in Physical
      BY <1>1 DEF TypeOK
    <2>2. Len(file) \in Nat /\ Len(records) \in Nat  BY <2>1, LenProperties
    <2> QED  BY <2>1, <2>2
  <1>5. /\ file' \in Seq(Cell) /\ Len(file') = n /\ \A p \in 1 .. n : file'[p] = file[p]
    <2> DEFINE s == SubSeq(file, 1, n)
    <2>1. \A p \in 1 .. n : file[p] \in Cell
      <3>1. \A p \in 1 .. Len(file) : file[p] \in Cell  BY <1>4, ElementOfSeq
      <3> QED  BY <1>4, <3>1
    <2>2. /\ s \in Seq(Cell) /\ Len(s) = IF 1 <= n THEN n - 1 + 1 ELSE 0
          /\ \A p \in 1 .. n - 1 + 1 : s[p] = file[1 + p - 1]
      BY <1>4, <2>1, SubSeqProperties
    <2>3. file' = s  BY <1>2
    <2> HIDE DEF s
    <2>4. Len(s) = n
      <3>1. Len(s) = IF 1 <= n THEN n - 1 + 1 ELSE 0  BY <2>2
      <3> QED  BY <1>4, <3>1
    <2>5. \A p \in 1 .. n : s[p] = file[p]
      <3> TAKE p \in 1 .. n
      <3>1. p \in 1 .. n - 1 + 1 /\ 1 + p - 1 = p  BY <1>4
      <3> QED  BY <2>2, <3>1
    <2> QED  BY <2>2, <2>3, <2>4, <2>5
  <1>6. /\ records' \in Seq(Entry) /\ Len(records') = Len(records)
        /\ \A r \in 1 .. Len(records) : records'[r].data = records[r].data
    <2>1. DOMAIN records = 1 .. Len(records)  BY <1>4, LenProperties
    <2>2. \A r \in 1 .. Len(records) : records'[r] \in Entry /\ records'[r].data = records[r].data
      <3> TAKE r \in 1 .. Len(records)
      <3>1. records[r] \in Entry  BY <1>4, ElementOfSeq
      <3> DEFINE a == records[r].acked /\ records[r].end <= n
                 d == IF records[r].end <= n THEN records[r].end ELSE -1
      <3>2. a \in BOOLEAN /\ d \in Int  BY <3>1 DEF Entry
      <3>3. records'[r] = [records[r] EXCEPT !.acked = a, !.end = d]  BY <1>2, <2>1
      <3> HIDE DEF a, d
      <3> QED  BY <3>1, <3>2, <3>3 DEF Entry
    <2>3. records' \in [1 .. Len(records) -> Entry]
      <3>1. DOMAIN records' = 1 .. Len(records)  BY <1>2, <2>1
      <3>2. records' = [r \in 1 .. Len(records) |-> records'[r]]  BY <1>2, <2>1
      <3> QED  BY <2>2, <3>2
    <2>4. records' \in Seq(Entry) /\ Len(records') = Len(records)  BY <1>4, <2>3
    <2> QED  BY <2>2, <2>4
  <1>7. \A r \in 1 .. Len(records) : Size(r)' = Size(r)
    <2>1. PICK R : R = Len(records)  OBVIOUS
    <2>2. \A r \in 1 .. R : Size(r)' = Size(r)  BY <1>6, <2>1 DEF Size
    <2> QED  BY <2>1, <2>2
  \* Every physical record left is the cut of one that was there.
  <1>8. \A e \in emitted : 1 <= e.len /\ e.start + e.len <= Len(file) /\ e.rec \in 1 .. Len(records)
    BY <1>1 DEF EmittedInv
  <1>9. \A e \in emitted : e.start < n => Cut(e, n) \in emitted'  BY <1>2
  <1>10. ASSUME NEW Q \in emitted'
         PROVE  \E P \in emitted : P.start < n /\ Q = Cut(P, n)
    BY <1>2
  <1>11. emitted' \subseteq Physical
    <2> SUFFICES ASSUME NEW Q \in emitted' PROVE Q \in Physical  OBVIOUS
    <2>1. PICK P \in emitted : P.start < n /\ Q = Cut(P, n)  BY <1>10
    <2> QED  BY <1>4, <1>8, <2>1, CutProps
  <1>12. TypeOK'
    <2>1. left' \in Seq(DataCell)  BY <1>3
    <2>2. begin' \in BOOLEAN  BY <1>3
    <2> QED  BY <1>1, <1>3, <1>5, <1>6, <1>11, <2>1, <2>2 DEF TypeOK, readerVars
  <1>13. RecordsInv'
    <2>1. PICK R : R = Len(records)  OBVIOUS
    <2> SUFFICES ASSUME NEW r \in 1 .. R
                 PROVE  records'[r].data = [k \in 1 .. Size(r)' |-> Data(r, k)]
      BY <1>6, <2>1 DEF RecordsInv
    <2> QED  BY <1>1, <1>6, <1>7, <2>1 DEF RecordsInv
  <1>14. EmittedInv'
    <2> SUFFICES ASSUME NEW Q \in emitted'
                 PROVE  /\ Q.rec \in 1 .. Len(records) /\ Q.from + Q.n <= Size(Q.rec)'
                        /\ 1 <= Q.len /\ Q.len <= kHeaderSize + Q.n /\ Q.start + Q.len <= n
                        /\ Q.type \in {kFirstType, kFullType} => Q.from = 0
                        /\ Q.type \in {kLastType, kFullType} => Q.from + Q.n = Size(Q.rec)'
                        /\ Q.n = 0 => Q.type \in {kFirstType, kFullType}
      BY <1>5, <1>6 DEF EmittedInv
    <2>1. PICK P \in emitted : P.start < n /\ Q = Cut(P, n)  BY <1>10
    <2>2. /\ Q.start = P.start /\ Q.type = P.type /\ Q.rec = P.rec /\ Q.from = P.from /\ Q.n = P.n
          /\ 1 <= Q.len /\ Q.len <= P.len /\ P.start + Q.len <= n /\ Q \in Physical
      BY <1>4, <1>8, <2>1, CutProps
    <2>3. P.len <= kHeaderSize + P.n  BY <1>1 DEF EmittedInv
    <2>4. Q.len <= kHeaderSize + P.n
      <3>1. P.len \in Nat /\ P.n \in Nat /\ Q.len \in Nat  BY <1>4, <2>2 DEF Physical
      <3> QED  BY <2>2, <2>3, <3>1, LogAssumption
    <2>5. P.rec \in 1 .. Len(records) /\ Size(P.rec)' = Size(P.rec)  BY <1>7, <1>8
    <2> QED  BY <1>1, <2>2, <2>4, <2>5 DEF EmittedInv
  <1>15. OrderInv'
    <2> SUFFICES ASSUME NEW C \in emitted', NEW D \in emitted'
                 PROVE  /\ C.start = D.start => C = D
                        /\ C.start < D.start =>
                              /\ C.start + C.len <= D.start /\ C.rec <= D.rec
                              /\ C.rec = D.rec => /\ C.from + C.n <= D.from
                                                  /\ C.type \notin {kFullType, kLastType}
      BY DEF OrderInv
    <2>1. PICK A \in emitted : A.start < n /\ C = Cut(A, n)  BY <1>10
    <2>2. PICK B \in emitted : B.start < n /\ D = Cut(B, n)  BY <1>10
    <2>3. /\ C.start = A.start /\ C.type = A.type /\ C.rec = A.rec /\ C.from = A.from /\ C.n = A.n
          /\ C.len <= A.len /\ C \in Physical
      BY <1>4, <1>8, <2>1, CutProps
    <2>4. D.start = B.start /\ D.rec = B.rec /\ D.from = B.from
      BY <1>4, <1>8, <2>2, CutProps
    <2>5. C.start = D.start => C = D
      <3>1. A.start = B.start => A = B  BY <1>1 DEF OrderInv
      <3> QED  BY <2>1, <2>2, <2>3, <2>4, <3>1
    <2>6. ASSUME A.start < B.start
          PROVE  /\ C.start + C.len <= D.start /\ C.rec <= D.rec
                 /\ C.rec = D.rec => /\ C.from + C.n <= D.from
                                     /\ C.type \notin {kFullType, kLastType}
      <3>1. /\ A.start + A.len <= B.start /\ A.rec <= B.rec
            /\ A.rec = B.rec => /\ A.from + A.n <= B.from
                                /\ A.type \notin {kFullType, kLastType}
        BY <1>1, <2>6 DEF OrderInv
      <3>2. A.start \in Nat /\ A.len \in Nat /\ C.len \in Nat /\ B.start \in Nat
        BY <1>4, <2>3 DEF Physical
      <3>3. A.start + C.len <= B.start  BY <2>3, <3>1, <3>2
      <3> QED  BY <2>3, <2>4, <3>1, <3>3
    <2> QED  BY <2>3, <2>4, <2>5, <2>6
  <1>16. ContInv'
    <2> SUFFICES ASSUME NEW Q \in emitted', Q.type \in {kMiddleType, kLastType}
                 PROVE  \E A \in emitted' :
                           /\ A.type \in {kFirstType, kMiddleType} /\ A.rec = Q.rec /\ Whole(A)
                           /\ A.start + A.len = Q.start /\ A.from + A.n = Q.from
      BY DEF ContInv, Whole
    <2>1. PICK P \in emitted : P.start < n /\ Q = Cut(P, n)  BY <1>10
    <2>2. /\ Q.start = P.start /\ Q.type = P.type /\ Q.rec = P.rec /\ Q.from = P.from
      BY <1>4, <1>8, <2>1, CutProps
    <2>3. PICK A \in emitted :
             /\ A.type \in {kFirstType, kMiddleType} /\ A.rec = P.rec /\ Whole(A)
             /\ A.start + A.len = P.start /\ A.from + A.n = P.from
      BY <1>1, <2>2 DEF ContInv
    <2>4. A.start < n /\ A.start + A.len <= n
      <3>1. A.start \in Nat /\ A.len \in Nat /\ 1 <= A.len  BY <1>4, <1>8 DEF Physical
      <3> QED  BY <1>4, <2>1, <2>3, <3>1
    <2>5. Cut(A, n) = A  BY <1>4, <1>8, <2>4, CutProps
    <2>6. A \in emitted'  BY <1>9, <2>4, <2>5
    <2> QED  BY <2>2, <2>3, <2>6
  <1>17. CellInv'
    <2> SUFFICES ASSUME NEW p \in 1 .. n
                 PROVE  \/ file'[p] = Zero
                        \/ file'[p] = Bad
                        \/ \E Q \in emitted' : Owns(Q, p) /\ file'[p] = CellOf(Q, p - Q.start)
      BY <1>5 DEF CellInv, Owns
    <2>1. file'[p] = file[p] /\ p \in 1 .. Len(file) /\ p \in Nat /\ p <= n  BY <1>4, <1>5
    <2>2. CASE file[p] = Zero \/ file[p] = Bad  BY <2>1, <2>2
    <2>3. ASSUME NEW P \in emitted, Owns(P, p), file[p] = CellOf(P, p - P.start)
          PROVE  \E Q \in emitted' : Owns(Q, p) /\ file'[p] = CellOf(Q, p - Q.start)
      <3>1. P.start \in Nat /\ P.len \in Nat /\ P.start < p /\ p <= P.start + P.len
        BY <1>4, <2>3 DEF Physical, Owns
      <3>2. P.start < n  BY <1>4, <2>1, <3>1
      <3> DEFINE Q == Cut(P, n)
      <3>3. Q \in emitted'  BY <1>9, <3>2
      <3>4. /\ Q.start = P.start /\ (P.start + P.len <= n => Q = P)
            /\ (P.start + P.len > n => Q.len = n - P.start)
            /\ \A k : CellOf(Q, k) = CellOf(P, k)
        BY <1>4, <1>8, <3>2, CutProps
      <3> HIDE DEF Q
      <3>5. Owns(Q, p)  BY <1>4, <2>1, <2>3, <3>1, <3>4 DEF Owns
      <3> QED  BY <2>1, <2>3, <3>3, <3>4, <3>5
    <2> QED  BY <1>1, <2>1, <2>2, <2>3 DEF CellInv
  <1>18. AddInv'  BY <1>3 DEF AddInv
  <1>19. AlignInv'
    <2> SUFFICES ASSUME NEW Q \in emitted', EmptyFirst(Q)
                 PROVE  \/ Aligned(Q.start + kHeaderSize)
                        \/ seam # "none" /\ (Q.len = kHeaderSize \/ \A E \in emitted' : E.start <= Q.start)
      BY <1>3 DEF AlignInv, LastOne, EmptyFirst
    <2>1. PICK P \in emitted : P.start < n /\ Q = Cut(P, n)  BY <1>10
    <2>2. /\ Q.start = P.start /\ Q.type = P.type /\ Q.n = P.n
          /\ (P.start + P.len <= n => Q = P)
      BY <1>4, <1>8, <2>1, CutProps
    <2>3. Aligned(P.start + kHeaderSize) \/ (seam # "none" /\ P.len = kHeaderSize)
      BY <1>1, <1>3, <2>2 DEF AlignInv, EmptyFirst
    <2>4. CASE P.start + P.len <= n  BY <2>2, <2>3, <2>4
    <2>5. CASE ~(P.start + P.len <= n)
      <3>1. \A E \in emitted' : E.start <= Q.start
        <4> TAKE E \in emitted'
        <4>1. PICK B \in emitted : B.start < n /\ E = Cut(B, n)  BY <1>10
        <4>2. E.start = B.start  BY <1>4, <1>8, <4>1, CutProps
        <4>3. P.start < B.start => P.start + P.len <= B.start  BY <1>1 DEF OrderInv
        <4>4. P.start \in Nat /\ P.len \in Nat /\ B.start \in Nat  BY <1>4 DEF Physical
        <4> QED  BY <1>4, <2>2, <2>5, <4>1, <4>2, <4>3, <4>4
      <3> QED  BY <2>2, <2>3, <3>1
    <2> QED  BY <2>4, <2>5
  <1>20. checksum_ => ReaderInv'  BY <1>1, <1>3, ReaderIdle
  <1> QED  BY <1>12, <1>13, <1>14, <1>15, <1>16, <1>17, <1>18, <1>19, <1>20 DEF Inv, WriterInv

-----------------------------------------------------------------------------
(* What the cells of the file tell.                                         *)

LEMMA OwnerUnique ==
    ASSUME TypeOK, OrderInv, NEW P \in emitted, NEW Q \in emitted, NEW p \in Int,
           Owns(P, p), Owns(Q, p)
    PROVE  P = Q
  <1>1. P.start \in Nat /\ P.len \in Nat /\ Q.start \in Nat /\ Q.len \in Nat
    BY DEF TypeOK, Physical
  <1>2. /\ P.start = Q.start => P = Q
        /\ P.start < Q.start => P.start + P.len <= Q.start
        /\ Q.start < P.start => Q.start + Q.len <= P.start
    BY DEF OrderInv
  <1> QED  BY <1>1, <1>2 DEF Owns

\* No cell of a record is in two physical records.
LEMMA DataUnique ==
    ASSUME TypeOK, OrderInv, NEW P \in emitted, NEW Q \in emitted, P.rec = Q.rec,
           NEW j \in 1 .. P.n, NEW k \in 1 .. Q.n, P.from + j = Q.from + k
    PROVE  P = Q
  <1>1. /\ P.start \in Nat /\ P.from \in Nat /\ P.n \in Nat
        /\ Q.start \in Nat /\ Q.from \in Nat /\ Q.n \in Nat
    BY DEF TypeOK, Physical
  <1>2. /\ P.start = Q.start => P = Q
        /\ P.start < Q.start => P.from + P.n <= Q.from
        /\ Q.start < P.start => Q.from + Q.n <= P.from
    BY DEF OrderInv
  <1> QED  BY <1>1, <1>2

\* A cell that is neither fill nor damaged, and where in its record it stands.
LEMMA CellOwner ==
    ASSUME TypeOK, EmittedInv, CellInv, NEW p \in 1 .. Len(file),
           file[p].kind \notin {"zero", "bad"}
    PROVE  \E P \in emitted :
              /\ Owns(P, p) /\ file[p] = CellOf(P, p - P.start)
              /\ p - P.start \in 1 .. kHeaderSize + P.n
  <1>1. file[p] # Zero /\ file[p] # Bad  BY DEF Zero, Bad
  <1>2. PICK P \in emitted : Owns(P, p) /\ file[p] = CellOf(P, p - P.start)
    BY <1>1 DEF CellInv
  <1>3. P.start \in Nat /\ P.len \in Nat /\ P.n \in Nat /\ kHeaderSize \in Nat
    BY LogAssumption DEF TypeOK, Physical
  <1>4. P.len <= kHeaderSize + P.n  BY DEF EmittedInv
  <1>5. p \in Int /\ P.start < p /\ p <= P.start + P.len  BY <1>2 DEF Owns
  <1>6. p - P.start \in 1 .. kHeaderSize + P.n
    <2>1. p - P.start \in Int /\ 1 <= p - P.start  BY <1>3, <1>5, SMTT(60)
    <2>2. p - P.start <= kHeaderSize + P.n  BY <1>3, <1>4, <1>5, SMTT(60)
    <2> QED  BY <1>3, <2>1, <2>2, SMTT(60)
  <1> QED  BY <1>2, <1>6

LEMMA CrcCell ==
    ASSUME TypeOK, EmittedInv, CellInv, NEW p \in 1 .. Len(file), NEW t, NEW f,
           file[p] = [kind |-> "crc", sum |-> <<t, f>>]
    PROVE  \E P \in emitted : /\ Owns(P, p) /\ p - P.start \in 1 .. kHeaderSize - 2
                              /\ P.type = t /\ FragmentOf(P) = f
  <1>1. file[p].kind = "crc"  OBVIOUS
  <1>2. PICK P \in emitted : /\ Owns(P, p) /\ file[p] = CellOf(P, p - P.start)
                             /\ p - P.start \in 1 .. kHeaderSize + P.n
    BY <1>1, CellOwner
  <1>3. P \in Physical /\ P.n \in Nat /\ kHeaderSize \in Nat /\ kHeaderSize >= 3
    BY LogAssumption DEF TypeOK, Physical
  <1>4. PICK k : k = p - P.start  OBVIOUS
  <1>5. k \in 1 .. kHeaderSize + P.n /\ CellOf(P, k) = [kind |-> "crc", sum |-> <<t, f>>]
    BY <1>2, <1>4
  <1>6. k # kHeaderSize - 1 /\ k # kHeaderSize
    <2>1. CellOf(P, k).kind = "crc"  BY <1>5
    <2>2. CellOf(P, kHeaderSize - 1).kind = "len" /\ CellOf(P, kHeaderSize).kind = "type"
      BY <1>3, CellOfProps
    <2> QED  BY <2>1, <2>2
  <1>7. k \notin kHeaderSize + 1 .. kHeaderSize + P.n
    <2> SUFFICES ASSUME k \in kHeaderSize + 1 .. kHeaderSize + P.n PROVE FALSE  OBVIOUS
    <2>1. CellOf(P, k) = Data(P.rec, P.from + (k - kHeaderSize))  BY <1>3, CellOfProps
    <2>2. CellOf(P, k).kind = "data"  BY <2>1 DEF Data
    <2> QED  BY <1>5, <2>2
  <1>8. k \in 1 .. kHeaderSize - 2  BY <1>3, <1>5, <1>6, <1>7
  <1>9. CellOf(P, k) = [kind |-> "crc", sum |-> <<P.type, FragmentOf(P)>>]
    BY <1>3, <1>8, CellOfProps
  <1>10. <<P.type, FragmentOf(P)>> = <<t, f>>  BY <1>5, <1>9
  <1>11. P.type = t /\ FragmentOf(P) = f  BY <1>10
  <1> QED  BY <1>2, <1>4, <1>8, <1>11

LEMMA DataOwner ==
    ASSUME TypeOK, EmittedInv, CellInv, NEW p \in 1 .. Len(file), NEW r, NEW a,
           file[p] = Data(r, a)
    PROVE  \E P \in emitted : /\ Owns(P, p) /\ p - P.start - kHeaderSize \in 1 .. P.n
                              /\ P.rec = r /\ P.from + (p - P.start - kHeaderSize) = a
  <1>1. file[p].kind = "data"  BY DEF Data
  <1>2. PICK P \in emitted : /\ Owns(P, p) /\ file[p] = CellOf(P, p - P.start)
                             /\ p - P.start \in 1 .. kHeaderSize + P.n
    BY <1>1, CellOwner
  <1>3. P \in Physical /\ P.n \in Nat /\ kHeaderSize \in Nat /\ kHeaderSize >= 3
    BY LogAssumption DEF TypeOK, Physical
  <1>4. PICK k : k = p - P.start  OBVIOUS
  <1>5. k \in 1 .. kHeaderSize + P.n /\ CellOf(P, k) = Data(r, a)  BY <1>2, <1>4
  <1>0. CellOf(P, k).kind = "data"  BY <1>5 DEF Data
  <1>6. k # kHeaderSize - 1 /\ k # kHeaderSize
    <2>1. CellOf(P, kHeaderSize - 1).kind = "len" /\ CellOf(P, kHeaderSize).kind = "type"
      BY <1>3, CellOfProps
    <2> QED  BY <1>0, <2>1
  <1>7. k \notin 1 .. kHeaderSize - 2
    <2> SUFFICES ASSUME k \in 1 .. kHeaderSize - 2 PROVE FALSE  OBVIOUS
    <2>1. CellOf(P, k) = [kind |-> "crc", sum |-> <<P.type, FragmentOf(P)>>]
      BY <1>3, CellOfProps
    <2>2. CellOf(P, k).kind = "crc"  BY <2>1
    <2> QED  BY <1>0, <2>2
  <1>8. k \in kHeaderSize + 1 .. kHeaderSize + P.n /\ k - kHeaderSize \in 1 .. P.n
    BY <1>3, <1>5, <1>6, <1>7
  <1>9. Data(r, a) = Data(P.rec, P.from + (k - kHeaderSize))  BY <1>3, <1>5, <1>8, CellOfProps
  <1>10. P.rec = r /\ P.from + (k - kHeaderSize) = a  BY <1>9 DEF Data
  <1> QED  BY <1>2, <1>4, <1>8, <1>10

LEMMA SameStart ==
    \A a, s, h, k \in Int : k = (s + h + k) - a - h => a = s
  OBVIOUS

LEMMA Tight ==
    \A a, s, h, n \in Int :
        n >= 1 /\ a + h + n = s + 2 * h - 1 /\ a >= s + h - 2 => a = s + h - 2
  OBVIOUS

\* A data cell of a physical record that is where a header at s would put it.
LEMMA DataAt ==
    ASSUME TypeOK, EmittedInv, OrderInv, CellInv, NEW P \in emitted, NEW k \in 1 .. P.n,
           NEW s \in Nat, s + kHeaderSize + k \in 1 .. Len(file),
           file[s + kHeaderSize + k] = Data(P.rec, P.from + k)
    PROVE  P.start = s /\ kHeaderSize + k <= P.len
  <1>1. kHeaderSize \in Nat /\ P.start \in Nat /\ P.len \in Nat /\ P.n \in Nat /\ P.from \in Nat
    BY LogAssumption DEF TypeOK, Physical
  <1>2. PICK p : p = s + kHeaderSize + k  OBVIOUS
  <1>3. PICK Q \in emitted : /\ Owns(Q, p) /\ p - Q.start - kHeaderSize \in 1 .. Q.n
                             /\ Q.rec = P.rec /\ Q.from + (p - Q.start - kHeaderSize) = P.from + k
    BY <1>2, DataOwner
  <1>4. PICK j \in 1 .. Q.n : j = p - Q.start - kHeaderSize  BY <1>3
  <1>5. P.rec = Q.rec /\ P.from + k = Q.from + j  BY <1>3, <1>4
  <1>6. P = Q  BY <1>4, <1>5, DataUnique
  <1>7. j = k  BY <1>1, <1>4, <1>5, <1>6
  <1>8. P.start = s
    <2>1. k = p - P.start - kHeaderSize /\ k \in Int  BY <1>4, <1>6, <1>7
    <2>2. s \in Int /\ P.start \in Int /\ kHeaderSize \in Int  BY <1>1
    <2>3. k = (s + kHeaderSize + k) - P.start - kHeaderSize  BY <1>2, <2>1, Zenon
    <2> QED  BY <2>1, <2>2, <2>3, SameStart, Zenon
  <1>9. p <= P.start + P.len  BY <1>3, <1>6 DEF Owns
  <1> QED  BY <1>1, <1>2, <1>8, <1>9

\* A fragment that is not empty and passes the checksum is that of a physical
\* record that starts where the reader stands and is wholly in the file.
LEMMA Genuine ==
    ASSUME TypeOK, EmittedInv, OrderInv, CellInv,
           NEW s \in Nat, NEW n \in Nat, n > 0, s + kHeaderSize + n <= Len(file),
           NEW t, NEW f \in Seq(Cell), Len(f) = n,
           \A k \in 1 .. kHeaderSize - 2 : file[s + k] = [kind |-> "crc", sum |-> <<t, f>>],
           \A k \in 1 .. n : f[k] = file[s + kHeaderSize + k]
    PROVE  \E P \in emitted : /\ P.start = s /\ P.type = t /\ FragmentOf(P) = f
                              /\ P.n = n /\ Whole(P)
  <1>1. kHeaderSize \in Nat /\ kHeaderSize >= 3 /\ Len(file) \in Nat
    BY LogAssumption, LenProperties DEF TypeOK
  <1>2. 1 \in 1 .. kHeaderSize - 2 /\ s + 1 \in 1 .. Len(file)  BY <1>1
  <1>3. PICK P \in emitted : P.type = t /\ FragmentOf(P) = f
    <2>1. file[s + 1] = [kind |-> "crc", sum |-> <<t, f>>]  BY <1>2
    <2> QED  BY <1>2, <2>1, CrcCell
  <1>4. P \in Physical /\ P.start \in Nat /\ P.len \in Nat /\ P.n \in Nat /\ P.from \in Nat
    BY DEF TypeOK, Physical
  <1>5. P.n = n /\ \A k \in 1 .. n : f[k] = Data(P.rec, P.from + k)
    BY <1>3, <1>4, FragmentOfProps
  <1>6. ASSUME NEW k \in 1 .. n
        PROVE  P.start = s /\ kHeaderSize + k <= P.len
    <2>1. s + kHeaderSize + k \in 1 .. Len(file)  BY <1>1
    <2>2. file[s + kHeaderSize + k] = Data(P.rec, P.from + k)  BY <1>5
    <2> QED  BY <1>5, <2>1, <2>2, DataAt
  <1>7. n \in 1 .. n  OBVIOUS
  <1>8. P.start = s /\ kHeaderSize + n <= P.len  BY <1>6, <1>7
  <1>9. P.len <= kHeaderSize + P.n  BY DEF EmittedInv
  <1>10. Whole(P)
    <2>1. P.n = n /\ P.len \in Nat /\ kHeaderSize + n \in Nat  BY <1>1, <1>4, <1>5
    <2> QED  BY <1>8, <1>9, <2>1 DEF Whole
  <1> QED  BY <1>3, <1>5, <1>8, <1>10

\* An empty fragment that passes the checksum: its first cell belongs to an
\* empty physical record, which may start before the reader's position.
LEMMA EmptyGenuine ==
    ASSUME TypeOK, EmittedInv, CellInv, NEW p \in 1 .. Len(file), NEW t,
           file[p] = [kind |-> "crc", sum |-> <<t, <<>>>>]
    PROVE  \E P \in emitted : /\ Owns(P, p) /\ p - P.start \in 1 .. kHeaderSize - 2
                              /\ P.type = t /\ P.n = 0 /\ P.type \in {kFirstType, kFullType}
  <1>1. PICK P \in emitted : /\ Owns(P, p) /\ p - P.start \in 1 .. kHeaderSize - 2
                             /\ P.type = t /\ FragmentOf(P) = <<>>
    BY CrcCell
  <1>2. Len(FragmentOf(P)) = P.n
    <2>1. P \in Physical  BY DEF TypeOK
    <2> QED  BY <2>1, FragmentOfProps
  <1>3. P.n = 0  BY <1>1, <1>2
  <1>4. P.type \in {kFirstType, kFullType}  BY <1>3 DEF EmittedInv
  <1> QED  BY <1>1, <1>3, <1>4

-----------------------------------------------------------------------------
(* What the reader may accept next.                                         *)

\* Only a trailer lies between a physical record that was accepted and the next
\* one looked at, so a continuation found there continues that one.
LEMMA FollowWhole ==
    ASSUME TypeOK, EmittedInv, OrderInv, ContInv, NEW P \in emitted, Whole(P),
           NEW x \in Nat, P.start + P.len <= x, x < P.start + P.len + kHeaderSize,
           NEW Q \in emitted, Q.type \in {kMiddleType, kLastType}, Q.start = x
    PROVE  Q.rec = P.rec /\ Q.from = P.from + P.n
  <1>1. PICK A \in emitted : /\ A.rec = Q.rec /\ Whole(A) /\ A.start + A.len = Q.start
                             /\ A.from + A.n = Q.from
    BY DEF ContInv
  <1>2. /\ kHeaderSize \in Nat /\ kHeaderSize >= 3
        /\ A.start \in Nat /\ A.len \in Nat /\ A.n \in Nat /\ P.start \in Nat /\ P.len \in Nat
        /\ P.n \in Nat
    BY LogAssumption DEF TypeOK, Physical
  <1>3. A.len = kHeaderSize + A.n /\ P.len = kHeaderSize + P.n  BY <1>1 DEF Whole
  <1>4. PICK e : e = P.start + P.len  OBVIOUS
  <1>5. e \in Int /\ Owns(P, e) /\ Owns(A, e)  BY <1>1, <1>2, <1>3, <1>4 DEF Owns
  <1>6. A = P  BY <1>5, OwnerUnique
  <1> QED  BY <1>1, <1>6

\* Behind a physical record that ends a record everything belongs to later ones.
LEMMA Later ==
    ASSUME TypeOK, EmittedInv, OrderInv, NEW P \in emitted, P.type \in {kFullType, kLastType},
           NEW Q \in emitted, Q.start >= P.start + P.len
    PROVE  Q.rec > P.rec
  <1>1. /\ P.start \in Nat /\ P.len \in Nat /\ Q.start \in Nat /\ P.rec \in Nat /\ Q.rec \in Nat
    BY DEF TypeOK, Physical
  <1>2. 1 <= P.len  BY DEF EmittedInv
  <1>3. P.start < Q.start  BY <1>1, <1>2
  <1>4. P.rec <= Q.rec /\ P.rec # Q.rec  BY <1>3 DEF OrderInv
  <1> QED  BY <1>1, <1>4

LEMMA NoneBetween ==
    ASSUME NEW x \in Int, NEW y \in Int, Aligned(x), Aligned(y), y < x, x < y + kBlockSize
    PROVE  FALSE
  <1>1. PICK i \in Int : x = i * kBlockSize  BY DEF Aligned
  <1>2. PICK j \in Int : y = j * kBlockSize  BY DEF Aligned
  <1>3. kBlockSize \in Int /\ kBlockSize > 0  BY LogAssumption
  <1>4. PICK d \in Int : i = j + d
    <2>1. i - j \in Int /\ i = j + (i - j)  OBVIOUS
    <2> QED  BY <2>1
  <1>5. x = y + d * kBlockSize  BY <1>1, <1>2, <1>3, <1>4
  <1>6. CASE d <= 0
    <2>1. d * kBlockSize <= 0  BY <1>3, <1>6
    <2>2. d * kBlockSize \in Int  BY <1>3
    <2> QED  BY <1>5, <2>1, <2>2
  <1>7. CASE d >= 1
    <2>1. d * kBlockSize >= kBlockSize  BY <1>3, <1>7
    <2>2. d * kBlockSize \in Int  BY <1>3
    <2> QED  BY <1>3, <1>5, <2>1, <2>2
  <1> QED  BY <1>6, <1>7

\* The checksum of a header at s.
SumAt(s, t, f) == \A p \in s + 1 .. s + kHeaderSize - 2 :
                     file[p] = [kind |-> "crc", sum |-> <<t, f>>]

\* The reader accepts an empty first fragment at s.  A continuation that is
\* looked at next starts a record too: the cells of the checksum belong to empty
\* fragments, so one with data before that continuation would have to begin in
\* the header at s and to end a block, where the torn header ends one too.
LEMMA FollowEmpty ==
    ASSUME TypeOK, EmittedInv, OrderInv, ContInv, CellInv, AlignInv, phase = "read",
           NEW s \in Nat, s + kHeaderSize <= Len(file),
           SumAt(s, kFirstType, <<>>), NEW x \in Nat,
           \/ x = s + kHeaderSize
           \/ Aligned(x) /\ s + kHeaderSize <= x /\ x < s + 2 * kHeaderSize,
           NEW Q \in emitted, Q.type \in {kMiddleType, kLastType}, Q.start = x
    PROVE  Q.from = 0
  <1>1. PICK A \in emitted : /\ A.type \in {kFirstType, kMiddleType} /\ Whole(A)
                             /\ A.start + A.len = x /\ A.from + A.n = Q.from
    BY DEF ContInv
  <1>2. /\ kHeaderSize \in Nat /\ kHeaderSize >= 3 /\ kBlockSize \in Nat
        /\ kBlockSize >= 2 * kHeaderSize /\ Len(file) \in Nat
        /\ A.start \in Nat /\ A.len \in Nat /\ A.n \in Nat /\ A.from \in Nat
    BY LogAssumption, LenProperties DEF TypeOK, Physical
  <1>3. A.len = kHeaderSize + A.n  BY <1>1 DEF Whole
  <1>4. CASE A.n = 0
    <2>1. A.type \in {kFirstType, kFullType} /\ (A.type \in {kFirstType, kFullType} => A.from = 0)
      BY <1>4 DEF EmittedInv
    <2> QED  BY <1>1, <1>4, <2>1
  <1>5. CASE A.n # 0
    \* The cells of the checksum belong to empty fragments.
    <2>1. ASSUME NEW p \in s + 1 .. s + kHeaderSize - 2
          PROVE  \E P \in emitted : /\ Owns(P, p) /\ p - P.start \in 1 .. kHeaderSize - 2
                                    /\ P.type = kFirstType /\ P.n = 0
      <3>1. p \in 1 .. Len(file)  BY <1>2
      <3>2. file[p] = [kind |-> "crc", sum |-> <<kFirstType, <<>>>>]  BY DEF SumAt
      <3> QED  BY <3>1, <3>2, EmptyGenuine
    <2>2. ASSUME NEW p \in s + 1 .. s + kHeaderSize - 2, Owns(A, p)
          PROVE  FALSE
      <3>1. PICK P \in emitted : Owns(P, p) /\ P.n = 0  BY <2>1
      <3>2. p \in Int  BY <1>2
      <3>3. A = P  BY <2>2, <3>1, <3>2, OwnerUnique
      <3> QED  BY <1>5, <3>1, <3>3
    <2>3. A.start >= s + kHeaderSize - 2
      <3> SUFFICES ASSUME A.start < s + kHeaderSize - 2 PROVE FALSE
        BY <1>2
      <3>1. PICK p \in s + 1 .. s + kHeaderSize - 2 : A.start < p
        <4>1. s + kHeaderSize - 2 \in s + 1 .. s + kHeaderSize - 2  BY <1>2
        <4> QED  BY <4>1
      <3>2. p <= A.start + A.len  BY <1>1, <1>2
      <3>3. Owns(A, p)  BY <3>1, <3>2 DEF Owns
      <3> QED  BY <2>2, <3>3
    <2>4. /\ A.start = s + kHeaderSize - 2 /\ x = s + 2 * kHeaderSize - 1 /\ Aligned(x)
      <3>1. A.n >= 1 /\ x = A.start + kHeaderSize + A.n  BY <1>1, <1>2, <1>3, <1>5
      <3>2. x >= s + 2 * kHeaderSize - 1  BY <1>2, <2>3, <3>1
      <3>3. x # s + kHeaderSize  BY <1>2, <3>2
      <3>4. Aligned(x) /\ x < s + 2 * kHeaderSize  BY <3>3
      <3>5. x = s + 2 * kHeaderSize - 1  BY <1>2, <3>2, <3>4
      <3>6. A.start = s + kHeaderSize - 2
        <4>1. A.start \in Int /\ A.n \in Int /\ kHeaderSize \in Int /\ s \in Int  BY <1>2
        <4>2. A.start + kHeaderSize + A.n = s + 2 * kHeaderSize - 1  BY <3>1, <3>5, Zenon
        <4>3. (/\ A.n >= 1 /\ A.start + kHeaderSize + A.n = s + 2 * kHeaderSize - 1
               /\ A.start >= s + kHeaderSize - 2)
              => A.start = s + kHeaderSize - 2
          BY <4>1, Tight, SMTT(60)
        <4> QED  BY <2>3, <3>1, <4>2, <4>3, Zenon
      <3> QED  BY <3>4, <3>5, <3>6
    <2>15. PICK c : c = s + 1  OBVIOUS
    <2>5. c \in s + 1 .. s + kHeaderSize - 2  BY <1>2, <2>15
    <2>6. PICK P \in emitted : /\ Owns(P, c) /\ c - P.start \in 1 .. kHeaderSize - 2
                               /\ P.type = kFirstType /\ P.n = 0
      BY <2>1, <2>5
    <2>7. /\ P.start \in Nat /\ P.len \in Nat /\ P.start <= s /\ s <= P.start + kHeaderSize - 3
      <3>1. P.start \in Nat /\ P.len \in Nat  BY DEF TypeOK, Physical
      <3>2. c - P.start \in 1 .. kHeaderSize - 2  BY <2>6
      <3> QED  BY <1>2, <2>15, <3>1, <3>2, SMTT(60)
    <2>8. P.start < A.start /\ P.start + P.len <= A.start
      <3>1. P.start < A.start  BY <1>2, <2>4, <2>7
      <3> QED  BY <3>1 DEF OrderInv
    <2>9. P.len # kHeaderSize
      <3> SUFFICES ASSUME P.len = kHeaderSize PROVE FALSE  OBVIOUS
      <3>1. PICK p : p = P.start + kHeaderSize - 1  OBVIOUS
      <3>5. P.start \in Int /\ s \in Int /\ kHeaderSize \in Int /\ kHeaderSize >= 3  BY <1>2, <2>7
      <3>6. P.start + kHeaderSize <= s + kHeaderSize - 2  BY <2>4, <2>8
      <3>7. s <= P.start + kHeaderSize - 3  BY <2>7
      <3>8. p \in s + 1 .. s + kHeaderSize - 2 /\ p \in Int  BY <3>1, <3>5, <3>6, <3>7, SMTT(60)
      <3>9. P.start < p /\ p <= P.start + P.len  BY <3>1, <3>5
      <3>2. p \in s + 1 .. s + kHeaderSize - 2 /\ p \in Int /\ Owns(P, p)
        BY <3>8, <3>9 DEF Owns
      <3>3. PICK D \in emitted : Owns(D, p) /\ p - D.start \in 1 .. kHeaderSize - 2
        BY <2>1, <3>2
      <3>4. D = P  BY <3>2, <3>3, OwnerUnique
      <3> QED  BY <1>2, <2>7, <3>1, <3>3, <3>4
    <2>10. ~LastOne(P)
      <3>1. ~(A.start <= P.start)  BY <1>2, <2>7, <2>8
      <3> QED  BY <3>1 DEF LastOne
    <2>11. EmptyFirst(P)  BY <2>6 DEF EmptyFirst
    <2>12. Aligned(P.start + kHeaderSize)  BY <2>9, <2>10, <2>11 DEF AlignInv
    <2>13. PICK y : y = P.start + kHeaderSize  OBVIOUS
    <2>14. y \in Int /\ Aligned(y) /\ y < x /\ x < y + kBlockSize
      <3>2. P.start \in Int /\ s \in Int /\ kHeaderSize \in Int /\ kHeaderSize >= 3
            /\ kBlockSize \in Int /\ kBlockSize >= 2 * kHeaderSize
        BY <1>2, <2>7
      <3>3. x = s + 2 * kHeaderSize - 1  BY <2>4
      <3>4. P.start <= s /\ s <= P.start + kHeaderSize - 3  BY <2>7
      <3>1. y \in Int /\ y < x /\ x < y + kBlockSize  BY <2>13, <3>2, <3>3, <3>4, SMTT(60)
      <3> QED  BY <2>12, <2>13, <3>1
    <2> QED  BY <2>4, <2>14, NoneBetween
  <1> QED  BY <1>4, <1>5

\* The parts of a record, joined.
LEMMA JoinData ==
    ASSUME NEW P \in Physical
    PROVE  [k \in 1 .. P.from |-> Data(P.rec, k)] \o FragmentOf(P)
              = [k \in 1 .. P.from + P.n |-> Data(P.rec, k)]
  <1> DEFINE a == [k \in 1 .. P.from |-> Data(P.rec, k)]
             b == FragmentOf(P)
             c == [k \in 1 .. P.from + P.n |-> Data(P.rec, k)]
  <1>1. P.from \in Nat /\ P.n \in Nat /\ P.rec \in Nat  BY DEF Physical
  <1>2. \A k \in Nat : Data(P.rec, k) \in DataCell  BY <1>1 DEF Data, DataCell
  <1>3. a \in Seq(DataCell) /\ Len(a) = P.from /\ \A k \in 1 .. P.from : a[k] = Data(P.rec, k)
    <2>1. a \in [1 .. P.from -> DataCell]  BY <1>1, <1>2
    <2>2. \A k \in 1 .. P.from : a[k] = Data(P.rec, k)  OBVIOUS
    <2> HIDE DEF a
    <2> QED  BY <1>1, <2>1, <2>2
  <1>4. /\ c \in Seq(DataCell) /\ Len(c) = P.from + P.n
        /\ \A k \in 1 .. P.from + P.n : c[k] = Data(P.rec, k)
    <2>1. c \in [1 .. P.from + P.n -> DataCell]  BY <1>1, <1>2
    <2>2. \A k \in 1 .. P.from + P.n : c[k] = Data(P.rec, k)  OBVIOUS
    <2> HIDE DEF c
    <2> QED  BY <1>1, <2>1, <2>2
  <1>5. b \in Seq(DataCell) /\ Len(b) = P.n /\ \A k \in 1 .. P.n : b[k] = Data(P.rec, P.from + k)
    BY FragmentOfProps
  <1> HIDE DEF a, b, c
  <1>6. /\ a \o b \in Seq(DataCell) /\ Len(a \o b) = Len(a) + Len(b)
        /\ \A k \in 1 .. Len(a) + Len(b) : (a \o b)[k] = IF k <= Len(a) THEN a[k] ELSE b[k - Len(a)]
    BY <1>3, <1>5, ConcatProperties
  <1> DEFINE d == a \o b
  <1>7. /\ d \in Seq(DataCell) /\ Len(d) = P.from + P.n
        /\ \A k \in 1 .. P.from + P.n : d[k] = IF k <= P.from THEN a[k] ELSE b[k - P.from]
    BY <1>3, <1>5, <1>6
  <1> HIDE DEF d
  <1>8. \A k \in 1 .. P.from + P.n : d[k] = c[k]
    <2> TAKE k \in 1 .. P.from + P.n
    <2>1. CASE k <= P.from
      <3>1. k \in 1 .. P.from  BY <1>1, <2>1
      <3> QED  BY <1>3, <1>4, <1>7, <2>1, <3>1
    <2>2. CASE ~(k <= P.from)
      <3>1. PICK j : j = k - P.from  OBVIOUS
      <3>2. j \in 1 .. P.n /\ P.from + j = k  BY <1>1, <2>2, <3>1
      <3>3. d[k] = b[j]  BY <1>7, <2>2, <3>1
      <3>4. b[j] = Data(P.rec, k)  BY <1>5, <3>2
      <3> QED  BY <1>4, <3>3, <3>4
    <2> QED  BY <2>1, <2>2
  <1>9. d = c  BY <1>4, <1>7, <1>8, SeqEqual
  <1> QED  BY <1>9 DEF a, b, c, d

-----------------------------------------------------------------------------
(* The steps of the reader.                                                 *)

LEMMA WriterStill ==
    ASSUME WriterInv, UNCHANGED writerVars, phase # "add", phase' \in {"read", "done"}
    PROVE  WriterInv'
  <1>1. /\ file' = file /\ block_offset_' = block_offset_ /\ records' = records /\ left' = left
        /\ begin' = begin /\ damage' = damage /\ seam' = seam /\ emitted' = emitted
    BY DEF writerVars
  <1>2. RecordsInv' /\ EmittedInv' /\ OrderInv' /\ ContInv' /\ CellInv'
    BY <1>1 DEF WriterInv, RecordsInv, EmittedInv, OrderInv, ContInv, CellInv, Size, Whole, Owns
  <1>3. AddInv'  BY DEF AddInv
  <1>4. AlignInv'  BY <1>1 DEF WriterInv, AlignInv, EmptyFirst, LastOne
  <1> QED  BY <1>2, <1>3, <1>4 DEF WriterInv

LEMMA OpenReaderStep ==
    ASSUME Inv, OpenReader
    PROVE  Inv'
  <1>1. TypeOK /\ WriterInv /\ (checksum_ => ReaderInv)  BY DEF Inv
  <1>2. /\ phase \in {"open", "crashed"} /\ phase' = "read" /\ UNCHANGED writerVars
        /\ initial_offset_' = initial_offset_ /\ buffer_' = buffer_ /\ eof_' = eof_
        /\ resyncing_' = resyncing_ /\ scratch' = scratch
        /\ in_fragmented_record' = in_fragmented_record /\ out' = out
    BY DEF OpenReader
  <1>3. end_of_buffer_offset_' \in Nat /\ Aligned(end_of_buffer_offset_')
    <2> DEFINE q == initial_offset_ % kBlockSize
               d == initial_offset_ \div kBlockSize
               x == initial_offset_ - q
    <2>1. initial_offset_ \in Nat /\ kBlockSize \in Nat /\ kBlockSize > 0
      BY <1>1, LogAssumption DEF TypeOK
    <2>2. /\ q \in 0 .. kBlockSize - 1 /\ d \in Int
          /\ initial_offset_ = kBlockSize * d + q
      BY <2>1
    <2>3. end_of_buffer_offset_' = x + kBlockSize \/ end_of_buffer_offset_' = x
      BY DEF OpenReader
    <2>7. d >= 0
      BY <2>1
    <2> HIDE DEF q, d
    <2>4. x = d * kBlockSize /\ x \in Int  BY <2>1, <2>2
    <2>8. d * kBlockSize >= 0  BY <2>1, <2>2, <2>7
    <2>5. x \in Nat
      <3> HIDE DEF x
      <3> QED  BY <2>4, <2>8
    <2>6. Aligned(x)  BY <2>2, <2>4 DEF Aligned
    <2> HIDE DEF x
    <2> QED  BY <2>1, <2>3, <2>5, <2>6, AlignedNext
  <1>4. TypeOK'  BY <1>1, <1>2, <1>3 DEF TypeOK, writerVars
  <1>5. WriterInv'  BY <1>1, <1>2, WriterStill
  <1>6. ASSUME checksum_
        PROVE  ReaderInv'
    <2>1. buffer_' = <<>> /\ ~eof_' /\ out' = <<>> /\ scratch' = <<>> /\ ~in_fragmented_record'
      BY <1>1, <1>2, <1>6 DEF ReaderInv, IdleInv
    <2>2. Len(buffer_') = 0 /\ Len(out') = 0  BY <2>1
    <2>3. BufferInv'
      <3>1. \A k \in 1 .. 0 : buffer_'[k] = file'[Pos' + k]  OBVIOUS
      <3> QED  BY <1>3, <2>1, <2>2, <3>1 DEF BufferInv
    <2>4. IdleInv'  BY <1>2 DEF IdleInv
    <2>5. ScratchInv'  BY <2>1 DEF ScratchInv
    <2>6. OutInv'  BY <2>2 DEF OutInv
    <2> QED  BY <2>3, <2>4, <2>5, <2>6 DEF ReaderInv
  <1> QED  BY <1>4, <1>5, <1>6 DEF Inv

\* Reading on without returning anything.
LEMMA OutKept ==
    ASSUME TypeOK, OutInv, phase = "read", out' = out, records' = records, emitted' = emitted,
           Pos \in Int, phase' = "read" => Pos' \in Int /\ Pos' >= Pos
    PROVE  OutInv'
  <1>1. ASSUME NEW j \in 1 .. Len(out), out[j] # <<>>
        PROVE  \E r \in 1 .. Len(records) :
                  /\ out[j] = records[r].data
                  /\ phase' = "read" => \A P \in emitted : P.start >= Pos' => P.rec > r
    <2>1. PICK r \in 1 .. Len(records) :
             out[j] = records[r].data /\ \A P \in emitted : P.start >= Pos => P.rec > r
      BY <1>1 DEF OutInv
    <2>2. ASSUME phase' = "read", NEW P \in emitted, P.start >= Pos'
          PROVE  P.rec > r
      <3>1. P.start \in Nat  BY DEF TypeOK, Physical
      <3>2. P.start >= Pos  BY <2>2, <3>1
      <3> QED  BY <2>1, <3>2
    <2> QED  BY <2>1, <2>2
  <1>2. \A j \in 1 .. Len(out) : \A k \in 1 .. j - 1 :
           out[j] # <<>> /\ out[k] # <<>> => out[k][1].rec < out[j][1].rec
    BY DEF OutInv
  <1> QED  BY <1>1, <1>2 DEF OutInv

LEMMA ReadBlockStep ==
    ASSUME Inv, ReadBlock
    PROVE  Inv'
  <1>1. TypeOK /\ WriterInv /\ (checksum_ => ReaderInv)  BY DEF Inv
  <1>2. /\ phase = "read" /\ phase' = phase /\ Len(buffer_) < kHeaderSize /\ ~eof_
        /\ buffer_' = FirstN(From(file, end_of_buffer_offset_), kBlockSize)
        /\ end_of_buffer_offset_' = end_of_buffer_offset_ + Len(buffer_')
        /\ eof_' = (Len(buffer_') < kBlockSize) /\ UNCHANGED writerVars
        /\ initial_offset_' = initial_offset_ /\ resyncing_' = resyncing_ /\ scratch' = scratch
        /\ in_fragmented_record' = in_fragmented_record /\ out' = out
    BY DEF ReadBlock
  <1>3. PICK e : e = end_of_buffer_offset_  OBVIOUS
  <1>4. /\ e \in Nat /\ file \in Seq(Cell) /\ Len(file) \in Nat /\ kBlockSize \in Nat
        /\ kHeaderSize \in Nat /\ kHeaderSize >= 3 /\ kBlockSize > kHeaderSize
        /\ Len(buffer_) \in Nat
    BY <1>1, <1>3, LogAssumption, LenProperties DEF TypeOK
  <1> DEFINE g == From(file, e)
  <1>5. /\ g \in Seq(Cell) /\ Len(g) \in Nat /\ (Len(g) > 0 => Len(g) = Len(file) - e)
        /\ \A k \in 1 .. Len(g) : g[k] = file[e + k]
    <2>1. CASE e <= Len(file)
      <3>1. e \in 0 .. Len(file)  BY <1>4, <2>1
      <3>2. /\ g \in Seq(Cell) /\ Len(g) = Len(file) - e
            /\ \A k \in 1 .. Len(file) - e : g[k] = file[e + k]
        BY <1>4, <3>1, FromProps
      <3> HIDE DEF g
      <3>3. Len(g) \in Nat  BY <3>2, LenProperties
      <3> QED  BY <3>2, <3>3
    <2>2. CASE e > Len(file)
      <3>1. g = <<>>  BY <1>4, <2>2, FromBehind
      <3> HIDE DEF g
      <3>2. g \in Seq(Cell) /\ Len(g) = 0  BY <3>1
      <3> QED  BY <3>2
    <2> QED  BY <1>4, <2>1, <2>2
  <1>6. buffer_' = FirstN(g, kBlockSize)  BY <1>2, <1>3
  <1> HIDE DEF g
  <1>7. /\ buffer_' \in Seq(Cell)
        /\ Len(buffer_') = IF kBlockSize < Len(g) THEN kBlockSize ELSE Len(g)
        /\ \A k \in 1 .. Len(buffer_') : buffer_'[k] = g[k]
    BY <1>4, <1>5, <1>6, FirstNProps
  <1>8. PICK m : m = Len(buffer_')  OBVIOUS
  <1>9. m \in Nat /\ m <= Len(g) /\ m <= kBlockSize
    <2>1. m = IF kBlockSize < Len(g) THEN kBlockSize ELSE Len(g)  BY <1>7, <1>8
    <2> QED  BY <1>4, <1>5, <2>1
  <1>10. TypeOK'
    <2>1. end_of_buffer_offset_' \in Nat /\ eof_' \in BOOLEAN  BY <1>2, <1>3, <1>4, <1>8, <1>9
    <2> QED  BY <1>1, <1>2, <1>7, <2>1 DEF TypeOK, writerVars
  <1>11. WriterInv'  BY <1>1, <1>2, WriterStill
  <1>12. ASSUME checksum_
         PROVE  ReaderInv'
    <2>1. BufferInv /\ ScratchInv /\ OutInv  BY <1>1, <1>12 DEF ReaderInv
    <2>2. file' = file /\ emitted' = emitted /\ records' = records  BY <1>2 DEF writerVars
    <2>3. /\ Pos' = e /\ end_of_buffer_offset_' = e + m /\ Len(buffer_') = m
      <3>1. end_of_buffer_offset_' = e + m /\ Len(buffer_') = m  BY <1>2, <1>3, <1>8
      <3> QED  BY <1>4, <1>9, <3>1 DEF Pos
    <2>4. BufferInv'
      <3>1. \A k \in 1 .. m : buffer_'[k] = file[e + k]
        <4> TAKE k \in 1 .. m
        <4>1. k \in 1 .. Len(g)  BY <1>5, <1>9
        <4> QED  BY <1>5, <1>7, <1>8, <4>1
      <3>2. m <= e + m  BY <1>4, <1>9
      <3>3. buffer_' # <<>> => e + m <= Len(file)
        <4> SUFFICES ASSUME buffer_' # <<>> PROVE e + m <= Len(file)  OBVIOUS
        <4>1. m > 0  BY <1>7, <1>8, <1>9, EmptySeq
        <4>2. Len(g) = Len(file) - e  BY <1>5, <1>9, <4>1
        <4> QED  BY <1>4, <1>9, <4>2
      <3>4. ~eof_' => Aligned(e + m)
        <4> SUFFICES ASSUME ~eof_' PROVE Aligned(e + m)  OBVIOUS
        <4>3. ~(m < kBlockSize)  BY <1>2, <1>8, Zenon
        <4>1. m = kBlockSize  BY <1>4, <1>9, <4>3
        <4>2. Aligned(e)  BY <1>2, <1>3, <2>1 DEF BufferInv
        <4> QED  BY <1>4, <4>1, <4>2, AlignedNext
      <3> QED  BY <2>2, <2>3, <3>1, <3>2, <3>3, <3>4 DEF BufferInv
    <2>5. IdleInv'  BY <1>2 DEF IdleInv
    <2>6. ScratchInv'
      <3>1. (resyncing_ => ~in_fragmented_record)'  BY <1>2, <2>1 DEF ScratchInv
      <3>2. ASSUME in_fragmented_record', Len(buffer_') >= kHeaderSize \/ ~eof_',
                   NEW Q \in emitted, Q.type \in {kMiddleType, kLastType}, Q.start = NextPos'
            PROVE  scratch' = [k \in 1 .. Q.from |-> Data(Q.rec, k)]
        <4>1. Len(buffer_') >= kHeaderSize
          <5>1. CASE ~eof_'
            <6>2. ~(m < kBlockSize)  BY <1>2, <1>8, <5>1, Zenon
            <6>1. m = kBlockSize  BY <1>4, <1>9, <6>2
            <6> QED  BY <1>4, <2>3, <6>1
          <5> QED  BY <3>2, <5>1
        <4>2. NextPos' = e  BY <2>3, <4>1 DEF NextPos
        <4>3. NextPos = e  BY <1>2, <1>3, <1>4 DEF NextPos
        <4>4. Q.start = NextPos  BY <3>2, <4>2, <4>3
        <4>5. scratch = [k \in 1 .. Q.from |-> Data(Q.rec, k)]
          BY <1>2, <2>1, <3>2, <4>4 DEF ScratchInv
        <4> QED  BY <1>2, <4>5
      <3> QED  BY <2>2, <3>1, <3>2 DEF ScratchInv
    <2>7. OutInv'
      <3>1. Pos \in Int /\ Pos' \in Int /\ Pos' >= Pos  BY <1>3, <1>4, <2>3 DEF Pos
      <3> QED  BY <1>1, <1>2, <2>1, <2>2, <3>1, OutKept
    <2> QED  BY <2>4, <2>5, <2>6, <2>7 DEF ReaderInv
  <1> QED  BY <1>10, <1>11, <1>12 DEF Inv

LEMMA ReadEofStep ==
    ASSUME Inv, ReadEof
    PROVE  Inv'
  <1>1. TypeOK /\ WriterInv /\ (checksum_ => ReaderInv)  BY DEF Inv
  <1>2. /\ phase = "read" /\ phase' = "done" /\ buffer_' = <<>> /\ scratch' = <<>>
        /\ in_fragmented_record' = FALSE /\ UNCHANGED writerVars
        /\ initial_offset_' = initial_offset_ /\ eof_' = eof_ /\ out' = out
        /\ end_of_buffer_offset_' = end_of_buffer_offset_ /\ resyncing_' = resyncing_
    BY DEF ReadEof
  <1>3. TypeOK'
    <2>1. buffer_' \in Seq(Cell) /\ scratch' \in Seq(Cell)  BY <1>2
    <2>2. in_fragmented_record' \in BOOLEAN  BY <1>2
    <2> QED  BY <1>1, <1>2, <2>1, <2>2 DEF TypeOK, writerVars
  <1>4. WriterInv'  BY <1>1, <1>2, WriterStill
  <1>5. ASSUME checksum_
        PROVE  ReaderInv'
    <2>1. OutInv  BY <1>1, <1>5 DEF ReaderInv
    <2>2. Len(buffer_') = 0 /\ end_of_buffer_offset_' \in Nat  BY <1>1, <1>2 DEF TypeOK
    <2>3. BufferInv'
      <3>1. \A k \in 1 .. 0 : buffer_'[k] = file'[Pos' + k]  OBVIOUS
      <3> QED  BY <1>2, <2>2, <3>1 DEF BufferInv
    <2>4. IdleInv' /\ ScratchInv'  BY <1>2 DEF IdleInv, ScratchInv
    <2>5. OutInv'
      <3>1. Pos \in Int
        BY <1>1, LenProperties DEF Pos, TypeOK
      <3> QED  BY <1>1, <1>2, <2>1, <3>1, OutKept DEF writerVars
    <2> QED  BY <2>3, <2>4, <2>5 DEF ReaderInv
  <1> QED  BY <1>3, <1>4, <1>5 DEF Inv

LEMMA HeaderValues ==
    ASSUME TypeOK, Len(buffer_) >= kHeaderSize, NEW n \in Lengths, NEW t \in Types
    PROVE  n \in Nat /\ t \in 0 .. 4
  <1>1. /\ kHeaderSize \in Nat /\ kHeaderSize >= 3 /\ kBlockSize \in Nat /\ Len(buffer_) \in Nat
        /\ buffer_ \in Seq(Cell)
    BY LogAssumption, LenProperties DEF TypeOK
  <1>2. buffer_[kHeaderSize - 1] \in Cell /\ buffer_[kHeaderSize] \in Cell
    <2>1. kHeaderSize - 1 \in 1 .. Len(buffer_) /\ kHeaderSize \in 1 .. Len(buffer_)  BY <1>1
    <2> QED  BY <1>1, <2>1, ElementOfSeq
  <1>3. ASSUME NEW c \in Cell
        PROVE  (c.kind = "len" => c.n \in Nat) /\ (c.kind = "type" => c.t \in 0 .. 4)
    <2>1. CASE c \in {Zero, Bad}  BY <2>1 DEF Zero, Bad
    <2>2. CASE c \in DataCell  BY <2>2 DEF DataCell
    <2>3. CASE c \in [kind : {"crc"}, sum : (1 .. 4) \X Seq(DataCell)]
      <3>1. c.kind = "crc"  BY <2>3
      <3> QED  BY <3>1
    <2>4. CASE c \in [kind : {"len"}, n : Nat]  BY <2>4
    <2>5. CASE c \in [kind : {"type"}, t : 1 .. 4]  BY <2>5
    <2> QED  BY <2>1, <2>2, <2>3, <2>4, <2>5 DEF Cell
  <1>4. n \in Nat
    <2> DEFINE c == buffer_[kHeaderSize - 1]
    <2>1. c.kind = "len" => c.n \in Nat  BY <1>2, <1>3
    <2>2. n \in (CASE c.kind = "len" -> {c.n} [] c.kind = "zero" -> {0} [] OTHER -> 0 .. kBlockSize)
      BY DEF Lengths
    <2> HIDE DEF c
    <2>3. CASE c.kind = "len"  BY <2>1, <2>2, <2>3
    <2>4. CASE c.kind = "zero"  BY <2>2, <2>4
    <2>5. CASE c.kind # "len" /\ c.kind # "zero"  BY <1>1, <2>2, <2>5
    <2> QED  BY <2>3, <2>4, <2>5
  <1>5. t \in 0 .. 4
    <2> DEFINE c == buffer_[kHeaderSize]
    <2>1. c.kind = "type" => c.t \in 0 .. 4  BY <1>2, <1>3
    <2>2. t \in (CASE c.kind = "type" -> {c.t} [] c.kind = "zero" -> {0} [] OTHER -> 0 .. 4)
      BY DEF Types
    <2> HIDE DEF c
    <2>3. CASE c.kind = "type"  BY <2>1, <2>2, <2>3
    <2>4. CASE c.kind = "zero"  BY <2>2, <2>4
    <2>5. CASE c.kind # "type" /\ c.kind # "zero"  BY <2>2, <2>5
    <2> QED  BY <2>3, <2>4, <2>5
  <1> QED  BY <1>4, <1>5

\* The fragment of a physical record of the buffer.
FragmentAt(n) == SubSeq(buffer_, kHeaderSize + 1, kHeaderSize + n)

LEMMA FragmentAtProps ==
    ASSUME TypeOK, NEW n \in Nat, kHeaderSize + n <= Len(buffer_)
    PROVE  /\ FragmentAt(n) \in Seq(Cell) /\ Len(FragmentAt(n)) = n
           /\ \A k \in 1 .. n : FragmentAt(n)[k] = buffer_[kHeaderSize + k]
  <1>1. kHeaderSize \in Nat /\ Len(buffer_) \in Nat /\ buffer_ \in Seq(Cell)
    BY LogAssumption, LenProperties DEF TypeOK
  <1> DEFINE a == kHeaderSize + 1
             b == kHeaderSize + n
             s == SubSeq(buffer_, a, b)
  <1>2. a \in Int /\ b \in Int /\ \A i \in a .. b : buffer_[i] \in Cell
    <2>1. \A i \in 1 .. Len(buffer_) : buffer_[i] \in Cell  BY <1>1, ElementOfSeq
    <2> QED  BY <1>1, <2>1
  <1>3. FragmentAt(n) = s  BY DEF FragmentAt
  <1>4. /\ (a <= b => b - a + 1 = n) /\ (~(a <= b) => n = 0) /\ b - a + 1 = n
        /\ \A k \in 1 .. n : a + k - 1 = kHeaderSize + k
    BY <1>1
  <1> HIDE DEF a, b
  <1>5. /\ s \in Seq(Cell) /\ Len(s) = IF a <= b THEN b - a + 1 ELSE 0
        /\ \A i \in 1 .. b - a + 1 : s[i] = buffer_[a + i - 1]
    BY <1>2, SubSeqProperties
  <1> HIDE DEF s
  <1>6. Len(s) = n
    <2>1. Len(s) = IF a <= b THEN b - a + 1 ELSE 0  BY <1>5
    <2> QED  BY <1>4, <2>1
  <1>7. \A k \in 1 .. n : s[k] = buffer_[kHeaderSize + k]  BY <1>4, <1>5
  <1> QED  BY <1>3, <1>5, <1>6, <1>7

\* What ReadPhysicalRecord returns, unless it is at the end of the file: a bad
\* record, or a fragment that passed the checksum.  It eats at least a header.
LEMMA ReadPhysicalRecordProps ==
    ASSUME TypeOK, Len(buffer_) >= kHeaderSize, NEW n \in Nat, NEW t \in 0 .. 4,
           NEW o, o = ReadPhysicalRecord(t, n), o.type # kEof
    PROVE  \E m \in kHeaderSize .. Len(buffer_) :
              /\ o.rest = From(buffer_, m)
              /\ \/ o.type = kBadRecord /\ o.fragment = <<>>
                 \/ /\ o.type = t /\ m = kHeaderSize + n /\ o.fragment = FragmentAt(n)
                    /\ CrcMatches(t, FragmentAt(n))
  <1>1. kHeaderSize \in Nat /\ Len(buffer_) \in Nat /\ buffer_ \in Seq(Cell)
    BY LogAssumption, LenProperties DEF TypeOK
  <1>2. PICK L : L = Len(buffer_)  OBVIOUS
  <1>3. From(buffer_, L) = <<>>
    <2>1. L + 1 \in Int /\ L \in Int /\ L < L + 1  BY <1>1, <1>2
    <2>2. SubSeq(buffer_, L + 1, L) = <<>>  BY <2>1, SubSeqEmpty, Zenon
    <2> QED  BY <1>2, <2>2 DEF From
  <1>4. L \in kHeaderSize .. Len(buffer_)  BY <1>1, <1>2
  <1>5. ASSUME o.type = kBadRecord, o.fragment = <<>>, o.rest = <<>>
        PROVE  \E m \in kHeaderSize .. Len(buffer_) :
                  o.rest = From(buffer_, m) /\ o.type = kBadRecord /\ o.fragment = <<>>
    BY <1>3, <1>4, <1>5
  <1> DEFINE tooLong == kHeaderSize + n > Len(buffer_)
             zero == t = kZeroType /\ n = 0
             start == end_of_buffer_offset_ - Len(buffer_)
  <1>6. CASE tooLong
    <2>1. o = IF eof_ THEN Outcome(kEof, <<>>, <<>>, 0)
              ELSE Outcome(kBadRecord, <<>>, <<>>, Len(buffer_))
      <3>1. ~(kHeaderSize + n <= Len(buffer_))  BY <1>1, <1>6
      <3> QED  BY <1>6, <3>1, Zenon DEF ReadPhysicalRecord
    <2>2. CASE eof_
      <3>1. o.type = kEof  BY <2>1, <2>2 DEF Outcome
      <3> QED  BY <3>1
    <2>3. CASE ~eof_
      <3>1. o.type = kBadRecord /\ o.fragment = <<>> /\ o.rest = <<>>  BY <2>1, <2>3 DEF Outcome
      <3> QED  BY <1>5, <3>1
    <2> QED  BY <2>2, <2>3
  <1>7. CASE ~tooLong
    <2>0. kHeaderSize + n <= Len(buffer_) /\ kHeaderSize + n \in kHeaderSize .. Len(buffer_)
      BY <1>1, <1>7
    <2>1. CASE zero
      <3>1. o = Outcome(kBadRecord, <<>>, <<>>, 0)
        BY <1>7, <2>0, <2>1, Zenon DEF ReadPhysicalRecord
      <3>2. o.type = kBadRecord /\ o.fragment = <<>> /\ o.rest = <<>>  BY <3>1 DEF Outcome
      <3> QED  BY <1>5, <3>2
    <2>2. CASE ~zero
      <3> DEFINE r == From(buffer_, kHeaderSize + n)
      <3>1. o = CASE ~CrcMatches(t, FragmentAt(n)) -> Outcome(kBadRecord, <<>>, <<>>, Len(buffer_))
                  [] CrcMatches(t, FragmentAt(n)) /\ start < initial_offset_ ->
                        Outcome(kBadRecord, <<>>, r, 0)
                  [] OTHER -> Outcome(t, FragmentAt(n), r, 0)
        BY <1>7, <2>0, <2>2, Zenon DEF ReadPhysicalRecord, FragmentAt
      <3>2. CASE ~CrcMatches(t, FragmentAt(n))
        <4>1. o = Outcome(kBadRecord, <<>>, <<>>, Len(buffer_))  BY <3>1, <3>2, Zenon
        <4>2. o.type = kBadRecord /\ o.fragment = <<>> /\ o.rest = <<>>  BY <4>1 DEF Outcome
        <4> QED  BY <1>5, <4>2
      <3>3. CASE CrcMatches(t, FragmentAt(n)) /\ start < initial_offset_
        <4>1. o = Outcome(kBadRecord, <<>>, r, 0)  BY <3>1, <3>3, Zenon
        <4>2. o.type = kBadRecord /\ o.fragment = <<>> /\ o.rest = r  BY <4>1 DEF Outcome
        <4> QED  BY <2>0, <4>2
      <3>4. CASE CrcMatches(t, FragmentAt(n)) /\ ~(start < initial_offset_)
        <4>1. o = Outcome(t, FragmentAt(n), r, 0)  BY <3>1, <3>4, Zenon
        <4>2. o.type = t /\ o.fragment = FragmentAt(n) /\ o.rest = r  BY <4>1 DEF Outcome
        <4> QED  BY <2>0, <3>4, <4>2
      <3> QED  BY <3>2, <3>3, <3>4
    <2> QED  BY <2>1, <2>2
  <1> QED  BY <1>6, <1>7

\* What ReadRecord does with a physical record.
LEMMA InterpretProps ==
    ASSUME NEW o, Interpret(o)
    PROVE  /\ o.type = kFullType =>
                 out' = Append(out, o.fragment) /\ scratch' = <<>> /\ in_fragmented_record' = FALSE
           /\ o.type = kFirstType =>
                 out' = out /\ scratch' = o.fragment /\ in_fragmented_record' = TRUE
           /\ o.type = kMiddleType /\ in_fragmented_record =>
                 out' = out /\ scratch' = scratch \o o.fragment /\ in_fragmented_record' = TRUE
           /\ o.type = kLastType /\ in_fragmented_record =>
                 /\ out' = Append(out, scratch \o o.fragment)
                 /\ scratch' = <<>> /\ in_fragmented_record' = FALSE
           /\ o.type \in {kMiddleType, kLastType} /\ ~in_fragmented_record =>
                 out' = out /\ scratch' = scratch /\ in_fragmented_record' = FALSE
           /\ o.type \notin {kFullType, kFirstType, kMiddleType, kLastType} =>
                 out' = out /\ scratch' = <<>> /\ in_fragmented_record' = FALSE
  <1> USE DEF Interpret, Return, Collect, kFullType, kFirstType, kMiddleType, kLastType
  <1>1. CASE o.type = kFullType  BY <1>1
  <1>2. CASE o.type = kFirstType  BY <1>2
  <1>3. CASE o.type = kMiddleType /\ in_fragmented_record  BY <1>3
  <1>4. CASE o.type = kLastType /\ in_fragmented_record  BY <1>4
  <1>5. CASE o.type \in {kMiddleType, kLastType} /\ ~in_fragmented_record  BY <1>5
  <1>6. CASE o.type \notin {kFullType, kFirstType, kMiddleType, kLastType}  BY <1>6
  <1> QED  BY <1>1, <1>2, <1>3, <1>4, <1>5, <1>6

\* The two ways an iteration of ReadRecord ends: nothing is collected, or a
\* fragment that passed the checksum is.
Nothing ==
    /\ out' = out /\ scratch' \in {scratch, <<>>}
    /\ \/ in_fragmented_record' = FALSE
       \/ in_fragmented_record' = in_fragmented_record /\ resyncing_
Accepts(t, f) ==
    \/ t = kFullType /\ out' = Append(out, f) /\ scratch' = <<>> /\ in_fragmented_record' = FALSE
    \/ t = kFirstType /\ out' = out /\ scratch' = f /\ in_fragmented_record' = TRUE
    \/ /\ t = kMiddleType /\ in_fragmented_record
       /\ out' = out /\ scratch' = scratch \o f /\ in_fragmented_record' = TRUE
    \/ /\ t = kLastType /\ in_fragmented_record
       /\ out' = Append(out, scratch \o f) /\ scratch' = <<>> /\ in_fragmented_record' = FALSE

LEMMA ReadRecordProps ==
    ASSUME TypeOK, ReadRecord
    PROVE  /\ Len(buffer_) >= kHeaderSize
           /\ resyncing_' => resyncing_ /\ in_fragmented_record' = in_fragmented_record
           /\ resyncing_' \in BOOLEAN
           /\ \E m \in kHeaderSize .. Len(buffer_) :
                 /\ buffer_' = From(buffer_, m)
                 /\ \/ Nothing
                    \/ \E n \in Nat, t \in 0 .. 4 :
                          /\ m = kHeaderSize + n /\ CrcMatches(t, FragmentAt(n))
                          /\ Accepts(t, FragmentAt(n))
  <1>1. Len(buffer_) >= kHeaderSize  BY DEF ReadRecord
  <1>2. PICK n \in Lengths, t \in Types :
           LET o == ReadPhysicalRecord(t, n)
           IN  /\ o.type # kEof /\ buffer_' = o.rest
               /\ resyncing_' = (resyncing_ /\ o.type = kMiddleType)
               /\ IF resyncing_ /\ o.type \in {kMiddleType, kLastType}
                  THEN UNCHANGED <<out, scratch, in_fragmented_record>>
                  ELSE Interpret(o)
    BY DEF ReadRecord
  <1>3. n \in Nat /\ t \in 0 .. 4  BY <1>1, HeaderValues
  <1>4. PICK o : o = ReadPhysicalRecord(t, n)  OBVIOUS
  <1>5. /\ o.type # kEof /\ buffer_' = o.rest /\ resyncing_' = (resyncing_ /\ o.type = kMiddleType)
        /\ resyncing_ /\ o.type \in {kMiddleType, kLastType} =>
              out' = out /\ scratch' = scratch /\ in_fragmented_record' = in_fragmented_record
        /\ ~(resyncing_ /\ o.type \in {kMiddleType, kLastType}) => Interpret(o)
    BY <1>2, <1>4
  <1>6. PICK m \in kHeaderSize .. Len(buffer_) :
           /\ o.rest = From(buffer_, m)
           /\ \/ o.type = kBadRecord /\ o.fragment = <<>>
              \/ /\ o.type = t /\ m = kHeaderSize + n /\ o.fragment = FragmentAt(n)
                 /\ CrcMatches(t, FragmentAt(n))
    BY <1>1, <1>3, <1>4, <1>5, ReadPhysicalRecordProps
  <1>7. resyncing_' => resyncing_ /\ in_fragmented_record' = in_fragmented_record  BY <1>5
  <1>8. resyncing_' \in BOOLEAN
    <2>1. resyncing_ \in BOOLEAN  BY DEF TypeOK
    <2> QED  BY <1>5, <2>1, Zenon
  <1>9. \/ Nothing
        \/ m = kHeaderSize + n /\ CrcMatches(t, FragmentAt(n)) /\ Accepts(t, FragmentAt(n))
    <2>1. CASE resyncing_ /\ o.type \in {kMiddleType, kLastType}
      BY <1>5, <2>1 DEF Nothing
    <2>2. CASE ~(resyncing_ /\ o.type \in {kMiddleType, kLastType})
      <3>1. Interpret(o)  BY <1>5, <2>2
      <3>2. CASE o.type \notin {kFullType, kFirstType, kMiddleType, kLastType}
        BY <3>1, <3>2, InterpretProps DEF Nothing
      <3>3. CASE o.type \in {kMiddleType, kLastType} /\ ~in_fragmented_record
        BY <3>1, <3>3, InterpretProps DEF Nothing
      <3>4. CASE /\ o.type \in {kFullType, kFirstType, kMiddleType, kLastType}
                 /\ ~(o.type \in {kMiddleType, kLastType} /\ ~in_fragmented_record)
        <4>1. o.type # kBadRecord
          BY <3>4 DEF kBadRecord, kFullType, kFirstType, kMiddleType, kLastType
        <4>2. /\ o.type = t /\ m = kHeaderSize + n /\ o.fragment = FragmentAt(n)
              /\ CrcMatches(t, FragmentAt(n))
          BY <1>6, <4>1
        <4>3. Accepts(t, o.fragment)
          BY <3>1, <3>4, <4>2, InterpretProps DEF Accepts
        <4> QED  BY <4>2, <4>3
      <3> QED  BY <3>2, <3>3, <3>4
    <2> QED  BY <2>1, <2>2
  <1>10. buffer_' = From(buffer_, m)  BY <1>5, <1>6
  <1> QED  BY <1>1, <1>3, <1>7, <1>8, <1>9, <1>10

\* The buffer behind what was read.
LEMMA BufferShift ==
    ASSUME TypeOK, BufferInv, NEW m \in kHeaderSize .. Len(buffer_), buffer_' = From(buffer_, m),
           file' = file, end_of_buffer_offset_' = end_of_buffer_offset_, eof_' = eof_,
           phase' = phase
    PROVE  /\ BufferInv' /\ Len(buffer_') = Len(buffer_) - m /\ Pos' = Pos + m
           /\ Pos \in Nat /\ Pos' \in Nat
  <1>1. /\ kHeaderSize \in Nat /\ Len(buffer_) \in Nat /\ buffer_ \in Seq(Cell) /\ m \in 0 .. Len(buffer_)
        /\ end_of_buffer_offset_ \in Nat
    BY LogAssumption, LenProperties DEF TypeOK
  <1>2. /\ buffer_' \in Seq(Cell) /\ Len(buffer_') = Len(buffer_) - m
        /\ \A k \in 1 .. Len(buffer_) - m : buffer_'[k] = buffer_[m + k]
    BY <1>1, FromProps
  <1>0. Len(buffer_) <= end_of_buffer_offset_  BY DEF BufferInv
  <1>3. Pos \in Nat /\ Pos' \in Nat /\ Pos' = Pos + m
    <2>1. Len(buffer_') = Len(buffer_) - m  BY <1>2
    <2> QED  BY <1>0, <1>1, <2>1 DEF Pos
  <1>4. \A k \in 1 .. Len(buffer_') : buffer_'[k] = file[Pos' + k]
    <2> TAKE k \in 1 .. Len(buffer_')
    <2>0. Len(buffer_') = Len(buffer_) - m  BY <1>2
    <2>1. k \in 1 .. Len(buffer_) - m /\ m + k \in 1 .. Len(buffer_)  BY <1>1, <2>0
    <2>2. buffer_'[k] = buffer_[m + k]  BY <1>2, <2>1
    <2>3. buffer_[m + k] = file[Pos + (m + k)]  BY <2>1 DEF BufferInv
    <2>4. Pos + (m + k) = Pos' + k  BY <1>1, <1>3
    <2> QED  BY <2>2, <2>3, <2>4
  <1>5. Len(buffer_') <= end_of_buffer_offset_
    <2>1. Len(buffer_') = Len(buffer_) - m  BY <1>2
    <2> QED  BY <1>0, <1>1, <2>1
  <1>6. buffer_' # <<>> => end_of_buffer_offset_ <= Len(file)
    <2> SUFFICES ASSUME buffer_' # <<>> PROVE end_of_buffer_offset_ <= Len(file)  OBVIOUS
    <2>1. Len(buffer_') > 0  BY <1>2, EmptySeq
    <2>2. Len(buffer_') = Len(buffer_) - m  BY <1>2
    <2>3. Len(buffer_) > 0  BY <1>1, <2>1, <2>2
    <2>4. buffer_ # <<>>  BY <2>3
    <2> QED  BY <2>4 DEF BufferInv
  <1>7. phase = "read" /\ ~eof_ => Aligned(end_of_buffer_offset_)  BY DEF BufferInv
  <1>8. BufferInv'  BY <1>4, <1>5, <1>6, <1>7 DEF BufferInv
  <1> QED  BY <1>2, <1>3, <1>8

\* Where the next physical record can start.
LEMMA NextPosProps ==
    ASSUME TypeOK', BufferInv', phase' = "read"
    PROVE  (Len(buffer_') >= kHeaderSize \/ ~eof_') =>
              /\ NextPos' \in Nat /\ Pos' <= NextPos' /\ NextPos' < Pos' + kHeaderSize
              /\ NextPos' = Pos' \/ Aligned(NextPos')
  <1>1. /\ kHeaderSize \in Nat /\ kHeaderSize >= 3 /\ Len(buffer_') \in Nat
        /\ end_of_buffer_offset_' \in Nat
    BY LogAssumption, LenProperties DEF TypeOK
  <1>2. Len(buffer_') <= end_of_buffer_offset_'  BY DEF BufferInv
  <1>3. CASE Len(buffer_') >= kHeaderSize
    <2>1. NextPos' = Pos'  BY <1>3 DEF NextPos
    <2>2. Pos' \in Nat  BY <1>1, <1>2 DEF Pos
    <2>3. PICK a : a = Pos'  OBVIOUS
    <2>4. a \in Nat  BY <2>2, <2>3
    <2>5. a <= a /\ a < a + kHeaderSize  BY <1>1, <2>4
    <2> QED  BY <2>1, <2>3, <2>4, <2>5
  <1>4. CASE ~(Len(buffer_') >= kHeaderSize)
    <2>1. NextPos' = end_of_buffer_offset_'  BY <1>4 DEF NextPos
    <2>2. ~eof_' => Aligned(end_of_buffer_offset_')  BY DEF BufferInv
    <2>3. Pos' <= end_of_buffer_offset_' /\ end_of_buffer_offset_' < Pos' + kHeaderSize
      BY <1>1, <1>2, <1>4 DEF Pos
    <2> QED  BY <1>1, <1>4, <2>1, <2>2, <2>3
  <1> QED  BY <1>3, <1>4

LEMMA FirstCell ==
    ASSUME TypeOK, RecordsInv, NEW r \in 1 .. Len(records), records[r].data # <<>>
    PROVE  records[r].data[1].rec = r
  <1>1. records[r] \in Entry  BY ElementOfSeq DEF TypeOK
  <1>2. records[r].data \in Seq(DataCell)  BY <1>1 DEF Entry
  <1>3. Size(r) \in Nat \ {0}  BY <1>2, EmptySeq DEF Size
  <1>4. 1 \in 1 .. Size(r)  BY <1>3
  <1>5. records[r].data = [k \in 1 .. Size(r) |-> Data(r, k)]  BY DEF RecordsInv
  <1>6. records[r].data[1] = Data(r, 1)  BY <1>4, <1>5, Zenon
  <1> QED  BY <1>6 DEF Data

\* Returning an empty record, or the one that ends where the reader stands.
LEMMA OutReturned ==
    ASSUME TypeOK, RecordsInv, EmittedInv, OrderInv, OutInv, phase = "read",
           records' = records, emitted' = emitted, Pos \in Int, Pos' \in Int, Pos' >= Pos,
           NEW x \in Seq(Cell), out' = Append(out, x),
           \/ x = <<>>
           \/ \E P \in emitted : /\ P.type \in {kFullType, kLastType} /\ P.start = Pos
                                 /\ Pos' = P.start + P.len /\ x = records[P.rec].data
    PROVE  OutInv'
  <1>1. PICK L : L = Len(out)  OBVIOUS
  <1>2. out \in Seq(Seq(Cell)) /\ L \in Nat  BY <1>1, LenProperties DEF TypeOK
  <1>3. /\ Len(out') = L + 1 /\ (\A j \in 1 .. L : out'[j] = out[j]) /\ out'[L + 1] = x
    BY <1>1, <1>2, AppendProperties
  <1>4. ASSUME NEW j \in 1 .. L, out[j] # <<>>
        PROVE  \E r \in 1 .. Len(records) :
                  /\ out[j] = records[r].data /\ out[j][1].rec = r
                  /\ \A P \in emitted : P.start >= Pos => P.rec > r
    <2>1. PICK r \in 1 .. Len(records) :
             out[j] = records[r].data /\ \A P \in emitted : P.start >= Pos => P.rec > r
      BY <1>1, <1>4 DEF OutInv
    <2>2. out[j][1].rec = r  BY <1>4, <2>1, FirstCell
    <2> QED  BY <2>1, <2>2
  <1>5. ASSUME NEW j \in 1 .. L, out[j] # <<>>
        PROVE  \E r \in 1 .. Len(records) :
                  out[j] = records[r].data /\ \A P \in emitted : P.start >= Pos' => P.rec > r
    <2>1. PICK r \in 1 .. Len(records) :
             out[j] = records[r].data /\ \A P \in emitted : P.start >= Pos => P.rec > r
      BY <1>4, <1>5
    <2>2. ASSUME NEW P \in emitted, P.start >= Pos' PROVE P.rec > r
      <3>1. P.start \in Nat  BY DEF TypeOK, Physical
      <3>2. P.start >= Pos  BY <2>2, <3>1
      <3> QED  BY <2>1, <3>2
    <2> QED  BY <2>1, <2>2
  <1>6. ASSUME x # <<>>
        PROVE  /\ \E r \in 1 .. Len(records) :
                     x = records[r].data /\ \A P \in emitted : P.start >= Pos' => P.rec > r
               /\ \A j \in 1 .. L : out[j] # <<>> => out[j][1].rec < x[1].rec
    <2>1. PICK P \in emitted : /\ P.type \in {kFullType, kLastType} /\ P.start = Pos
                               /\ Pos' = P.start + P.len /\ x = records[P.rec].data
      BY <1>6
    <2>2. P.rec \in 1 .. Len(records)  BY DEF EmittedInv
    <2>3. \A Q \in emitted : Q.start >= Pos' => Q.rec > P.rec  BY <2>1, Later
    <2>4. x[1].rec = P.rec  BY <1>6, <2>1, <2>2, FirstCell
    <2>5. ASSUME NEW j \in 1 .. L, out[j] # <<>> PROVE out[j][1].rec < x[1].rec
      <3>1. PICK r \in 1 .. Len(records) :
               out[j][1].rec = r /\ \A Q \in emitted : Q.start >= Pos => Q.rec > r
        BY <1>4, <2>5
      <3>2. P.start >= Pos  BY <2>1
      <3>3. P.rec > r  BY <3>1, <3>2
      <3>4. P.rec \in Int /\ r \in Int  BY <2>2
      <3>5. r < P.rec  BY <3>3, <3>4
      <3> QED  BY <2>4, <3>1, <3>5
    <2> QED  BY <2>1, <2>2, <2>3, <2>5
  <1>7. ASSUME NEW j \in 1 .. L + 1, out'[j] # <<>>
        PROVE  \E r \in 1 .. Len(records) :
                  out'[j] = records[r].data /\ \A P \in emitted : P.start >= Pos' => P.rec > r
    <2>1. CASE j \in 1 .. L  BY <1>3, <1>5, <1>7, <2>1
    <2>2. CASE j = L + 1  BY <1>3, <1>6, <1>7, <2>2
    <2>3. j \in 1 .. L \/ j = L + 1  BY <1>2
    <2> QED  BY <2>1, <2>2, <2>3
  <1>8. ASSUME NEW j \in 1 .. L + 1, NEW k \in 1 .. j - 1, out'[j] # <<>>, out'[k] # <<>>
        PROVE  out'[k][1].rec < out'[j][1].rec
    <2>1. k \in 1 .. L  BY <1>2
    <2>2. out'[k] = out[k]  BY <1>3, <2>1
    <2>3. CASE j \in 1 .. L
      <3>1. out'[j] = out[j]  BY <1>3, <2>3
      <3> QED  BY <1>1, <1>8, <2>2, <2>3, <3>1 DEF OutInv
    <2>4. CASE j = L + 1
      <3>1. out'[j] = x  BY <1>3, <2>4
      <3> QED  BY <1>6, <1>8, <2>1, <2>2, <3>1
    <2>5. j \in 1 .. L \/ j = L + 1  BY <1>2
    <2> QED  BY <2>3, <2>4, <2>5
  <1> QED  BY <1>3, <1>7, <1>8, SMTT(60) DEF OutInv

LEMMA ReadRecordStep ==
    ASSUME Inv, ReadRecord
    PROVE  Inv'
  <1>1. TypeOK /\ WriterInv /\ (checksum_ => ReaderInv)  BY DEF Inv
  <1>2. /\ phase = "read" /\ phase' = phase /\ UNCHANGED writerVars
        /\ initial_offset_' = initial_offset_ /\ eof_' = eof_
        /\ end_of_buffer_offset_' = end_of_buffer_offset_
    BY DEF ReadRecord
  <1>3. /\ file' = file /\ block_offset_' = block_offset_ /\ records' = records /\ left' = left
        /\ begin' = begin /\ damage' = damage /\ seam' = seam /\ emitted' = emitted
    BY <1>2 DEF writerVars
  <1>4. /\ Len(buffer_) >= kHeaderSize
        /\ resyncing_' => resyncing_ /\ in_fragmented_record' = in_fragmented_record
        /\ resyncing_' \in BOOLEAN
    BY <1>1, ReadRecordProps
  <1>5. PICK m \in kHeaderSize .. Len(buffer_) :
           /\ buffer_' = From(buffer_, m)
           /\ \/ Nothing
              \/ \E n \in Nat, t \in 0 .. 4 :
                    /\ m = kHeaderSize + n /\ CrcMatches(t, FragmentAt(n))
                    /\ Accepts(t, FragmentAt(n))
    BY <1>1, ReadRecordProps
  <1>6. /\ kHeaderSize \in Nat /\ kHeaderSize >= 3 /\ Len(buffer_) \in Nat /\ Len(file) \in Nat
        /\ m \in Nat /\ m <= Len(buffer_) /\ m \in 0 .. Len(buffer_)
    BY <1>1, LogAssumption, LenProperties DEF TypeOK
  <1>7. TypeOK'
    <2>1. buffer_' \in Seq(Cell)
      <3>1. buffer_ \in Seq(Cell)  BY <1>1 DEF TypeOK
      <3> QED  BY <1>5, <1>6, <3>1, FromProps
    <2>2. scratch' \in Seq(Cell) /\ out' \in Seq(Seq(Cell)) /\ in_fragmented_record' \in BOOLEAN
      <3>1. scratch \in Seq(Cell) /\ out \in Seq(Seq(Cell)) /\ in_fragmented_record \in BOOLEAN
            /\ <<>> \in Seq(Cell)
        BY <1>1, EmptySeq DEF TypeOK
      <3>2. CASE Nothing  BY <3>1, <3>2 DEF Nothing
      <3>3. ASSUME NEW n \in Nat, NEW t \in 0 .. 4, m = kHeaderSize + n, Accepts(t, FragmentAt(n))
            PROVE  scratch' \in Seq(Cell) /\ out' \in Seq(Seq(Cell)) /\ in_fragmented_record' \in BOOLEAN
        <4>1. PICK f : f = FragmentAt(n)  OBVIOUS
        <4>2. f \in Seq(Cell)  BY <1>1, <1>6, <3>3, <4>1, FragmentAtProps
        <4>3. scratch \o f \in Seq(Cell)  BY <3>1, <4>2, ConcatProperties
        <4>4. Append(out, f) \in Seq(Seq(Cell)) /\ Append(out, scratch \o f) \in Seq(Seq(Cell))
          BY <3>1, <4>2, <4>3, AppendProperties
        <4>5. Accepts(t, f)  BY <3>3, <4>1
        <4>6. scratch' \in {<<>>, f, scratch \o f}
              /\ out' \in {out, Append(out, f), Append(out, scratch \o f)}
              /\ in_fragmented_record' \in BOOLEAN
          BY <4>5 DEF Accepts
        <4> QED  BY <3>1, <4>2, <4>3, <4>4, <4>6
      <3> QED  BY <1>5, <3>2, <3>3
    <2> QED  BY <1>1, <1>2, <1>3, <1>4, <2>1, <2>2 DEF TypeOK
  <1>8. WriterInv'  BY <1>1, <1>2, WriterStill
  <1>9. ASSUME checksum_
        PROVE  ReaderInv'
    <2>1. BufferInv /\ ScratchInv /\ OutInv  BY <1>1, <1>9 DEF ReaderInv
    <2>2. RecordsInv /\ EmittedInv /\ OrderInv /\ ContInv /\ CellInv /\ AlignInv
      BY <1>1 DEF WriterInv
    <2>3. BufferInv' /\ Pos' = Pos + m /\ Pos \in Nat /\ Pos' \in Nat
      BY <1>1, <1>2, <1>3, <1>5, <2>1, BufferShift
    <2>4. IdleInv'  BY <1>2 DEF IdleInv
    <2>5. Pos' >= Pos  BY <1>6, <2>3
    <2>6. (resyncing_ => ~in_fragmented_record)'  BY <1>4, <2>1 DEF ScratchInv
    <2>7. CASE Nothing
      <3>1. ~in_fragmented_record'  BY <2>1, <2>7 DEF Nothing, ScratchInv
      <3>2. ScratchInv'  BY <2>6, <3>1 DEF ScratchInv
      <3>3. out' = out  BY <2>7 DEF Nothing
      <3>4. OutInv'  BY <1>1, <1>2, <1>3, <2>1, <2>3, <2>5, <3>3, OutKept
      <3> QED  BY <2>3, <2>4, <3>2, <3>4 DEF ReaderInv
    <2>8. ASSUME NEW n \in Nat, NEW t \in 0 .. 4, m = kHeaderSize + n,
                 CrcMatches(t, FragmentAt(n)), Accepts(t, FragmentAt(n))
          PROVE  ReaderInv'
      <3>1. PICK f : f = FragmentAt(n)  OBVIOUS
      <3>2. PICK s : s = Pos  OBVIOUS
      <3>3. f \in Seq(Cell) /\ Len(f) = n /\ \A k \in 1 .. n : f[k] = buffer_[kHeaderSize + k]
        BY <1>1, <1>6, <2>8, <3>1, FragmentAtProps
      \* The cells the reader looks at are those of the file.
      <3>4. s \in Nat /\ s + kHeaderSize + n <= Len(file)
        <4>1. buffer_ # <<>>
          <5>1. Len(buffer_) > 0  BY <1>4, <1>6
          <5> QED  BY <5>1
        <4>2. end_of_buffer_offset_ <= Len(file)  BY <2>1, <4>1 DEF BufferInv
        <4>3. s = end_of_buffer_offset_ - Len(buffer_) /\ end_of_buffer_offset_ \in Nat
          BY <1>1, <3>2 DEF Pos, TypeOK
        <4> QED  BY <1>6, <2>3, <2>8, <3>2, <4>2, <4>3
      <3>5. \A k \in 1 .. Len(buffer_) : buffer_[k] = file[s + k]  BY <2>1, <3>2 DEF BufferInv
      <3>6. \A k \in 1 .. kHeaderSize - 2 : file[s + k] = [kind |-> "crc", sum |-> <<t, f>>]
        <4> TAKE k \in 1 .. kHeaderSize - 2
        <4>1. buffer_[k] = [kind |-> "crc", sum |-> <<t, f>>]  BY <1>9, <2>8, <3>1 DEF CrcMatches
        <4>2. k \in 1 .. Len(buffer_)  BY <1>4, <1>6
        <4> QED  BY <3>5, <4>1, <4>2
      <3>7. \A k \in 1 .. n : f[k] = file[s + kHeaderSize + k]
        <4> TAKE k \in 1 .. n
        <4>1. kHeaderSize + k \in 1 .. Len(buffer_)  BY <1>6, <2>8
        <4>2. buffer_[kHeaderSize + k] = file[s + (kHeaderSize + k)]  BY <3>5, <4>1
        <4>3. s + (kHeaderSize + k) = s + kHeaderSize + k  BY <1>6, <3>4
        <4> QED  BY <3>3, <4>2, <4>3
      <3>8. Pos' = s + kHeaderSize + n  BY <1>6, <2>3, <2>8, <3>2, <3>4
      <3>9. Accepts(t, f)  BY <2>8, <3>1
      <3>10. CASE n = 0
        \* Only an empty first or full fragment can be accepted here.
        <4>1. f = <<>>  BY <3>3, <3>10, EmptySeq
        <4>2. SumAt(s, t, <<>>)
          <5> SUFFICES ASSUME NEW p \in s + 1 .. s + kHeaderSize - 2
                       PROVE  file[p] = [kind |-> "crc", sum |-> <<t, <<>>>>]
            BY DEF SumAt
          <5>1. PICK k : k = p - s  OBVIOUS
          <5>2. k \in 1 .. kHeaderSize - 2 /\ s + k = p  BY <1>6, <3>4, <5>1
          <5> QED  BY <3>6, <4>1, <5>2
        <4>3. t \in {kFirstType, kFullType}
          <5>1. PICK p : p = s + 1  OBVIOUS
          <5>2. p \in s + 1 .. s + kHeaderSize - 2 /\ p \in 1 .. Len(file)
            BY <1>6, <3>4, <3>10, <5>1
          <5>3. file[p] = [kind |-> "crc", sum |-> <<t, <<>>>>]  BY <4>2, <5>2 DEF SumAt
          <5> QED  BY <1>1, <2>2, <5>2, <5>3, EmptyGenuine
        <4>4. CASE t = kFullType
          <5>1. out' = Append(out, f) /\ in_fragmented_record' = FALSE
            BY <3>9, <4>4 DEF Accepts, kFullType, kFirstType, kMiddleType, kLastType
          <5>2. OutInv'
            <6>1. Pos \in Int /\ Pos' \in Int  BY <2>3
            <6> QED  BY <1>1, <1>2, <1>3, <2>1, <2>2, <2>5, <3>3, <4>1, <5>1, <6>1, OutReturned
          <5>3. ScratchInv'  BY <2>6, <5>1 DEF ScratchInv
          <5> QED  BY <2>3, <2>4, <5>2, <5>3 DEF ReaderInv
        <4>5. CASE t = kFirstType
          <5>1. out' = out /\ scratch' = <<>> /\ in_fragmented_record' = TRUE
            BY <3>9, <4>1, <4>5 DEF Accepts, kFullType, kFirstType, kMiddleType, kLastType
          <5>2. OutInv'  BY <1>1, <1>2, <1>3, <2>1, <2>3, <2>5, <5>1, OutKept
          <5>3. ASSUME Len(buffer_') >= kHeaderSize \/ ~eof_', NEW Q \in emitted,
                       Q.type \in {kMiddleType, kLastType}, Q.start = NextPos'
                PROVE  scratch' = [k \in 1 .. Q.from |-> Data(Q.rec, k)]
            <6>1. PICK x : x = NextPos'  OBVIOUS
            <6>2. /\ x \in Nat /\ Pos' <= x /\ x < Pos' + kHeaderSize /\ (x = Pos' \/ Aligned(x))
              BY <1>2, <1>7, <2>3, <5>3, <6>1, NextPosProps
            <6>3. Pos' = s + kHeaderSize  BY <1>6, <3>4, <3>8, <3>10
            <6>4. \/ x = s + kHeaderSize
                  \/ Aligned(x) /\ s + kHeaderSize <= x /\ x < s + 2 * kHeaderSize
              <7>1. s + kHeaderSize <= x /\ x < s + kHeaderSize + kHeaderSize
                BY <6>2, <6>3
              <7>2. x < s + 2 * kHeaderSize  BY <1>6, <3>4, <6>2, <7>1
              <7> QED  BY <6>2, <6>3, <7>1, <7>2
            <6>5. s + kHeaderSize <= Len(file)  BY <1>6, <3>4
            <6>6. Q.from = 0
              BY <1>1, <1>2, <2>2, <3>4, <4>2, <4>5, <5>3, <6>1, <6>2, <6>4, <6>5, FollowEmpty
            <6>7. [k \in 1 .. 0 |-> Data(Q.rec, k)] = <<>>  OBVIOUS
            <6> QED  BY <5>1, <6>6, <6>7
          <5>4. ScratchInv'  BY <1>3, <2>6, <5>3 DEF ScratchInv
          <5> QED  BY <2>3, <2>4, <5>2, <5>4 DEF ReaderInv
        <4> QED  BY <4>3, <4>4, <4>5
      <3>11. CASE n > 0
        <4>1. PICK P \in emitted : /\ P.start = s /\ P.type = t /\ FragmentOf(P) = f
                                   /\ P.n = n /\ Whole(P)
          BY <1>1, <2>2, <3>3, <3>4, <3>6, <3>7, <3>11, Genuine
        <4>2. P \in Physical /\ P.rec \in 1 .. Len(records)  BY <1>1, <2>2 DEF TypeOK, EmittedInv
        <4>3. Pos' = P.start + P.len
          <5>1. P.len = kHeaderSize + n  BY <4>1 DEF Whole
          <5> QED  BY <1>6, <3>4, <3>8, <4>1, <5>1
        <4>4. records[P.rec].data = [k \in 1 .. Size(P.rec) |-> Data(P.rec, k)]
          BY <2>2, <4>2 DEF RecordsInv
        \* What was collected before is what P continues.
        <4>5. ASSUME t \in {kMiddleType, kLastType}, in_fragmented_record
              PROVE  scratch \o f = [k \in 1 .. P.from + P.n |-> Data(P.rec, k)]
          <5>1. NextPos = s  BY <1>4, <3>2 DEF NextPos
          <5>2. scratch = [k \in 1 .. P.from |-> Data(P.rec, k)]
            BY <1>2, <1>4, <2>1, <4>1, <4>5, <5>1 DEF ScratchInv
          <5> QED  BY <4>1, <4>2, <5>2, JoinData
        <4>6. ASSUME t \in {kFirstType, kFullType}
              PROVE  f = [k \in 1 .. P.from + P.n |-> Data(P.rec, k)]
          <5>1. P.from = 0  BY <2>2, <4>1, <4>6 DEF EmittedInv
          <5>2. P.n \in Nat  BY <4>2 DEF Physical
          <5>3. f = [k \in 1 .. P.n |-> Data(P.rec, P.from + k)]  BY <4>1 DEF FragmentOf
          <5>4. 0 + P.n = P.n /\ \A k \in 1 .. P.n : 0 + k = k  BY <5>2
          <5> QED  BY <5>1, <5>3, <5>4
        <4>7. ASSUME t \in {kLastType, kFullType}
              PROVE  P.from + P.n = Size(P.rec)
          BY <2>2, <4>1, <4>7 DEF EmittedInv
        <4>8. CASE in_fragmented_record' = FALSE
          \* The record ends here and is returned.
          <5>1. PICK x \in Seq(Cell) : /\ out' = Append(out, x) /\ x = records[P.rec].data
                                       /\ t \in {kLastType, kFullType}
            <6>1. CASE t = kFullType
              <7>1. out' = Append(out, f)
                BY <3>9, <6>1 DEF Accepts, kFullType, kFirstType, kMiddleType, kLastType
              <7> QED  BY <3>3, <4>4, <4>6, <4>7, <6>1, <7>1
            <6>2. CASE t # kFullType
              <7>1. t = kLastType /\ in_fragmented_record /\ out' = Append(out, scratch \o f)
                BY <3>9, <4>8, <6>2 DEF Accepts
              <7>2. scratch \o f \in Seq(Cell)
                <8>1. scratch \in Seq(Cell)  BY <1>1 DEF TypeOK
                <8> QED  BY <3>3, <8>1, ConcatProperties
              <7> QED  BY <4>4, <4>5, <4>7, <7>1, <7>2
            <6> QED  BY <6>1, <6>2
          <5>2. \E D \in emitted : /\ D.type \in {kFullType, kLastType} /\ D.start = Pos
                                   /\ Pos' = D.start + D.len /\ x = records[D.rec].data
            BY <3>2, <4>1, <4>3, <5>1
          <5>3. OutInv'
            <6>1. Pos \in Int /\ Pos' \in Int  BY <2>3
            <6> QED  BY <1>1, <1>2, <1>3, <2>1, <2>2, <2>5, <5>1, <5>2, <6>1, OutReturned
          <5>4. ScratchInv'  BY <2>6, <4>8 DEF ScratchInv
          <5> QED  BY <2>3, <2>4, <5>3, <5>4 DEF ReaderInv
        <4>9. CASE in_fragmented_record' # FALSE
          \* The record goes on.
          <5>1. out' = out /\ scratch' = [k \in 1 .. P.from + P.n |-> Data(P.rec, k)]
            <6>1. CASE t = kFirstType
              <7>1. out' = out /\ scratch' = f
                BY <3>9, <6>1 DEF Accepts, kFullType, kFirstType, kMiddleType, kLastType
              <7> QED  BY <4>6, <6>1, <7>1
            <6>2. CASE t # kFirstType
              <7>1. t = kMiddleType /\ in_fragmented_record /\ out' = out /\ scratch' = scratch \o f
                BY <3>9, <4>9, <6>2 DEF Accepts
              <7> QED  BY <4>5, <7>1
            <6> QED  BY <6>1, <6>2
          <5>2. OutInv'  BY <1>1, <1>2, <1>3, <2>1, <2>3, <2>5, <5>1, OutKept
          <5>3. ASSUME Len(buffer_') >= kHeaderSize \/ ~eof_', NEW Q \in emitted,
                       Q.type \in {kMiddleType, kLastType}, Q.start = NextPos'
                PROVE  scratch' = [k \in 1 .. Q.from |-> Data(Q.rec, k)]
            <6>1. PICK x : x = NextPos'  OBVIOUS
            <6>2. x \in Nat /\ Pos' <= x /\ x < Pos' + kHeaderSize
              BY <1>2, <1>7, <2>3, <5>3, <6>1, NextPosProps
            <6>3. Q.rec = P.rec /\ Q.from = P.from + P.n
              BY <1>1, <2>2, <4>1, <4>3, <5>3, <6>1, <6>2, FollowWhole
            <6> QED  BY <5>1, <6>3
          <5>4. ScratchInv'  BY <1>3, <2>6, <5>3 DEF ScratchInv
          <5> QED  BY <2>3, <2>4, <5>2, <5>4 DEF ReaderInv
        <4> QED  BY <4>8, <4>9
      <3> QED  BY <3>10, <3>11
    <2> QED  BY <1>5, <2>7, <2>8
  <1> QED  BY <1>7, <1>8, <1>9 DEF Inv

-----------------------------------------------------------------------------
(* The specification.                                                       *)

\* The invariant holds of an empty file before anything is read.
LEMMA InitInv ==
  Init => Inv
  <1> SUFFICES ASSUME Init PROVE Inv  OBVIOUS
  <1>1. kBlockSize \in Nat /\ initial_offset_ \in Nat  BY LogAssumption DEF Init
  <1>2. TypeOK
    <2>1. <<>> \in Seq(Cell)  OBVIOUS
    <2>2. <<>> \in Seq(Entry)  OBVIOUS
    <2>3. <<>> \in Seq(DataCell)  OBVIOUS
    <2>4. <<>> \in Seq(Seq(Cell))  OBVIOUS
    <2>5. file \in Seq(Cell) /\ buffer_ \in Seq(Cell) /\ scratch \in Seq(Cell)
      BY <2>1 DEF Init
    <2>6. records \in Seq(Entry) /\ left \in Seq(DataCell) /\ out \in Seq(Seq(Cell))
      BY <2>2, <2>3, <2>4 DEF Init
    <2>7. resyncing_ \in BOOLEAN /\ in_fragmented_record \in BOOLEAN
          /\ begin \in BOOLEAN /\ eof_ \in BOOLEAN
      <3>1. resyncing_ \in BOOLEAN  BY DEF Init
      <3>2. in_fragmented_record \in BOOLEAN  BY DEF Init
      <3>3. begin \in BOOLEAN  BY DEF Init
      <3>4. eof_ \in BOOLEAN  BY DEF Init
      <3> QED  BY <3>1, <3>2, <3>3, <3>4
    <2>8. block_offset_ \in 0 .. kBlockSize /\ end_of_buffer_offset_ \in Nat /\ damage \in Nat
      BY <1>1 DEF Init
    <2>9. emitted \subseteq Physical /\ phase = "open" /\ seam = "none"  BY DEF Init
    <2> QED  BY <1>1, <2>5, <2>6, <2>7, <2>8, <2>9 DEF TypeOK
  <1>3. Len(file) = 0 /\ Len(records) = 0 /\ Len(buffer_) = 0 /\ Len(out) = 0
    BY DEF Init
  <1>4. WriterInv
    <2>1. RecordsInv  BY <1>3 DEF RecordsInv
    <2>2. EmittedInv /\ OrderInv /\ ContInv
      BY DEF Init, EmittedInv, OrderInv, ContInv
    <2>3. CellInv  BY <1>3 DEF CellInv
    <2>4. AddInv  BY DEF Init, AddInv
    <2>5. Aligned(Len(file) - block_offset_)
      <3>1. Len(file) - block_offset_ = 0 * kBlockSize  BY <1>1, <1>3 DEF Init
      <3> QED  BY <3>1 DEF Aligned
    <2>6. AlignInv  BY <2>5 DEF Init, AlignInv
    <2> QED  BY <2>1, <2>2, <2>3, <2>4, <2>6 DEF WriterInv
  <1>5. ReaderInv
    <2>1. BufferInv  BY <1>3 DEF Init, BufferInv
    <2>2. IdleInv  BY DEF Init, IdleInv
    <2>3. ScratchInv  BY DEF Init, ScratchInv
    <2>4. OutInv  BY <1>3 DEF OutInv
    <2> QED  BY <2>1, <2>2, <2>3, <2>4 DEF ReaderInv
  <1> QED  BY <1>2, <1>4, <1>5 DEF Inv

\* A step that changes nothing keeps the invariant.
LEMMA StutterStep ==
  ASSUME Inv, UNCHANGED vars
  PROVE  Inv'
  <1>1. /\ UNCHANGED <<file, block_offset_, records, left, begin, damage, seam, emitted>>
        /\ UNCHANGED <<phase, initial_offset_, buffer_, eof_, end_of_buffer_offset_>>
        /\ UNCHANGED <<resyncing_, scratch, in_fragmented_record, out>>
    BY DEF vars, writerVars, readerVars
  <1>2. TypeOK' = TypeOK  BY <1>1 DEF TypeOK
  <1>3. WriterInv' = WriterInv
    BY <1>1 DEF WriterInv, RecordsInv, EmittedInv, OrderInv, ContInv, CellInv, AddInv, AlignInv,
                LastOne, Size
  <1>4. ReaderInv' = ReaderInv
    BY <1>1 DEF ReaderInv, BufferInv, IdleInv, ScratchInv, OutInv, Pos, NextPos
  <1> QED  BY <1>2, <1>3, <1>4 DEF Inv

\* Every step keeps the invariant.
LEMMA NextStep ==
  Inv /\ [Next]_vars => Inv'
  <1> SUFFICES ASSUME Inv, [Next]_vars PROVE Inv'  OBVIOUS
  <1>1. ASSUME NEW n \in Sizes, AddRecord(n) PROVE Inv'  BY <1>1, AddRecordStep
  <1>2. CASE EmitPhysicalRecord  BY <1>2, EmitPhysicalRecordStep
  <1>3. CASE EmitFails  BY <1>3, EmitFailsStep
  <1>4. CASE Crash  BY <1>4, CrashStep
  <1>5. CASE Reopen  BY <1>5, ReopenStep
  <1>6. CASE Damage  BY <1>6, DamageStep
  <1>7. CASE OpenReader  BY <1>7, OpenReaderStep
  <1>8. CASE ReadBlock  BY <1>8, ReadBlockStep
  <1>9. CASE ReadRecord  BY <1>9, ReadRecordStep
  <1>10. CASE ReadEof  BY <1>10, ReadEofStep
  <1>11. CASE UNCHANGED vars  BY <1>11, StutterStep
  <1> QED
    BY <1>1, <1>2, <1>3, <1>4, <1>5, <1>6, <1>7, <1>8, <1>9, <1>10, <1>11 DEF Next

\* The invariant says of what was returned that it was written, in that order.
LEMMA InvNothingInvented ==
  Inv => NothingInvented
  <1> SUFFICES ASSUME Inv, checksum_, NEW j \in DOMAIN out, out[j] # <<>>
               PROVE  /\ out[j] \in {records[r].data : r \in DOMAIN records}
                      /\ \A k \in 1 .. j - 1 : out[k] # <<>> => out[k][1].rec < out[j][1].rec
    BY DEF NothingInvented
  <1>1. out \in Seq(Seq(Cell)) /\ records \in Seq(Entry)  BY DEF Inv, TypeOK
  <1>2. DOMAIN out = 1 .. Len(out) /\ DOMAIN records = 1 .. Len(records)  BY <1>1
  <1>3. OutInv  BY DEF Inv, ReaderInv
  <1>4. PICK r \in 1 .. Len(records) : out[j] = records[r].data  BY <1>2, <1>3 DEF OutInv
  <1>5. \A k \in 1 .. j - 1 : out[k] # <<>> => out[k][1].rec < out[j][1].rec
    BY <1>2, <1>3 DEF OutInv
  <1> QED  BY <1>2, <1>4, <1>5

\* log::Reader with checksums, over any log that log::Writer produced and that
\* was cut, torn, appended to again or damaged in one byte: every record that
\* ReadRecord returns was given to AddRecord, whole, and in that order.
THEOREM NothingInventedHolds == Spec => []NothingInvented
  <1>1. Init => Inv  BY InitInv
  <1>2. Inv /\ [Next]_vars => Inv'  BY NextStep
  <1>3. Inv => NothingInvented  BY InvNothingInvented
  <1> QED  BY <1>1, <1>2, <1>3, PTL DEF Spec

-----------------------------------------------------------------------------
(* Nothing is missing: the second invariant.                                *)

Ends(P)      == P.type \in {kFullType, kLastType}
Starts(P)    == P.type \in {kFirstType, kFullType}
Goes(P)      == P.type \in {kFirstType, kMiddleType}
Continues(P) == P.type \in {kMiddleType, kLastType}
EndOf(P)     == P.start + P.len

\* x is in the block that begins at y.
In(x, y) == Aligned(y) /\ y <= x /\ x < y + kBlockSize

\* The physical records, while nothing was appended behind half of one: each
\* lies in one block, the first of a block at its beginning, and each directly
\* behind the one before it unless the rest of the block is a trailer.
BlocksInv ==
    /\ \A P \in emitted : \E y \in Int : In(P.start, y) /\ P.start + kHeaderSize + P.n <= y + kBlockSize
    /\ \A y \in Nat : Aligned(y) /\ y < Len(file) => \E P \in emitted : P.start = y
TilingInv ==
    /\ phase \in {"open", "add"} => Aligned(Len(file) - block_offset_)
    /\ \A P \in emitted : Whole(P) \/ (phase \notin {"open", "add"} /\ EndOf(P) = Len(file))
    /\ \A P \in emitted : Whole(P) =>
          \/ EndOf(P) = Len(file)
          \/ \E Q \in emitted : Q.start = EndOf(P)
          \/ \E y \in Int : Aligned(y) /\ EndOf(P) < y /\ y < EndOf(P) + kHeaderSize
\* A record is acknowledged when its last physical record is in the file.
AckedInv ==
    /\ \A P \in emitted : /\ 0 <= records[P.rec].start /\ records[P.rec].start <= P.start
                          /\ Starts(P) => records[P.rec].start = P.start
                          /\ Ends(P) /\ Whole(P) => records[P.rec].acked
    /\ \A r \in 1 .. Len(records) :
          \/ records[r].end = -1 /\ ~records[r].acked
          \/ \E P \in emitted : /\ P.rec = r /\ Whole(P) /\ records[r].end = EndOf(P)
                                /\ records[r].acked => Ends(P)
\* A log that was never reused has no record that was given up but the last.
UnbrokenInv ==
    seam = "none" => \A P \in emitted : Goes(P) /\ Whole(P) =>
        \/ \E Q \in emitted : Q.start = EndOf(P) /\ Continues(Q)
        \/ EndOf(P) = Len(file) /\ (phase \notin {"open", "add"} \/ (phase = "add" /\ ~begin))
LayoutInv == seam # "torn" => BlocksInv /\ TilingInv /\ AckedInv /\ UnbrokenInv

\* Every cell of a physical record is in the file, except the damaged one.
WrittenInv ==
    /\ \A P \in emitted : \A k \in 1 .. P.len :
          file[P.start + k] = CellOf(P, k) \/ P.start + k = damage
    /\ damage # 0 => phase \notin {"open", "add"} /\ seam = "none" /\ damage <= Len(file)

\* The block that holds the damaged cell.
Hole(y) == damage # 0 /\ In(damage - 1, y)
Outside(x) == \A y \in Int : ~(Hole(y) /\ In(x, y))

\* The buffer is the rest of a block, or of the file.
RestInv ==
    /\ BufferInv
    /\ phase = "read" /\ eof_ => end_of_buffer_offset_ >= Len(file)
    /\ phase = "read" /\ buffer_ # <<>> =>
          \E y \in Int : In(Pos, y) /\ end_of_buffer_offset_ <= y + kBlockSize
\* Before anything is read.
UnreadInv ==
    /\ phase \in {"open", "add", "crashed"} =>
          buffer_ = <<>> /\ ~eof_ /\ out = <<>> /\ ~in_fragmented_record /\ ~reported
    /\ initial_offset_ = 0 => ~resyncing_

\* Outside the damaged block the reader stands at the start of a physical record.
StandInv ==
    phase = "read" /\ Len(buffer_) >= kHeaderSize /\ Outside(Pos) => \E P \in emitted : P.start = Pos

\* The reader stands at a continuation.  If the record should be returned the
\* parts before it were collected, and unless it should nothing was.
Fresh(Q) ==
    /\ records[Q.rec].start >= initial_offset_
    /\ \A y \in Int : Hole(y) => y + kBlockSize <= records[Q.rec].start \/ Q.start < y
CollectedInv ==
    phase = "read" /\ (Len(buffer_) >= kHeaderSize \/ ~eof_) =>
        \A Q \in emitted : Q.start = NextPos /\ Continues(Q) =>
            /\ Fresh(Q) => /\ in_fragmented_record /\ ~resyncing_
                           /\ scratch = [k \in 1 .. Q.from |-> Data(Q.rec, k)]
            /\ damage = 0 /\ in_fragmented_record => records[Q.rec].start >= initial_offset_

\* What was returned so far: the records that end before Limit.
Limit == IF phase = "done" THEN Len(file) ELSE NextPos
Due(r) == /\ records[r].acked /\ records[r].start >= initial_offset_
          /\ records[r].end <= Limit
Untouched(r) == \A y \in Int : Hole(y) => y + kBlockSize <= records[r].start \/ records[r].end <= y
Listed ==
    \E which \in [1 .. Len(out) -> 1 .. Len(records)] :
        /\ \A j \in 1 .. Len(out) : Due(which[j]) /\ out[j] = records[which[j]].data
        /\ \A i, j \in 1 .. Len(out) : i < j => which[i] < which[j]
        /\ \A r \in 1 .. Len(records) : Due(r) => \E j \in 1 .. Len(out) : which[j] = r
Returned(r) == \E j \in 1 .. Len(out) : out[j] = records[r].data
ReturnedInv ==
    phase \in {"read", "done"} =>
        /\ damage = 0 => Listed
        /\ \A r \in 1 .. Len(records) : Due(r) /\ Untouched(r) => Returned(r)

\* Nothing is reported.
SilentInv ==
    initial_offset_ = 0 /\ seam = "none" /\ damage = 0 =>
        /\ ~reported
        /\ phase = "read" /\ in_fragmented_record =>
              \A Q \in emitted : Q.start = NextPos => Continues(Q)

Sound == (checksum_ \/ damage = 0) /\ seam # "torn"
CompleteInv ==
    /\ LayoutInv /\ WrittenInv /\ RestInv /\ UnreadInv
    /\ Sound => StandInv /\ CollectedInv /\ ReturnedInv /\ SilentInv

\* The numbers of a physical record.
LEMMA EmittedNat ==
    ASSUME TypeOK, EmittedInv, NEW P \in emitted
    PROVE  /\ P \in Physical /\ P.type \in 1 .. 4
           /\ P.start \in Nat /\ P.len \in Nat /\ P.n \in Nat /\ P.from \in Nat /\ P.rec \in Nat
           /\ P.rec \in 1 .. Len(records) /\ 1 <= P.len /\ P.len <= kHeaderSize + P.n
           /\ EndOf(P) \in Nat /\ EndOf(P) <= Len(file)
  <1>1. P \in Physical  BY DEF TypeOK
  <1>2. /\ P.type \in 1 .. 4 /\ P.start \in Nat /\ P.len \in Nat /\ P.n \in Nat /\ P.from \in Nat
        /\ P.rec \in Nat
    BY <1>1 DEF Physical
  <1>3. /\ P.rec \in 1 .. Len(records) /\ 1 <= P.len /\ P.len <= kHeaderSize + P.n
        /\ P.start + P.len <= Len(file)
    BY DEF EmittedInv
  <1> QED  BY <1>1, <1>2, <1>3 DEF EndOf

LEMMA Numbers ==
    ASSUME TypeOK
    PROVE  /\ kHeaderSize \in Nat /\ kHeaderSize >= 3 /\ kBlockSize \in Nat
           /\ kBlockSize >= 2 * kHeaderSize /\ Len(file) \in Nat /\ Len(records) \in Nat
           /\ Len(buffer_) \in Nat /\ Len(out) \in Nat
  BY LogAssumption, LenProperties DEF TypeOK

LEMMA InUnique ==
    ASSUME NEW x \in Int, NEW y \in Int, NEW z \in Int, In(x, y), In(x, z)
    PROVE  y = z
  <1>1. Aligned(y) /\ y <= x /\ x < y + kBlockSize /\ Aligned(z) /\ z <= x /\ x < z + kBlockSize
    BY DEF In
  <1>2. kBlockSize \in Int  BY LogAssumption
  <1>3. CASE y < z
    <2>1. z < y + kBlockSize  BY <1>1, <1>2
    <2> QED  BY <1>1, <1>3, <2>1, NoneBetween
  <1>4. CASE z < y
    <2>1. y < z + kBlockSize  BY <1>1, <1>2
    <2> QED  BY <1>1, <1>4, <2>1, NoneBetween
  <1> QED  BY <1>3, <1>4

\* A physical record does not reach beyond its block.
LEMMA NoStraddle ==
    ASSUME TypeOK, EmittedInv, BlocksInv, NEW P \in emitted, NEW x \in Int, Aligned(x), P.start < x
    PROVE  EndOf(P) <= x
  <1>1. PICK y \in Int : In(P.start, y) /\ P.start + kHeaderSize + P.n <= y + kBlockSize
    BY DEF BlocksInv
  <1>2. /\ P.start \in Nat /\ P.len \in Nat /\ P.n \in Nat /\ P.len <= kHeaderSize + P.n
        /\ kHeaderSize \in Nat /\ kBlockSize \in Nat
    BY EmittedNat, LogAssumption
  <1>3. Aligned(y) /\ y <= P.start  BY <1>1 DEF In
  <1>4. y < x  BY <1>2, <1>3
  <1>5. ~(x < y + kBlockSize)  BY <1>3, <1>4, NoneBetween
  <1> QED  BY <1>1, <1>2, <1>5 DEF EndOf

\* Two physical records do not overlap.
LEMMA Apart ==
    ASSUME TypeOK, EmittedInv, OrderInv, NEW P \in emitted, NEW Q \in emitted
    PROVE  P = Q \/ EndOf(P) <= Q.start \/ EndOf(Q) <= P.start
  <1>1. P.start \in Nat /\ Q.start \in Nat  BY EmittedNat
  <1>2. /\ P.start = Q.start => P = Q
        /\ P.start < Q.start => P.start + P.len <= Q.start
        /\ Q.start < P.start => Q.start + Q.len <= P.start
    BY DEF OrderInv
  <1> QED  BY <1>1, <1>2 DEF EndOf

\* No whole one ends in what would be a trailer behind another.
LEMMA NoneInTrailer ==
    ASSUME TypeOK, EmittedInv, OrderInv, NEW P \in emitted, NEW Q \in emitted, Whole(Q),
           EndOf(P) < EndOf(Q), EndOf(Q) < EndOf(P) + kHeaderSize
    PROVE  FALSE
  <1>1. /\ P.start \in Nat /\ P.len \in Nat /\ Q.start \in Nat /\ Q.len \in Nat /\ Q.n \in Nat
        /\ 1 <= P.len
    BY EmittedNat
  <1>2. kHeaderSize \in Nat /\ Q.len = kHeaderSize + Q.n  BY LogAssumption DEF Whole
  <1>3. P = Q \/ EndOf(P) <= Q.start \/ EndOf(Q) <= P.start  BY Apart
  <1>4. CASE P = Q
    <2>1. EndOf(P) = EndOf(Q) /\ EndOf(P) \in Nat  BY <1>4, EmittedNat
    <2> QED  BY <2>1
  <1> QED  BY <1>1, <1>2, <1>3, <1>4 DEF EndOf

LEMMA SameEnd ==
    ASSUME TypeOK, EmittedInv, OrderInv, NEW P \in emitted, NEW Q \in emitted, EndOf(P) = EndOf(Q)
    PROVE  P = Q
  <1>1. /\ P.start \in Nat /\ P.len \in Nat /\ 1 <= P.len /\ Q.start \in Nat /\ Q.len \in Nat
        /\ 1 <= Q.len
    BY EmittedNat
  <1>2. P = Q \/ EndOf(P) <= Q.start \/ EndOf(Q) <= P.start  BY Apart
  <1> QED  BY <1>1, <1>2 DEF EndOf

\* A record has one last physical record.
LEMMA OneEnd ==
    ASSUME TypeOK, EmittedInv, OrderInv, NEW P \in emitted, NEW Q \in emitted, P.rec = Q.rec,
           Ends(P), Ends(Q)
    PROVE  P = Q
  <1>1. P.start \in Nat /\ Q.start \in Nat  BY EmittedNat
  <1>2. /\ P.start = Q.start => P = Q
        /\ P.start < Q.start => P.type \notin {kFullType, kLastType}
        /\ Q.start < P.start => Q.type \notin {kFullType, kLastType}
    BY DEF OrderInv
  <1> QED  BY <1>1, <1>2 DEF Ends

\* The last physical record of a record that was acknowledged.
LEMMA AckedEnd ==
    ASSUME TypeOK, EmittedInv, AckedInv, NEW r \in 1 .. Len(records), records[r].acked
    PROVE  \E P \in emitted : /\ P.rec = r /\ Whole(P) /\ Ends(P) /\ records[r].end = EndOf(P)
                              /\ 0 <= records[r].start /\ records[r].start <= P.start
                              /\ records[r].start + kHeaderSize <= records[r].end
  <1>1. PICK P \in emitted : /\ P.rec = r /\ Whole(P) /\ records[r].end = EndOf(P)
                             /\ records[r].acked => Ends(P)
    BY DEF AckedInv
  <1>2. 0 <= records[r].start /\ records[r].start <= P.start  BY <1>1 DEF AckedInv
  <1>3. P.start \in Nat /\ P.n \in Nat /\ kHeaderSize \in Nat  BY EmittedNat, LogAssumption
  <1>4. records[r].start \in Int
    <2>1. records[r] \in Entry  BY ElementOfSeq DEF TypeOK
    <2> QED  BY <2>1 DEF Entry
  <1>5. records[r].start + kHeaderSize <= records[r].end
    <2>1. records[r].end = P.start + (kHeaderSize + P.n)  BY <1>1 DEF EndOf, Whole
    <2> QED  BY <1>2, <1>3, <1>4, <2>1
  <1> QED  BY <1>1, <1>2, <1>5

-----------------------------------------------------------------------------
(* The second invariant: the steps of the writer, and the faults.           *)

\* While nothing is read the reader's part says little.
LEMMA Unread ==
    ASSUME TypeOK, UnreadInv, phase \in {"open", "add", "crashed"},
           phase' \in {"open", "add", "crashed"}, UNCHANGED readerVars,
           initial_offset_' = initial_offset_
    PROVE  /\ RestInv' /\ UnreadInv' /\ StandInv' /\ CollectedInv' /\ ReturnedInv' /\ SilentInv'
  <1>1. /\ buffer_ = <<>> /\ ~eof_ /\ out = <<>> /\ ~in_fragmented_record /\ ~reported
        /\ (initial_offset_ = 0 => ~resyncing_)
    BY DEF UnreadInv
  <1>2. /\ buffer_' = <<>> /\ ~eof_' /\ out' = <<>> /\ ~in_fragmented_record' /\ ~reported'
        /\ (initial_offset_' = 0 => ~resyncing_')
        /\ end_of_buffer_offset_' \in Nat /\ phase' # "read" /\ phase' # "done"
    BY <1>1 DEF readerVars, TypeOK
  <1>3. Len(buffer_') = 0  BY <1>2
  <1>4. BufferInv'
    <2>1. \A k \in 1 .. 0 : buffer_'[k] = file'[Pos' + k]  OBVIOUS
    <2> QED  BY <1>2, <1>3, <2>1 DEF BufferInv
  <1>5. RestInv'  BY <1>2, <1>4 DEF RestInv
  <1>6. UnreadInv'  BY <1>2 DEF UnreadInv
  <1>7. StandInv' /\ CollectedInv' /\ ReturnedInv' /\ SilentInv'
    BY <1>2 DEF StandInv, CollectedInv, ReturnedInv, SilentInv
  <1> QED  BY <1>5, <1>6, <1>7

\* Once the writer has stopped, less is claimed of the end of the file.
LEMMA Stopped ==
    ASSUME LayoutInv, Len(file') = Len(file), records' = records, emitted' = emitted,
           seam' = seam, phase' \notin {"open", "add"}
    PROVE  LayoutInv'
  <1> SUFFICES ASSUME seam' # "torn" PROVE BlocksInv' /\ TilingInv' /\ AckedInv' /\ UnbrokenInv'
    BY DEF LayoutInv
  <1>1. BlocksInv /\ TilingInv /\ AckedInv /\ UnbrokenInv  BY DEF LayoutInv
  <1>2. BlocksInv'  BY <1>1 DEF BlocksInv
  <1>3. TilingInv'  BY <1>1 DEF TilingInv
  <1>4. AckedInv'  BY <1>1 DEF AckedInv
  <1>5. UnbrokenInv'  BY <1>1 DEF UnbrokenInv
  <1> QED  BY <1>2, <1>3, <1>4, <1>5

LEMMA AddRecordComplete ==
    ASSUME Inv, CompleteInv, NEW n \in Sizes, AddRecord(n)
    PROVE  CompleteInv'
  <1>1. TypeOK /\ EmittedInv /\ LayoutInv /\ WrittenInv /\ UnreadInv
    BY DEF Inv, WriterInv, CompleteInv
  <1>2. PICK e : e = [data |-> left', start |-> -1, end |-> -1, acked |-> FALSE]  OBVIOUS
  <1>3. /\ phase = "open" /\ phase' = "add" /\ begin' = TRUE /\ records' = Append(records, e)
        /\ file' = file /\ block_offset_' = block_offset_ /\ damage' = damage /\ seam' = seam
        /\ emitted' = emitted /\ initial_offset_' = initial_offset_ /\ UNCHANGED readerVars
    BY <1>2 DEF AddRecord
  <1>4. PICK R : R = Len(records)  OBVIOUS
  <1>5. R \in Nat /\ records \in Seq(Entry)  BY <1>1, <1>4, Numbers DEF TypeOK
  <1>6. /\ Len(records') = R + 1 /\ records'[R + 1] = e
        /\ \A r \in 1 .. R : records'[r] = records[r]
    BY <1>3, <1>4, <1>5
  <1>7. \A P \in emitted : P.rec \in 1 .. R  BY <1>1, <1>4, EmittedNat
  <1>8. LayoutInv'
    <2> SUFFICES ASSUME seam # "torn" PROVE BlocksInv' /\ TilingInv' /\ AckedInv' /\ UnbrokenInv'
      BY <1>3 DEF LayoutInv
    <2>1. BlocksInv /\ TilingInv /\ AckedInv /\ UnbrokenInv  BY <1>1 DEF LayoutInv
    <2>2. BlocksInv'  BY <1>3, <2>1 DEF BlocksInv
    <2>3. TilingInv'  BY <1>3, <2>1 DEF TilingInv
    <2>4. AckedInv'
      <3>1. \A P \in emitted : records'[P.rec] = records[P.rec]  BY <1>6, <1>7
      <3>2. ASSUME NEW P \in emitted
            PROVE  /\ 0 <= records'[P.rec].start /\ records'[P.rec].start <= P.start
                   /\ Starts(P) => records'[P.rec].start = P.start
                   /\ Ends(P) /\ Whole(P) => records'[P.rec].acked
        BY <2>1, <3>1 DEF AckedInv
      <3>3. ASSUME NEW r \in 1 .. R + 1
            PROVE  \/ records'[r].end = -1 /\ ~records'[r].acked
                   \/ \E P \in emitted : /\ P.rec = r /\ Whole(P) /\ records'[r].end = EndOf(P)
                                         /\ records'[r].acked => Ends(P)
        <4>1. CASE r \in 1 .. R
          <5>1. \/ records[r].end = -1 /\ ~records[r].acked
                \/ \E P \in emitted : /\ P.rec = r /\ Whole(P) /\ records[r].end = EndOf(P)
                                      /\ records[r].acked => Ends(P)
            BY <1>4, <2>1, <4>1 DEF AckedInv
          <5>2. records'[r] = records[r]  BY <1>6, <4>1
          <5> QED  BY <5>1, <5>2
        <4>2. CASE r = R + 1  BY <1>2, <1>6, <4>2
        <4> QED  BY <1>5, <4>1, <4>2
      <3> QED  BY <1>3, <1>6, <3>2, <3>3 DEF AckedInv
    <2>5. UnbrokenInv'  BY <1>3, <2>1 DEF UnbrokenInv
    <2> QED  BY <2>2, <2>3, <2>4, <2>5
  <1>9. WrittenInv'  BY <1>1, <1>3 DEF WrittenInv
  <1>10. /\ RestInv' /\ UnreadInv' /\ StandInv' /\ CollectedInv' /\ ReturnedInv' /\ SilentInv'
    BY <1>1, <1>3, Unread
  <1> QED  BY <1>8, <1>9, <1>10 DEF CompleteInv

\* The offset in the block is the offset in the file.
LEMMA BlockStep ==
    ASSUME TypeOK, AddInv, phase = "add", Aligned(Len(file) - block_offset_)
    PROVE  \E y \in Int :
              /\ Aligned(y) /\ Len(file) + Len(Trailer) = y + Offset
              /\ Len(Trailer) > 0 => /\ Offset = 0 /\ Len(Trailer) < kHeaderSize
                                     /\ Aligned(Len(file) - block_offset_)
                                     /\ Len(file) - block_offset_ + kBlockSize = y
                                     /\ Len(file) - block_offset_ < Len(file)
  <1>1. /\ kHeaderSize \in Nat /\ kBlockSize \in Nat /\ block_offset_ \in Nat
        /\ block_offset_ <= kBlockSize /\ kBlockSize >= 2 * kHeaderSize /\ kHeaderSize >= 3
    BY LogAssumption DEF TypeOK
  <1>2. Len(file) \in Nat /\ Len(Trailer) \in Nat /\ Offset \in Nat
    BY TrailerProps, LenProperties DEF TypeOK
  <1>3. Len(Trailer) = IF kBlockSize - block_offset_ < kHeaderSize
                       THEN kBlockSize - block_offset_ ELSE 0
    BY TrailerProps
  <1>4. PICK x : x = Len(file) - block_offset_  OBVIOUS
  <1>5. x \in Int /\ Aligned(x)  BY <1>1, <1>2, <1>4
  <1>6. CASE kBlockSize - block_offset_ < kHeaderSize
    <2>1. PICK y : y = x + kBlockSize  OBVIOUS
    <2>2. y \in Int /\ Aligned(y)  BY <1>1, <1>5, <2>1, AlignedNext
    <2>3. Offset = 0  BY <1>6 DEF Offset
    <2>4. /\ Len(file) + Len(Trailer) = y + Offset /\ Len(Trailer) < kHeaderSize
          /\ Len(file) - block_offset_ < Len(file)
      BY <1>1, <1>2, <1>3, <1>4, <1>6, <2>1, <2>3
    <2> QED  BY <1>4, <2>1, <2>2, <2>3, <2>4
  <1>7. CASE ~(kBlockSize - block_offset_ < kHeaderSize)
    <2>1. Len(Trailer) = 0 /\ Offset = block_offset_  BY <1>3, <1>7 DEF Offset
    <2>2. Len(file) + Len(Trailer) = x + Offset  BY <1>1, <1>2, <1>4, <2>1
    <2> QED  BY <1>5, <2>1, <2>2
  <1> QED  BY <1>6, <1>7

\* The records after one iteration of AddRecord.
LEMMA EmittedRecords ==
    ASSUME TypeOK, AddInv, EmitPhysicalRecord
    PROVE  /\ Len(records') = Len(records) /\ Len(records) \in 1 .. Len(records)
           /\ \A r \in 1 .. Len(records) : r # Len(records) => records'[r] = records[r]
           /\ records'[Len(records)].start =
                 IF begin THEN Len(file) + Len(Trailer) ELSE records[Len(records)].start
           /\ records'[Len(records)].end = Len(file')
           /\ records'[Len(records)].acked = IsEnd
  <1>0. PICK R : R = Len(records)  OBVIOUS
  <1>1. /\ phase = "add"
        /\ records' = [records EXCEPT
              ![R].start = IF begin THEN Len(file) + Len(Trailer) ELSE @,
              ![R].end = Len(file'), ![R].acked = IsEnd]
    BY <1>0 DEF EmitPhysicalRecord
  <1>2. R \in 1 .. R /\ records \in Seq(Entry)
    <2>1. R > 0 /\ R \in Nat  BY <1>0, <1>1, Numbers DEF AddInv
    <2> QED  BY <2>1 DEF TypeOK
  <1> DEFINE e == [records[R] EXCEPT !.start = IF begin THEN Len(file) + Len(Trailer) ELSE @,
                                     !.end = Len(file'), !.acked = IsEnd]
  <1>3. records' = [records EXCEPT ![R] = e]  BY <1>1
  <1>4. records[R] \in Entry  BY <1>0, <1>2, ElementOfSeq
  <1>5. /\ e.start = IF begin THEN Len(file) + Len(Trailer) ELSE records[R].start
        /\ e.end = Len(file') /\ e.acked = IsEnd
    BY <1>4 DEF Entry
  <1> HIDE DEF e
  <1>6. DOMAIN records = 1 .. R /\ records = [r \in 1 .. R |-> records[r]]  BY <1>0, <1>2
  <1>7. /\ DOMAIN records' = 1 .. R /\ records'[R] = e
        /\ \A r \in 1 .. R : r # R => records'[r] = records[r]
    BY <1>2, <1>3, <1>6
  <1>8. Len(records') = R
    <2>1. records' = [r \in 1 .. R |-> records'[r]]  BY <1>3, <1>6
    <2>2. R \in Nat  BY <1>0, Numbers
    <2> QED  BY <2>1, <2>2
  <1> QED  BY <1>0, <1>2, <1>5, <1>7, <1>8

\* The cells after n cells of the next physical record were appended.
LEMMA WrittenAppend ==
    ASSUME TypeOK, EmittedInv, AddInv, WrittenInv, phase = "add",
           NEW n \in 0 .. kHeaderSize + Len(Fragment), file' = FileAfter(n),
           emitted' = IF n = 0 THEN emitted ELSE emitted \cup {Emitted(n)}, damage' = damage
    PROVE  WrittenInv'
  <1>1. damage = 0  BY DEF WrittenInv
  <1>2. n \in Nat /\ Len(file) \in Nat /\ Len(Trailer) \in Nat
    <2>1. Len(Fragment) \in Nat /\ kHeaderSize \in Nat  BY FragmentProps, LogAssumption
    <2>2. Len(file) \in Nat /\ Len(Trailer) \in Nat  BY Numbers, TrailerProps
    <2> QED  BY <2>1, <2>2
  <1>3. PICK P : P = Emitted(n)  OBVIOUS
  <1>4. P.start = Len(file) + Len(Trailer) /\ P.len = n  BY <1>2, <1>3, EmittedProps
  <1>5. /\ \A p \in 1 .. Len(file) : file'[p] = file[p]
        /\ \A p \in Len(file) + Len(Trailer) + 1 .. Len(file) + Len(Trailer) + n :
              file'[p] = CellOf(P, p - (Len(file) + Len(Trailer)))
    BY <1>3, FileAfterProps
  <1>6. ASSUME NEW Q \in emitted', NEW k \in 1 .. Q.len
        PROVE  file'[Q.start + k] = CellOf(Q, k)
    <2>1. CASE Q \in emitted
      <3>1. Q.start \in Nat /\ Q.len \in Nat /\ EndOf(Q) <= Len(file)  BY <2>1, EmittedNat
      <3>2. Q.start + k \in 1 .. Len(file) /\ Q.start + k # 0  BY <1>2, <3>1 DEF EndOf
      <3>3. file[Q.start + k] = CellOf(Q, k)  BY <1>1, <2>1, <3>2 DEF WrittenInv
      <3> QED  BY <1>5, <3>2, <3>3
    <2>2. CASE Q = P
      <3>1. PICK p : p = Q.start + k  OBVIOUS
      <3>2. /\ p \in Len(file) + Len(Trailer) + 1 .. Len(file) + Len(Trailer) + n
            /\ p - (Len(file) + Len(Trailer)) = k
        BY <1>2, <1>4, <2>2, <3>1
      <3>3. file'[p] = CellOf(P, k)  BY <1>5, <3>2
      <3> QED  BY <2>2, <3>1, <3>3
    <2> QED  BY <1>3, <2>1, <2>2
  <1> QED  BY <1>1, <1>6 DEF WrittenInv

LEMMA EmitPhysicalRecordComplete ==
    ASSUME Inv, CompleteInv, EmitPhysicalRecord
    PROVE  CompleteInv'
  <1>1. TypeOK /\ EmittedInv /\ OrderInv /\ AddInv /\ LayoutInv /\ WrittenInv /\ UnreadInv
    BY DEF Inv, WriterInv, CompleteInv
  <1> DEFINE f == PhysicalRecord(Type, Fragment)
  <1>2. /\ phase = "add" /\ phase' = IF IsEnd THEN "open" ELSE "add"
        /\ file' = file \o Trailer \o f /\ emitted' = emitted \cup {Emitted(Len(f))}
        /\ block_offset_' = Offset + Len(f) /\ begin' = FALSE
        /\ damage' = damage /\ seam' = seam /\ initial_offset_' = initial_offset_
        /\ UNCHANGED readerVars
    BY DEF EmitPhysicalRecord
  <1>3. PICK F : F = Len(Fragment)  OBVIOUS
  <1>4. /\ Fragment \in Seq(DataCell) /\ F \in Nat /\ F <= kBlockSize - Offset - kHeaderSize
        /\ Type \in 1 .. 4 /\ (Type \in {kFirstType, kFullType} <=> begin)
        /\ (Type \in {kLastType, kFullType} <=> IsEnd)
    BY <1>1, <1>2, <1>3, FragmentProps, TypeProps
  <1>5. /\ kHeaderSize \in Nat /\ kHeaderSize >= 3 /\ kBlockSize \in Nat
        /\ Len(Trailer) \in Nat /\ Offset \in Nat /\ Len(file) \in Nat
    BY <1>1, Numbers, TrailerProps
  <1>6. f \in Seq(Cell) /\ Len(f) = kHeaderSize + F  BY <1>3, <1>4, PhysicalCells
  <1>7. PICK n : n = kHeaderSize + F  OBVIOUS
  <1>8. n \in 0 .. kHeaderSize + Len(Fragment) /\ n \in Nat /\ n > 0  BY <1>3, <1>4, <1>5, <1>7
  <1>9. file' = FileAfter(n)
    <2>1. SubSeq(f, 1, Len(f)) = f  BY <1>6, SubSeqFull
    <2> QED  BY <1>2, <1>6, <1>7, <2>1 DEF FileAfter
  <1>10. emitted' = emitted \cup {Emitted(n)} /\ block_offset_' = Offset + n
    BY <1>2, <1>6, <1>7
  <1> HIDE DEF f
  <1>11. Len(file') = Len(file) + Len(Trailer) + n  BY <1>1, <1>2, <1>8, <1>9, FileAfterProps
  <1>12. PICK P : P = Emitted(n)  OBVIOUS
  <1>13. PICK R : R = Len(records)  OBVIOUS
  <1>14. /\ P \in emitted' /\ P.start = Len(file) + Len(Trailer) /\ P.type = Type
         /\ P.rec = R /\ P.len = n /\ P.n = F /\ Whole(P) /\ EndOf(P) = Len(file')
    <2>1. /\ P.start = Len(file) + Len(Trailer) /\ P.type = Type
          /\ P.rec = R /\ P.len = n /\ P.n = F
      BY <1>1, <1>2, <1>3, <1>8, <1>12, <1>13, EmittedProps
    <2> QED  BY <1>7, <1>10, <1>11, <1>12, <2>1 DEF Whole, EndOf
  <1>15. \A Q \in emitted' : Q \in emitted \/ Q = P  BY <1>10, <1>12
  <1>16. emitted \subseteq emitted'  BY <1>10
  <1>17. /\ Starts(P) <=> begin
         /\ Ends(P) <=> IsEnd
         /\ Continues(P) <=> ~begin
         /\ Goes(P) <=> ~IsEnd
    <2>1. Starts(P) <=> begin  BY <1>4, <1>14 DEF Starts
    <2>2. Ends(P) <=> IsEnd  BY <1>4, <1>14 DEF Ends
    <2>3. Continues(P) <=> ~Starts(P)
      BY <1>4, <1>14 DEF Continues, Starts, kFirstType, kFullType, kMiddleType, kLastType
    <2>4. Goes(P) <=> ~Ends(P)
      BY <1>4, <1>14 DEF Goes, Ends, kFirstType, kFullType, kMiddleType, kLastType
    <2> QED  BY <2>1, <2>2, <2>3, <2>4
  <1>18. LayoutInv'
    <2> SUFFICES ASSUME seam # "torn" PROVE BlocksInv' /\ TilingInv' /\ AckedInv' /\ UnbrokenInv'
      BY <1>2 DEF LayoutInv
    <2>1. BlocksInv /\ TilingInv /\ AckedInv /\ UnbrokenInv  BY <1>1 DEF LayoutInv
    <2>2. Aligned(Len(file) - block_offset_)  BY <1>2, <2>1 DEF TilingInv
    <2>3. PICK y \in Int :
             /\ Aligned(y) /\ Len(file) + Len(Trailer) = y + Offset
             /\ Len(Trailer) > 0 => /\ Offset = 0 /\ Len(Trailer) < kHeaderSize
                                    /\ Aligned(Len(file) - block_offset_)
                                    /\ Len(file) - block_offset_ + kBlockSize = y
                                    /\ Len(file) - block_offset_ < Len(file)
      BY <1>1, <1>2, <2>2, BlockStep
    <2>4. In(P.start, y) /\ P.start + kHeaderSize + P.n <= y + kBlockSize
      BY <1>4, <1>5, <1>14, <2>3 DEF In
    <2>5. BlocksInv'
      <3>1. ASSUME NEW Q \in emitted'
            PROVE  \E z \in Int : In(Q.start, z) /\ Q.start + kHeaderSize + Q.n <= z + kBlockSize
        <4>1. CASE Q \in emitted  BY <2>1, <4>1 DEF BlocksInv
        <4>2. CASE Q = P  BY <2>4, <4>2
        <4> QED  BY <1>15, <4>1, <4>2
      <3>2. ASSUME NEW z \in Nat, Aligned(z), z < Len(file')
            PROVE  \E Q \in emitted' : Q.start = z
        <4>1. CASE z < Len(file)  BY <1>16, <2>1, <3>2, <4>1 DEF BlocksInv
        <4>2. CASE z = P.start  BY <1>14, <4>2
        <4>3. CASE Len(file) <= z /\ z < P.start
          <5>1. PICK x : x = Len(file) - block_offset_  OBVIOUS
          <5>2. Len(Trailer) > 0  BY <1>5, <1>14, <4>3
          <5>3. x + kBlockSize = y /\ x < Len(file) /\ Aligned(x) /\ Offset = 0  BY <2>3, <5>1, <5>2
          <5>4. x \in Int
            <6>1. block_offset_ \in Int  BY <1>1, <1>5 DEF TypeOK
            <6> QED  BY <1>5, <5>1, <6>1
          <5>5. x < z /\ z < x + kBlockSize  BY <1>5, <1>14, <2>3, <4>3, <5>3, <5>4
          <5> QED  BY <3>2, <5>3, <5>4, <5>5, NoneBetween
        <4>4. CASE P.start < z
          <5>1. y < z /\ z < y + kBlockSize
            BY <1>4, <1>5, <1>7, <1>11, <1>14, <2>3, <3>2, <4>4
          <5> QED  BY <2>3, <3>2, <5>1, NoneBetween
        <4> QED  BY <1>5, <1>14, <4>1, <4>2, <4>3, <4>4
      <3> QED  BY <3>1, <3>2 DEF BlocksInv
    <2>6. TilingInv'
      <3>1. Len(file') - block_offset_' = y  BY <1>5, <1>8, <1>10, <1>11, <2>3
      <3>2. ASSUME NEW Q \in emitted' PROVE Whole(Q)
        BY <1>2, <1>14, <1>15, <2>1 DEF TilingInv
      <3>3. ASSUME NEW Q \in emitted'
            PROVE  \/ EndOf(Q) = Len(file')
                   \/ \E D \in emitted' : D.start = EndOf(Q)
                   \/ \E z \in Int : Aligned(z) /\ EndOf(Q) < z /\ z < EndOf(Q) + kHeaderSize
        <4>1. CASE Q = P  BY <1>14, <4>1
        <4>2. CASE Q \in emitted
          <5>1. \/ EndOf(Q) = Len(file)
                \/ \E D \in emitted : D.start = EndOf(Q)
                \/ \E z \in Int : Aligned(z) /\ EndOf(Q) < z /\ z < EndOf(Q) + kHeaderSize
            BY <3>2, <4>2, <2>1 DEF TilingInv
          <5>2. CASE EndOf(Q) = Len(file)
            <6>1. CASE Len(Trailer) = 0
              <7>1. P.start = EndOf(Q)  BY <1>5, <1>14, <5>2, <6>1
              <7> QED  BY <1>14, <7>1
            <6>2. CASE Len(Trailer) > 0
              <7>1. EndOf(Q) < y /\ y < EndOf(Q) + kHeaderSize  BY <1>5, <2>3, <5>2, <6>2
              <7> QED  BY <2>3, <7>1
            <6> QED  BY <1>5, <6>1, <6>2
          <5> QED  BY <1>16, <5>1, <5>2
        <4> QED  BY <1>15, <4>1, <4>2
      <3> QED  BY <2>3, <3>1, <3>2, <3>3 DEF TilingInv
    <2>7. AckedInv'
      <3>1. /\ Len(records') = R /\ R \in 1 .. R
            /\ \A r \in 1 .. R : r # R => records'[r] = records[r]
            /\ records'[R].start = IF begin THEN Len(file) + Len(Trailer) ELSE records[R].start
            /\ records'[R].end = Len(file') /\ records'[R].acked = IsEnd
        BY <1>1, <1>13, EmittedRecords
      <3>2. ASSUME NEW Q \in emitted'
            PROVE  /\ 0 <= records'[Q.rec].start /\ records'[Q.rec].start <= Q.start
                   /\ Starts(Q) => records'[Q.rec].start = Q.start
                   /\ Ends(Q) /\ Whole(Q) => records'[Q.rec].acked
        <4>1. CASE Q \in emitted
          <5>1. /\ 0 <= records[Q.rec].start /\ records[Q.rec].start <= Q.start
                /\ Starts(Q) => records[Q.rec].start = Q.start
                /\ Ends(Q) /\ Whole(Q) => records[Q.rec].acked
            BY <2>1, <4>1 DEF AckedInv
          <5>2. CASE Q.rec # R
            <6>1. Q.rec \in 1 .. R  BY <1>1, <1>13, <4>1, EmittedNat
            <6> QED  BY <3>1, <5>1, <5>2, <6>1
          <5>3. CASE Q.rec = R
            <6>1. ~begin /\ ~Ends(Q)  BY <1>1, <1>2, <1>13, <4>1, <5>3 DEF AddInv, Ends
            <6> QED  BY <3>1, <5>1, <5>3, <6>1
          <5> QED  BY <5>2, <5>3
        <4>2. CASE Q = P
          <5>1. CASE begin
            <6>1. records'[R].start = P.start  BY <1>14, <3>1, <5>1
            <6>2. 0 <= P.start /\ P.start <= P.start  BY <1>5, <1>14
            <6> QED  BY <1>14, <1>17, <3>1, <4>2, <6>1, <6>2
          <5>2. CASE ~begin
            <6>1. PICK A \in emitted : A.rec = R /\ A.start + A.len = Len(file)
              BY <1>1, <1>2, <1>13, <5>2 DEF AddInv
            <6>2. 0 <= records[R].start /\ records[R].start <= A.start
              BY <2>1, <6>1 DEF AckedInv
            <6>3. A.start \in Nat /\ A.len \in Nat  BY <1>1, <6>1, EmittedNat
            <6>4. records[R].start \in Int
              <7>1. records[R] \in Entry  BY <1>1, <1>13, <3>1, ElementOfSeq DEF TypeOK
              <7> QED  BY <7>1 DEF Entry
            <6>5. records[R].start <= P.start  BY <1>5, <1>14, <6>1, <6>2, <6>3, <6>4
            <6> QED  BY <1>14, <1>17, <3>1, <4>2, <5>2, <6>2, <6>5
          <5> QED  BY <5>1, <5>2
        <4> QED  BY <1>15, <4>1, <4>2
      <3>3. ASSUME NEW r \in 1 .. R
            PROVE  \/ records'[r].end = -1 /\ ~records'[r].acked
                   \/ \E Q \in emitted' : /\ Q.rec = r /\ Whole(Q) /\ records'[r].end = EndOf(Q)
                                          /\ records'[r].acked => Ends(Q)
        <4>1. CASE r # R
          <5>1. records'[r] = records[r]  BY <3>1, <4>1
          <5>2. \/ records[r].end = -1 /\ ~records[r].acked
                \/ \E Q \in emitted : /\ Q.rec = r /\ Whole(Q) /\ records[r].end = EndOf(Q)
                                      /\ records[r].acked => Ends(Q)
            BY <1>13, <2>1 DEF AckedInv
          <5> QED  BY <1>16, <5>1, <5>2
        <4>2. CASE r = R  BY <1>14, <1>17, <3>1, <4>2
        <4> QED  BY <4>1, <4>2
      <3> QED  BY <3>1, <3>2, <3>3 DEF AckedInv
    <2>8. UnbrokenInv'
      <3> SUFFICES ASSUME seam = "none", NEW Q \in emitted', Goes(Q), Whole(Q)
                   PROVE  \/ \E D \in emitted' : D.start = EndOf(Q) /\ Continues(D)
                          \/ EndOf(Q) = Len(file') /\ phase' = "add" /\ ~begin'
        BY <1>2 DEF UnbrokenInv
      <3>1. CASE Q = P  BY <1>2, <1>14, <1>17, <3>1
      <3>2. CASE Q \in emitted
        <4>1. \/ \E D \in emitted : D.start = EndOf(Q) /\ Continues(D)
              \/ EndOf(Q) = Len(file) /\ ~begin
          BY <1>2, <2>1, <3>2 DEF UnbrokenInv
        <4>2. CASE EndOf(Q) = Len(file) /\ ~begin
          <5>1. block_offset_ = kBlockSize  BY <1>1, <1>2, <4>2 DEF AddInv
          <5>2. Len(Trailer) = IF kBlockSize - block_offset_ < kHeaderSize
                               THEN kBlockSize - block_offset_ ELSE 0
            BY <1>1, TrailerProps
          <5>3. Len(Trailer) = 0  BY <1>5, <5>1, <5>2
          <5>4. P.start = EndOf(Q) /\ Continues(P)  BY <1>5, <1>14, <1>17, <4>2, <5>3
          <5> QED  BY <1>14, <5>4
        <4> QED  BY <1>16, <4>1, <4>2
      <3> QED  BY <1>15, <3>1, <3>2
    <2> QED  BY <2>5, <2>6, <2>7, <2>8
  <1>19. WrittenInv'
    <2>1. damage = 0  BY <1>1, <1>2 DEF WrittenInv
    <2>2. emitted' = IF n = 0 THEN emitted ELSE emitted \cup {Emitted(n)}  BY <1>8, <1>10
    <2> QED  BY <1>1, <1>2, <1>8, <1>9, <2>2, WrittenAppend
  <1>20. /\ RestInv' /\ UnreadInv' /\ StandInv' /\ CollectedInv' /\ ReturnedInv' /\ SilentInv'
    <2>1. phase' \in {"open", "add", "crashed"}  BY <1>2
    <2> QED  BY <1>1, <1>2, <2>1, Unread
  <1> QED  BY <1>18, <1>19, <1>20 DEF CompleteInv

LEMMA EmitFailsComplete ==
    ASSUME Inv, CompleteInv, EmitFails
    PROVE  CompleteInv'
  <1>1. TypeOK /\ EmittedInv /\ AddInv /\ WrittenInv /\ UnreadInv
    BY DEF Inv, WriterInv, CompleteInv
  <1> DEFINE f == PhysicalRecord(Type, Fragment)
  <1>2. PICK n \in 0 .. Len(f) - 1 :
           /\ file' = file \o Trailer \o SubSeq(f, 1, n)
           /\ emitted' = IF n = 0 THEN emitted ELSE emitted \cup {Emitted(n)}
    BY DEF EmitFails
  <1>3. /\ phase = "add" /\ phase' = "open" /\ seam' = "torn" /\ damage' = damage
        /\ initial_offset_' = initial_offset_ /\ UNCHANGED readerVars
    BY DEF EmitFails
  <1>4. Len(f) = kHeaderSize + Len(Fragment) /\ Len(Fragment) \in Nat /\ kHeaderSize \in Nat
    <2>1. Fragment \in Seq(DataCell) /\ Len(Fragment) \in Nat /\ Type \in 1 .. 4
      BY <1>1, <1>3, FragmentProps, TypeProps
    <2> QED  BY <2>1, PhysicalCells, LogAssumption
  <1>5. n \in 0 .. kHeaderSize + Len(Fragment)  BY <1>4
  <1>6. file' = FileAfter(n)  BY <1>2 DEF FileAfter
  <1> HIDE DEF f
  <1>7. WrittenInv'  BY <1>1, <1>2, <1>3, <1>5, <1>6, WrittenAppend
  <1>8. LayoutInv'  BY <1>3 DEF LayoutInv
  <1>9. /\ RestInv' /\ UnreadInv' /\ StandInv' /\ CollectedInv' /\ ReturnedInv' /\ SilentInv'
    BY <1>1, <1>3, Unread
  <1> QED  BY <1>7, <1>8, <1>9 DEF CompleteInv

LEMMA DamageComplete ==
    ASSUME Inv, CompleteInv, Damage
    PROVE  CompleteInv'
  <1>1. TypeOK /\ EmittedInv /\ LayoutInv /\ WrittenInv /\ UnreadInv
    BY DEF Inv, WriterInv, CompleteInv
  <1>2. PICK p \in DOMAIN file : file' = [file EXCEPT ![p] = Bad] /\ damage' = p
    BY DEF Damage
  <1>3. /\ phase \in {"open", "crashed"} /\ phase' = "crashed" /\ seam = "none" /\ seam' = seam
        /\ damage = 0 /\ records' = records /\ emitted' = emitted
        /\ initial_offset_' = initial_offset_ /\ UNCHANGED readerVars
    BY DEF Damage
  <1>4. file \in Seq(Cell) /\ p \in 1 .. Len(file) /\ Len(file) \in Nat /\ Bad \in Cell
    BY <1>1, <1>2, LenProperties DEF TypeOK, Cell
  <1>5. /\ Len(file') = Len(file)
        /\ \A q \in 1 .. Len(file) : file'[q] = IF q = p THEN Bad ELSE file[q]
    BY <1>2, <1>4, ExceptSeq
  <1>6. LayoutInv'  BY <1>1, <1>3, <1>5, Stopped
  <1>7. WrittenInv'
    <2>1. ASSUME NEW P \in emitted, NEW k \in 1 .. P.len
          PROVE  file'[P.start + k] = CellOf(P, k) \/ P.start + k = p
      <3>1. P.start \in Nat /\ P.len \in Nat /\ EndOf(P) <= Len(file)  BY <1>1, EmittedNat
      <3>2. P.start + k \in 1 .. Len(file) /\ P.start + k # 0  BY <1>4, <3>1 DEF EndOf
      <3>3. file[P.start + k] = CellOf(P, k)  BY <1>1, <1>3, <3>2 DEF WrittenInv
      <3> QED  BY <1>5, <3>2, <3>3
    <2>2. p <= Len(file')  BY <1>4, <1>5
    <2> QED  BY <1>2, <1>3, <2>1, <2>2 DEF WrittenInv
  <1>8. /\ RestInv' /\ UnreadInv' /\ StandInv' /\ CollectedInv' /\ ReturnedInv' /\ SilentInv'
    BY <1>1, <1>3, Unread
  <1> QED  BY <1>6, <1>7, <1>8 DEF CompleteInv

\* The beginning of the block of x.
LEMMA BlockBegin ==
    ASSUME NEW x \in Nat, NEW q, q = x % kBlockSize
    PROVE  q \in 0 .. kBlockSize - 1 /\ x - q \in Nat /\ Aligned(x - q)
  <1>1. kBlockSize \in Nat /\ kBlockSize > 0  BY LogAssumption
  <1>2. PICK d : d = x \div kBlockSize  OBVIOUS
  <1>3. q \in 0 .. kBlockSize - 1 /\ d \in Int /\ d >= 0 /\ x = kBlockSize * d + q  BY <1>1, <1>2
  <1>4. x - q = d * kBlockSize  BY <1>1, <1>3
  <1>5. d * kBlockSize >= 0 /\ d * kBlockSize \in Int  BY <1>1, <1>3
  <1>6. x - q \in Nat  BY <1>4, <1>5
  <1>7. Aligned(x - q)  BY <1>3, <1>4 DEF Aligned
  <1> QED  BY <1>3, <1>6, <1>7

LEMMA ReopenComplete ==
    ASSUME Inv, CompleteInv, Reopen
    PROVE  CompleteInv'
  <1>1. TypeOK /\ EmittedInv /\ OrderInv /\ LayoutInv /\ WrittenInv /\ UnreadInv
    BY DEF Inv, WriterInv, CompleteInv
  <1>2. /\ phase = "crashed" /\ phase' = "open" /\ seam = "none" /\ damage = 0
        /\ block_offset_' = Len(file) % kBlockSize
        /\ seam' = IF WholeRecords THEN "whole" ELSE "torn"
        /\ file' = file /\ records' = records /\ damage' = damage
        /\ emitted' = emitted /\ initial_offset_' = initial_offset_ /\ UNCHANGED readerVars
    BY DEF Reopen
  <1>3. LayoutInv'
    <2> SUFFICES ASSUME WholeRecords PROVE BlocksInv' /\ TilingInv' /\ AckedInv' /\ UnbrokenInv'
      BY <1>2 DEF LayoutInv
    <2>1. BlocksInv /\ TilingInv /\ AckedInv /\ UnbrokenInv  BY <1>1, <1>2 DEF LayoutInv
    <2>2. BlocksInv' /\ AckedInv'  BY <1>2, <2>1 DEF BlocksInv, AckedInv
    <2>3. UnbrokenInv'
      <3>1. seam' # "none"  BY <1>2
      <3> QED  BY <3>1 DEF UnbrokenInv
    <2>4. TilingInv'
      <3>1. Aligned(Len(file) - block_offset_')
        <4>1. Len(file) \in Nat  BY <1>1, Numbers
        <4> QED  BY <1>2, <4>1, BlockBegin
      <3>2. ASSUME NEW P \in emitted PROVE Whole(P)
        <4> SUFFICES ASSUME ~Whole(P) PROVE FALSE  OBVIOUS
        <4>1. EndOf(P) = Len(file)  BY <2>1 DEF TilingInv
        <4>2. 1 <= P.len /\ P.len \in Nat /\ P.start \in Nat  BY <1>1, EmittedNat
        <4>3. Len(file) # 0  BY <4>1, <4>2 DEF EndOf
        <4>4. file # <<>>  BY <4>3
        <4>5. PICK r \in DOMAIN records : records[r].end = Len(file)  BY <4>4 DEF WholeRecords
        <4>6. r \in 1 .. Len(records)  BY <1>1 DEF TypeOK
        <4>7. records[r].end # -1
          <5>1. Len(file) \in Nat  BY <1>1, Numbers
          <5> QED  BY <4>5, <5>1
        <4>8. PICK Q \in emitted : Whole(Q) /\ records[r].end = EndOf(Q)
          BY <2>1, <4>6, <4>7 DEF AckedInv
        <4>9. P = Q  BY <1>1, <4>1, <4>5, <4>8, SameEnd
        <4> QED  BY <4>8, <4>9
      <3> QED  BY <1>2, <2>1, <3>1, <3>2 DEF TilingInv
    <2> QED  BY <2>2, <2>3, <2>4
  <1>4. WrittenInv'  BY <1>1, <1>2 DEF WrittenInv
  <1>5. /\ RestInv' /\ UnreadInv' /\ StandInv' /\ CollectedInv' /\ ReturnedInv' /\ SilentInv'
    BY <1>1, <1>2, Unread
  <1> QED  BY <1>3, <1>4, <1>5 DEF CompleteInv

LEMMA CrashComplete ==
    ASSUME Inv, CompleteInv, Crash
    PROVE  CompleteInv'
  <1>1. TypeOK /\ EmittedInv /\ OrderInv /\ LayoutInv /\ WrittenInv /\ UnreadInv
    BY DEF Inv, WriterInv, CompleteInv
  <1>2. PICK n \in 0 .. Len(file) :
           /\ file' = SubSeq(file, 1, n)
           /\ records' = [r \in DOMAIN records |->
                 [records[r] EXCEPT !.acked = @ /\ records[r].end <= n,
                                    !.end = IF @ <= n THEN @ ELSE -1]]
           /\ emitted' = {Cut(e, n) : e \in {x \in emitted : x.start < n}}
    BY DEF Crash, Cut
  <1>3. /\ phase \in {"open", "add"} /\ phase' = "crashed" /\ damage = 0 /\ damage' = damage
        /\ seam' = seam /\ initial_offset_' = initial_offset_ /\ UNCHANGED readerVars
    BY DEF Crash
  <1>4. Len(file) \in Nat /\ n \in Nat /\ n <= Len(file) /\ file \in Seq(Cell)
    BY <1>1, Numbers DEF TypeOK
  <1>5. Len(file') = n /\ \A p \in 1 .. n : file'[p] = file[p]
    <2>1. \A p \in 1 .. n : file[p] \in Cell
      <3>1. \A p \in 1 .. Len(file) : file[p] \in Cell  BY <1>4, ElementOfSeq
      <3> QED  BY <1>4, <3>1
    <2> DEFINE s == SubSeq(file, 1, n)
    <2>2. /\ Len(s) = IF 1 <= n THEN n - 1 + 1 ELSE 0
          /\ \A p \in 1 .. n - 1 + 1 : s[p] = file[1 + p - 1]
      BY <1>4, <2>1, SubSeqProperties
    <2>3. file' = s  BY <1>2
    <2> HIDE DEF s
    <2>4. Len(s) = n
      <3>1. Len(s) = IF 1 <= n THEN n - 1 + 1 ELSE 0  BY <2>2
      <3> QED  BY <1>4, <3>1
    <2>5. \A p \in 1 .. n : s[p] = file[p]
      <3> TAKE p \in 1 .. n
      <3>1. p \in 1 .. n - 1 + 1 /\ 1 + p - 1 = p  BY <1>4
      <3> QED  BY <2>2, <3>1
    <2> QED  BY <2>3, <2>4, <2>5
  <1>6. PICK R : R = Len(records)  OBVIOUS
  <1>7. /\ Len(records') = R
        /\ \A r \in 1 .. R :
              /\ records'[r].start = records[r].start
              /\ records'[r].acked = (records[r].acked /\ records[r].end <= n)
              /\ records'[r].end = IF records[r].end <= n THEN records[r].end ELSE -1
    <2>1. DOMAIN records = 1 .. R /\ R \in Nat /\ records \in Seq(Entry)
      BY <1>1, <1>6, Numbers DEF TypeOK
    <2>2. Len(records') = R
      <3>1. records' = [r \in 1 .. R |-> records'[r]]  BY <1>2, <2>1
      <3> QED  BY <2>1, <3>1
    <2> SUFFICES ASSUME NEW r \in 1 .. R
                 PROVE  /\ records'[r].start = records[r].start
                        /\ records'[r].acked = (records[r].acked /\ records[r].end <= n)
                        /\ records'[r].end = IF records[r].end <= n THEN records[r].end ELSE -1
      BY <2>2
    <2>3. records[r] \in Entry  BY <1>6, <2>1, ElementOfSeq
    <2> DEFINE a == records[r].acked /\ records[r].end <= n
               d == IF records[r].end <= n THEN records[r].end ELSE -1
    <2>4. records'[r] = [records[r] EXCEPT !.acked = a, !.end = d]  BY <1>2, <2>1
    <2> HIDE DEF a, d
    <2>5. records'[r].start = records[r].start /\ records'[r].acked = a /\ records'[r].end = d
      BY <2>3, <2>4 DEF Entry
    <2> QED  BY <2>5 DEF a, d
  \* Every physical record left is the cut of one that was there.
  <1>8. ASSUME NEW Q \in emitted'
        PROVE  \E P \in emitted :
                  /\ P.start < n /\ Q.start = P.start /\ Q.type = P.type /\ Q.rec = P.rec
                  /\ Q.n = P.n /\ Q.len \in Nat /\ Q.len <= P.len /\ EndOf(Q) <= n
                  /\ EndOf(P) <= n => Q = P
                  /\ EndOf(P) > n => EndOf(Q) = n
                  /\ Whole(Q) => EndOf(P) <= n /\ Q = P
                  /\ \A k : CellOf(Q, k) = CellOf(P, k)
    <2>1. PICK P \in emitted : P.start < n /\ Q = Cut(P, n)  BY <1>2
    <2>2. /\ P \in Physical /\ 1 <= P.len /\ P.start \in Nat /\ P.len \in Nat /\ P.n \in Nat
          /\ P.len <= kHeaderSize + P.n /\ kHeaderSize \in Nat
      BY <1>1, EmittedNat, LogAssumption
    <2>3. /\ Q \in Physical /\ Q.start = P.start /\ Q.type = P.type /\ Q.rec = P.rec
          /\ Q.n = P.n /\ Q.len <= P.len /\ P.start + Q.len <= n
          /\ P.start + P.len <= n => Q = P
          /\ P.start + P.len > n => Q.len = n - P.start
          /\ \A k : CellOf(Q, k) = CellOf(P, k)
      BY <1>4, <2>1, <2>2, CutProps
    <2>4. Q.len \in Nat  BY <2>3 DEF Physical
    <2>5. EndOf(Q) <= n /\ (EndOf(P) > n => EndOf(Q) = n) /\ (EndOf(P) <= n => Q = P)
      BY <1>4, <2>2, <2>3, <2>4 DEF EndOf
    <2>6. Whole(Q) => EndOf(P) <= n
      <3> HAVE Whole(Q)
      <3>1. Q.len = P.len  BY <2>2, <2>3, <2>4 DEF Whole
      <3> QED  BY <2>3, <3>1 DEF EndOf
    <2> QED  BY <2>1, <2>3, <2>4, <2>5, <2>6
  <1>9. ASSUME NEW P \in emitted, P.start < n
        PROVE  \E Q \in emitted' : Q.start = P.start /\ Q.type = P.type
    <2>1. P \in Physical /\ 1 <= P.len  BY <1>1, EmittedNat
    <2>2. Cut(P, n) \in emitted'  BY <1>2, <1>9
    <2>3. Cut(P, n).start = P.start /\ Cut(P, n).type = P.type  BY <1>4, <1>9, <2>1, CutProps
    <2> QED  BY <2>2, <2>3
  <1>10. ASSUME NEW P \in emitted, EndOf(P) <= n
         PROVE  P \in emitted'
    <2>1. P \in Physical /\ 1 <= P.len /\ P.start \in Nat /\ P.len \in Nat  BY <1>1, EmittedNat
    <2>2. P.start < n /\ P.start + P.len <= n  BY <1>4, <1>10, <2>1 DEF EndOf
    <2>3. Cut(P, n) = P  BY <1>4, <2>1, <2>2, CutProps
    <2>4. Cut(P, n) \in emitted'  BY <1>2, <2>2
    <2> QED  BY <2>3, <2>4
  <1>11. LayoutInv'
    <2> SUFFICES ASSUME seam # "torn" PROVE BlocksInv' /\ TilingInv' /\ AckedInv' /\ UnbrokenInv'
      BY <1>3 DEF LayoutInv
    <2>1. BlocksInv /\ TilingInv /\ AckedInv /\ UnbrokenInv  BY <1>1 DEF LayoutInv
    <2>2. BlocksInv'
      <3>1. ASSUME NEW Q \in emitted'
            PROVE  \E z \in Int : In(Q.start, z) /\ Q.start + kHeaderSize + Q.n <= z + kBlockSize
        <4>1. PICK P \in emitted : Q.start = P.start /\ Q.n = P.n  BY <1>8
        <4> QED  BY <2>1, <4>1 DEF BlocksInv
      <3>2. ASSUME NEW z \in Nat, Aligned(z), z < n
            PROVE  \E Q \in emitted' : Q.start = z
        <4>1. z < Len(file)  BY <1>4, <3>2
        <4>2. PICK P \in emitted : P.start = z  BY <2>1, <3>2, <4>1 DEF BlocksInv
        <4> QED  BY <1>9, <3>2, <4>2
      <3> QED  BY <1>5, <3>1, <3>2 DEF BlocksInv
    <2>3. TilingInv'
      <3>1. ASSUME NEW Q \in emitted' PROVE Whole(Q) \/ EndOf(Q) = n
        <4>1. PICK P \in emitted : /\ EndOf(P) <= n => Q = P
                                   /\ EndOf(P) > n => EndOf(Q) = n
          BY <1>8
        <4>2. Whole(P)  BY <1>3, <2>1 DEF TilingInv
        <4>3. EndOf(P) \in Nat  BY <1>1, EmittedNat
        <4> QED  BY <1>4, <4>1, <4>2, <4>3
      <3>2. ASSUME NEW Q \in emitted', Whole(Q)
            PROVE  \/ EndOf(Q) = n
                   \/ \E D \in emitted' : D.start = EndOf(Q)
                   \/ \E z \in Int : Aligned(z) /\ EndOf(Q) < z /\ z < EndOf(Q) + kHeaderSize
        <4>1. Q \in emitted /\ EndOf(Q) <= n
          <5>1. PICK P \in emitted : Whole(Q) => EndOf(P) <= n /\ Q = P  BY <1>8
          <5> QED  BY <3>2, <5>1
        <4>2. \/ EndOf(Q) = Len(file)
              \/ \E D \in emitted : D.start = EndOf(Q)
              \/ \E z \in Int : Aligned(z) /\ EndOf(Q) < z /\ z < EndOf(Q) + kHeaderSize
          BY <2>1, <3>2, <4>1 DEF TilingInv
        <4>3. EndOf(Q) \in Nat  BY <1>1, <4>1, EmittedNat
        <4>4. CASE EndOf(Q) = n  BY <4>4
        <4>5. CASE EndOf(Q) < n
          <5>1. EndOf(Q) # Len(file)  BY <1>4, <4>5
          <5> QED  BY <1>9, <4>2, <4>5, <5>1
        <4> QED  BY <1>4, <4>1, <4>3, <4>4, <4>5
      <3> QED  BY <1>3, <1>5, <3>1, <3>2 DEF TilingInv
    <2>4. AckedInv'
      <3>1. ASSUME NEW Q \in emitted'
            PROVE  /\ 0 <= records'[Q.rec].start /\ records'[Q.rec].start <= Q.start
                   /\ Starts(Q) => records'[Q.rec].start = Q.start
                   /\ Ends(Q) /\ Whole(Q) => records'[Q.rec].acked
        <4>1. PICK P \in emitted :
                 /\ Q.start = P.start /\ Q.type = P.type /\ Q.rec = P.rec
                 /\ Whole(Q) => EndOf(P) <= n /\ Q = P
          BY <1>8
        <4>2. /\ 0 <= records[P.rec].start /\ records[P.rec].start <= P.start
              /\ Starts(P) => records[P.rec].start = P.start
              /\ Ends(P) /\ Whole(P) => records[P.rec].acked
          BY <2>1 DEF AckedInv
        <4>3. P.rec \in 1 .. R  BY <1>1, <1>6, EmittedNat
        <4>4. records'[P.rec].start = records[P.rec].start
              /\ records'[P.rec].acked = (records[P.rec].acked /\ records[P.rec].end <= n)
          BY <1>7, <4>3
        <4>5. Ends(Q) /\ Whole(Q) => records'[Q.rec].acked
          <5> HAVE Ends(Q) /\ Whole(Q)
          <5>1. Q = P /\ EndOf(P) <= n /\ records[P.rec].acked  BY <4>1, <4>2
          <5>2. PICK E \in emitted : E.rec = P.rec /\ Ends(E) /\ records[P.rec].end = EndOf(E)
            BY <1>1, <1>6, <2>1, <4>3, <5>1, AckedEnd
          <5>3. E = P  BY <1>1, <5>1, <5>2, OneEnd
          <5> QED  BY <4>4, <5>1, <5>2, <5>3
        <4> QED  BY <4>1, <4>2, <4>4, <4>5 DEF Starts
      <3>2. ASSUME NEW r \in 1 .. R
            PROVE  \/ records'[r].end = -1 /\ ~records'[r].acked
                   \/ \E Q \in emitted' : /\ Q.rec = r /\ Whole(Q) /\ records'[r].end = EndOf(Q)
                                          /\ records'[r].acked => Ends(Q)
        <4>1. /\ records'[r].acked = (records[r].acked /\ records[r].end <= n)
              /\ records'[r].end = IF records[r].end <= n THEN records[r].end ELSE -1
          BY <1>7
        <4>2. \/ records[r].end = -1 /\ ~records[r].acked
              \/ \E Q \in emitted : /\ Q.rec = r /\ Whole(Q) /\ records[r].end = EndOf(Q)
                                    /\ records[r].acked => Ends(Q)
          BY <1>6, <2>1 DEF AckedInv
        <4>3. CASE records[r].end <= n
          BY <1>10, <4>1, <4>2, <4>3
        <4>4. CASE ~(records[r].end <= n)
          BY <4>1, <4>4
        <4> QED  BY <4>3, <4>4
      <3> QED  BY <1>7, <3>1, <3>2 DEF AckedInv
    <2>5. UnbrokenInv'
      <3> SUFFICES ASSUME seam = "none", NEW Q \in emitted', Goes(Q), Whole(Q)
                   PROVE  \/ \E D \in emitted' : D.start = EndOf(Q) /\ Continues(D)
                          \/ EndOf(Q) = n
        BY <1>3, <1>5 DEF UnbrokenInv
      <3>1. Q \in emitted /\ EndOf(Q) <= n
        <4>1. PICK P \in emitted : Whole(Q) => EndOf(P) <= n /\ Q = P  BY <1>8
        <4> QED  BY <4>1
      <3>2. \/ \E D \in emitted : D.start = EndOf(Q) /\ Continues(D)
            \/ EndOf(Q) = Len(file)
        BY <2>1, <3>1 DEF UnbrokenInv
      <3>3. EndOf(Q) \in Nat  BY <1>1, <3>1, EmittedNat
      <3>4. CASE EndOf(Q) < n
        <4>1. EndOf(Q) # Len(file)  BY <1>4, <3>4
        <4>2. PICK D \in emitted : D.start = EndOf(Q) /\ Continues(D)  BY <3>2, <4>1
        <4>3. PICK E \in emitted' : E.start = D.start /\ E.type = D.type  BY <1>9, <3>4, <4>2
        <4> QED  BY <4>2, <4>3 DEF Continues
      <3> QED  BY <1>4, <3>1, <3>3, <3>4
    <2> QED  BY <2>2, <2>3, <2>4, <2>5
  <1>12. WrittenInv'
    <2>1. ASSUME NEW Q \in emitted', NEW k \in 1 .. Q.len
          PROVE  file'[Q.start + k] = CellOf(Q, k)
      <3>1. PICK P \in emitted :
               /\ Q.start = P.start /\ Q.len \in Nat /\ Q.len <= P.len /\ EndOf(Q) <= n
               /\ \A j : CellOf(Q, j) = CellOf(P, j)
        BY <1>8
      <3>2. P.start \in Nat /\ P.len \in Nat  BY <1>1, EmittedNat
      <3>3. k \in 1 .. P.len /\ P.start + k \in 1 .. n /\ P.start + k # 0
        BY <1>4, <3>1, <3>2 DEF EndOf
      <3>4. file[P.start + k] = CellOf(P, k)  BY <1>1, <1>3, <3>3 DEF WrittenInv
      <3> QED  BY <1>5, <3>1, <3>3, <3>4
    <2> QED  BY <1>3, <2>1 DEF WrittenInv
  <1>13. /\ RestInv' /\ UnreadInv' /\ StandInv' /\ CollectedInv' /\ ReturnedInv' /\ SilentInv'
    BY <1>1, <1>3, Unread
  <1> QED  BY <1>11, <1>12, <1>13 DEF CompleteInv

-----------------------------------------------------------------------------
(* The second invariant: the steps of the reader.                           *)

LEMMA ReaderStill ==
    ASSUME LayoutInv, WrittenInv, UNCHANGED writerVars, phase' \in {"read", "done"}
    PROVE  LayoutInv' /\ WrittenInv'
  <1>1. /\ file' = file /\ records' = records /\ damage' = damage /\ seam' = seam
        /\ emitted' = emitted
    BY DEF writerVars
  <1>2. LayoutInv'  BY <1>1, Stopped
  <1>3. WrittenInv'  BY <1>1 DEF WrittenInv
  <1> QED  BY <1>2, <1>3

\* Where the reader stands.
LEMMA Places ==
    ASSUME TypeOK, BufferInv
    PROVE  /\ Pos \in Nat /\ NextPos \in Nat /\ end_of_buffer_offset_ \in Nat
           /\ end_of_buffer_offset_ = Pos + Len(buffer_)
           /\ Pos <= NextPos /\ NextPos <= end_of_buffer_offset_ /\ NextPos < Pos + kHeaderSize
           /\ Len(buffer_) >= kHeaderSize => NextPos = Pos
           /\ Len(buffer_) < kHeaderSize => NextPos = end_of_buffer_offset_
  <1>1. /\ Len(buffer_) \in Nat /\ end_of_buffer_offset_ \in Nat /\ kHeaderSize \in Nat
        /\ kHeaderSize >= 3 /\ Len(buffer_) <= end_of_buffer_offset_
    BY Numbers DEF TypeOK, BufferInv
  <1> QED  BY <1>1 DEF Pos, NextPos

\* What was due, is.
LEMMA SameDue ==
    ASSUME ReturnedInv, phase = "read", out' = out, records' = records, damage' = damage,
           \A r \in 1 .. Len(records) : Due(r)' <=> Due(r)
    PROVE  ReturnedInv'
  <1>1. /\ damage = 0 => Listed
        /\ \A r \in 1 .. Len(records) : Due(r) /\ Untouched(r) => Returned(r)
    BY DEF ReturnedInv
  <1>2. damage' = 0 => Listed'
    <2> SUFFICES ASSUME damage' = 0 PROVE Listed'  OBVIOUS
    <2>1. PICK which \in [1 .. Len(out) -> 1 .. Len(records)] :
             /\ \A j \in 1 .. Len(out) : Due(which[j]) /\ out[j] = records[which[j]].data
             /\ \A i, j \in 1 .. Len(out) : i < j => which[i] < which[j]
             /\ \A r \in 1 .. Len(records) : Due(r) => \E j \in 1 .. Len(out) : which[j] = r
      BY <1>1 DEF Listed
    <2>2. \A j \in 1 .. Len(out) : Due(which[j])'
      <3> TAKE j \in 1 .. Len(out)
      <3>1. which[j] \in 1 .. Len(records) /\ Due(which[j])  BY <2>1
      <3> QED  BY <3>1
    <2>3. which \in [1 .. Len(out') -> 1 .. Len(records')]  OBVIOUS
    <2>4. \A j \in 1 .. Len(out') : Due(which[j])' /\ out'[j] = records'[which[j]].data
      BY <2>1, <2>2
    <2>5. \A r \in 1 .. Len(records') : Due(r)' => \E j \in 1 .. Len(out') : which[j] = r
      BY <2>1
    <2>6. \A i, j \in 1 .. Len(out') : i < j => which[i] < which[j]  BY <2>1
    <2> QED  BY <2>3, <2>4, <2>5, <2>6, Zenon DEF Listed
  <1>3. ASSUME NEW r \in 1 .. Len(records), Due(r)', Untouched(r)'
        PROVE  Returned(r)'
    <2>1. Untouched(r)  BY <1>3 DEF Untouched, Hole
    <2>2. Returned(r)  BY <1>1, <1>3, <2>1
    <2> QED  BY <2>2 DEF Returned
  <1> QED  BY <1>2, <1>3 DEF ReturnedInv

\* SkipToInitialBlock: the block of initial_offset_, or the next one when it is
\* in a trailer.
LEMMA SkipProps ==
    ASSUME TypeOK, OpenReader
    PROVE  /\ end_of_buffer_offset_' \in Nat /\ Aligned(end_of_buffer_offset_')
           /\ end_of_buffer_offset_' < initial_offset_ + kHeaderSize
  <1>1. /\ initial_offset_ \in Nat /\ kBlockSize \in Nat /\ kHeaderSize \in Nat
        /\ kHeaderSize >= 3 /\ kBlockSize >= 2 * kHeaderSize
    BY LogAssumption DEF TypeOK
  <1>2. PICK q : q = initial_offset_ % kBlockSize  OBVIOUS
  <1>3. q \in 0 .. kBlockSize - 1 /\ initial_offset_ - q \in Nat /\ Aligned(initial_offset_ - q)
    BY <1>1, <1>2, BlockBegin
  <1>4. end_of_buffer_offset_' = IF q > kBlockSize - (kHeaderSize - 1)
                                 THEN initial_offset_ - q + kBlockSize ELSE initial_offset_ - q
    BY <1>2 DEF OpenReader
  <1>5. CASE q > kBlockSize - (kHeaderSize - 1)
    <2>1. PICK x : x = initial_offset_ - q  OBVIOUS
    <2>2. x \in Int /\ Aligned(x)  BY <1>3, <2>1
    <2>3. Aligned(x + kBlockSize)  BY <2>2, AlignedNext
    <2> QED  BY <1>1, <1>3, <1>4, <1>5, <2>1, <2>3
  <1>6. CASE ~(q > kBlockSize - (kHeaderSize - 1))
    BY <1>1, <1>3, <1>4, <1>6
  <1> QED  BY <1>5, <1>6

LEMMA Bounds ==
    ASSUME TypeOK, NEW r \in 1 .. Len(records)
    PROVE  records[r].start \in Int /\ records[r].end \in Int /\ records[r].data \in Seq(DataCell)
  <1>1. records[r] \in Entry  BY ElementOfSeq DEF TypeOK
  <1> QED  BY <1>1 DEF Entry

\* A continuation lies directly behind a part of the same record.
LEMMA Continued ==
    ASSUME TypeOK, EmittedInv, ContInv, AckedInv, NEW Q \in emitted, Continues(Q)
    PROVE  records[Q.rec].start + kHeaderSize <= Q.start
  <1>1. PICK A \in emitted : A.rec = Q.rec /\ Whole(A) /\ A.start + A.len = Q.start
    BY DEF ContInv, Continues
  <1>2. records[A.rec].start <= A.start  BY DEF AckedInv
  <1>3. /\ A.start \in Nat /\ A.n \in Nat /\ A.rec \in 1 .. Len(records) /\ kHeaderSize \in Nat
    BY EmittedNat, LogAssumption
  <1>4. records[A.rec].start \in Int  BY <1>3, Bounds
  <1>5. Q.start = A.start + (kHeaderSize + A.n)  BY <1>1 DEF Whole
  <1> QED  BY <1>1, <1>2, <1>3, <1>4, <1>5

LEMMA OpenReaderComplete ==
    ASSUME Inv, CompleteInv, OpenReader
    PROVE  CompleteInv'
  <1>1. TypeOK /\ EmittedInv /\ ContInv /\ LayoutInv /\ WrittenInv /\ UnreadInv
    BY DEF Inv, WriterInv, CompleteInv
  <1>2. /\ phase \in {"open", "crashed"} /\ phase' = "read" /\ UNCHANGED writerVars
        /\ initial_offset_' = initial_offset_ /\ buffer_' = buffer_ /\ eof_' = eof_
        /\ resyncing_' = resyncing_ /\ in_fragmented_record' = in_fragmented_record
        /\ out' = out /\ reported' = reported
    BY DEF OpenReader
  <1>3. /\ buffer_' = <<>> /\ ~eof_' /\ out' = <<>> /\ ~in_fragmented_record' /\ ~reported'
        /\ (initial_offset_' = 0 => ~resyncing_')
    BY <1>1, <1>2 DEF UnreadInv
  <1>4. Len(buffer_') = 0 /\ Len(out') = 0  BY <1>3
  <1>5. PICK e : e = end_of_buffer_offset_'  OBVIOUS
  <1>6. e \in Nat /\ Aligned(e) /\ e < initial_offset_ + kHeaderSize  BY <1>1, <1>5, SkipProps
  <1>7. LayoutInv' /\ WrittenInv'  BY <1>1, <1>2, ReaderStill
  <1>8. RestInv'
    <2>1. \A k \in 1 .. 0 : buffer_'[k] = file'[Pos' + k]  OBVIOUS
    <2>2. BufferInv'  BY <1>3, <1>4, <1>5, <1>6, <2>1 DEF BufferInv
    <2> QED  BY <1>3, <2>2 DEF RestInv
  <1>9. UnreadInv'  BY <1>2, <1>3 DEF UnreadInv
  <1>10. /\ kHeaderSize \in Nat /\ kHeaderSize >= 3 /\ initial_offset_ \in Nat
    BY <1>1, LogAssumption DEF TypeOK
  <1>11. NextPos' = e  BY <1>4, <1>5, <1>10 DEF NextPos
  <1>12. ASSUME Sound'
         PROVE  StandInv' /\ CollectedInv' /\ ReturnedInv' /\ SilentInv'
    <2>1. AckedInv  BY <1>1, <1>2, <1>12 DEF Sound, LayoutInv, writerVars
    <2>2. StandInv'  BY <1>4, <1>10 DEF StandInv
    <2>3. SilentInv'  BY <1>3 DEF SilentInv
    <2>4. CollectedInv'
      <3>1. ASSUME NEW Q \in emitted, Q.start = e, Continues(Q)
            PROVE  ~(records[Q.rec].start >= initial_offset_)
        <4>1. records[Q.rec].start + kHeaderSize <= Q.start  BY <1>1, <2>1, <3>1, Continued
        <4>2. Q.rec \in 1 .. Len(records)  BY <1>1, EmittedNat
        <4>3. records[Q.rec].start \in Int  BY <1>1, <4>2, Bounds
        <4> QED  BY <1>6, <1>10, <3>1, <4>1, <4>3
      <3> QED  BY <1>2, <1>3, <1>11, <3>1 DEF CollectedInv, Fresh, writerVars
    <2>5. ASSUME NEW r \in 1 .. Len(records)
          PROVE  ~Due(r)'
      <3> SUFFICES ASSUME Due(r)' PROVE FALSE  OBVIOUS
      <3>1. records[r].acked /\ records[r].start >= initial_offset_ /\ records[r].end <= e
        BY <1>2, <1>11 DEF Due, Limit, writerVars
      <3>2. records[r].start + kHeaderSize <= records[r].end
        BY <1>1, <2>1, <3>1, AckedEnd
      <3>3. records[r].start \in Int /\ records[r].end \in Int  BY <1>1, Bounds
      <3> QED  BY <1>6, <1>10, <3>1, <3>2, <3>3
    <2>6. Listed'
      <3>1. PICK which : which = [j \in 1 .. 0 |-> 1]  OBVIOUS
      <3>2. which \in [1 .. 0 -> 1 .. Len(records')]  BY <3>1
      <3>3. records' = records  BY <1>2 DEF writerVars
      <3>4. \A j \in 1 .. 0 : FALSE  OBVIOUS
      <3> QED  BY <1>4, <2>5, <3>2, <3>3, <3>4, Zenon DEF Listed
    <2>7. ReturnedInv'
      <3>1. records' = records  BY <1>2 DEF writerVars
      <3> QED  BY <2>5, <2>6, <3>1 DEF ReturnedInv
    <2> QED  BY <2>2, <2>3, <2>4, <2>7
  <1> QED  BY <1>7, <1>8, <1>9, <1>12 DEF CompleteInv

\* What ReadBlock leaves in the buffer: a whole block, or the rest of the file.
LEMMA BlockRead ==
    ASSUME TypeOK, BufferInv, ReadBlock, NEW e, e = end_of_buffer_offset_, NEW m, m = Len(buffer_')
    PROVE  /\ e \in Nat /\ m \in Nat /\ m <= kBlockSize /\ buffer_' \in Seq(Cell)
           /\ end_of_buffer_offset_' = e + m /\ Pos' = e /\ NextPos = e /\ Aligned(e)
           /\ m > 0 => e + m <= Len(file)
           /\ eof_' => e + m >= Len(file) /\ m < kBlockSize
           /\ ~eof_' => m = kBlockSize
           /\ BufferInv'
  <1>1. /\ phase = "read" /\ phase' = phase /\ Len(buffer_) < kHeaderSize /\ ~eof_
        /\ buffer_' = FirstN(From(file, e), kBlockSize)
        /\ end_of_buffer_offset_' = e + m
        /\ eof_' = (m < kBlockSize) /\ file' = file
    BY DEF ReadBlock, writerVars
  <1>2. /\ e \in Nat /\ file \in Seq(Cell) /\ Len(file) \in Nat /\ kBlockSize \in Nat
        /\ kHeaderSize \in Nat /\ kHeaderSize >= 3 /\ kBlockSize > kHeaderSize
        /\ Len(buffer_) \in Nat
    BY LogAssumption, LenProperties DEF TypeOK
  <1> DEFINE g == From(file, e)
  <1>3. /\ g \in Seq(Cell) /\ Len(g) \in Nat
        /\ e <= Len(file) => Len(g) = Len(file) - e
        /\ e > Len(file) => Len(g) = 0
        /\ \A k \in 1 .. Len(g) : g[k] = file[e + k]
    <2>1. CASE e <= Len(file)
      <3>1. e \in 0 .. Len(file) /\ ~(e > Len(file))  BY <1>2, <2>1
      <3>2. /\ g \in Seq(Cell) /\ Len(g) = Len(file) - e
            /\ \A k \in 1 .. Len(file) - e : g[k] = file[e + k]
        BY <1>2, <3>1, FromProps
      <3> HIDE DEF g
      <3>3. Len(g) \in Nat  BY <3>2, LenProperties
      <3> QED  BY <3>1, <3>2, <3>3
    <2>2. CASE e > Len(file)
      <3>1. g = <<>>  BY <1>2, <2>2, FromBehind
      <3> HIDE DEF g
      <3>2. g \in Seq(Cell) /\ Len(g) = 0  BY <3>1
      <3>3. ~(e <= Len(file))  BY <1>2, <2>2
      <3> QED  BY <3>2, <3>3
    <2> QED  BY <1>2, <2>1, <2>2
  <1>4. buffer_' = FirstN(g, kBlockSize)  BY <1>1
  <1> HIDE DEF g
  <1>5. /\ buffer_' \in Seq(Cell)
        /\ m = IF kBlockSize < Len(g) THEN kBlockSize ELSE Len(g)
        /\ \A k \in 1 .. m : buffer_'[k] = g[k]
    BY <1>2, <1>3, <1>4, FirstNProps
  <1>6. /\ m \in Nat /\ m <= Len(g) /\ m <= kBlockSize /\ (m < kBlockSize => m = Len(g))
    BY <1>2, <1>3, <1>5
  <1>7. eof_' <=> m < kBlockSize  BY <1>1, Zenon
  <1>8. m > 0 => e + m <= Len(file)  BY <1>2, <1>3, <1>6
  <1>9. (m < kBlockSize => e + m >= Len(file)) /\ (~(m < kBlockSize) => m = kBlockSize)
    BY <1>2, <1>3, <1>6
  <1>10. Pos' = e  BY <1>1, <1>2, <1>6 DEF Pos
  <1>11. NextPos = e  BY <1>1, <1>2 DEF NextPos
  <1>12. Aligned(e)  BY <1>1 DEF BufferInv
  <1>13. BufferInv'
    <2>1. \A k \in 1 .. m : buffer_'[k] = file[e + k]
      <3> TAKE k \in 1 .. m
      <3>1. k \in 1 .. Len(g)  BY <1>3, <1>6
      <3> QED  BY <1>3, <1>5, <3>1
    <2>2. m <= e + m  BY <1>2, <1>6
    <2>3. buffer_' # <<>> => e + m <= Len(file)
      <3> SUFFICES ASSUME buffer_' # <<>> PROVE e + m <= Len(file)  OBVIOUS
      <3>0. Len(buffer_') # 0
        <4>1. buffer_' \in Seq(Cell)  BY <1>5
        <4> QED  BY <4>1, EmptySeq, Zenon
      <3>1. m > 0  BY <1>6, <3>0
      <3> QED  BY <1>8, <3>1
    <2>4. ~eof_' => Aligned(e + m)
      <3> SUFFICES ASSUME ~eof_' PROVE Aligned(e + m)  OBVIOUS
      <3>1. m = kBlockSize  BY <1>7, <1>9
      <3> QED  BY <1>2, <1>12, <3>1, AlignedNext
    <2> QED  BY <1>1, <1>10, <2>1, <2>2, <2>3, <2>4 DEF BufferInv
  <1> QED  BY <1>1, <1>2, <1>5, <1>6, <1>7, <1>8, <1>9, <1>10, <1>11, <1>12, <1>13

LEMMA ReadBlockComplete ==
    ASSUME Inv, CompleteInv, ReadBlock
    PROVE  CompleteInv'
  <1>1. TypeOK /\ EmittedInv /\ LayoutInv /\ WrittenInv /\ UnreadInv /\ RestInv /\ BufferInv
    BY DEF Inv, WriterInv, CompleteInv, RestInv
  <1>2. /\ phase = "read" /\ phase' = "read" /\ Len(buffer_) < kHeaderSize /\ ~eof_
        /\ UNCHANGED writerVars
        /\ initial_offset_' = initial_offset_ /\ scratch' = scratch
        /\ resyncing_' = resyncing_ /\ in_fragmented_record' = in_fragmented_record
        /\ out' = out /\ reported' = reported
    BY DEF ReadBlock
  <1>3. /\ file' = file /\ records' = records /\ damage' = damage /\ seam' = seam
        /\ emitted' = emitted
    BY <1>2 DEF writerVars
  <1>4. PICK e : e = end_of_buffer_offset_  OBVIOUS
  <1>5. PICK m : m = Len(buffer_')  OBVIOUS
  <1>6. /\ e \in Nat /\ m \in Nat /\ m <= kBlockSize /\ buffer_' \in Seq(Cell)
        /\ end_of_buffer_offset_' = e + m /\ Pos' = e /\ NextPos = e /\ Aligned(e)
        /\ m > 0 => e + m <= Len(file)
        /\ eof_' => e + m >= Len(file) /\ m < kBlockSize
        /\ ~eof_' => m = kBlockSize
        /\ BufferInv'
    BY <1>1, <1>4, <1>5, BlockRead
  <1>7. /\ kHeaderSize \in Nat /\ kHeaderSize >= 3 /\ kBlockSize \in Nat
        /\ kBlockSize >= 2 * kHeaderSize /\ Len(file) \in Nat
    BY <1>1, Numbers
  <1>8. NextPos' = IF m >= kHeaderSize THEN e ELSE e + m  BY <1>5, <1>6 DEF NextPos
  <1>9. LayoutInv' /\ WrittenInv'  BY <1>1, <1>2, ReaderStill
  <1>10. RestInv'
    <2>1. In(e, e) /\ e + m <= e + kBlockSize  BY <1>6, <1>7 DEF In
    <2>2. e \in Int  BY <1>6
    <2> QED  BY <1>2, <1>3, <1>6, <2>1, <2>2 DEF RestInv
  <1>11. UnreadInv'  BY <1>1, <1>2 DEF UnreadInv
  <1>12. ASSUME Sound'
         PROVE  StandInv' /\ CollectedInv' /\ ReturnedInv' /\ SilentInv'
    <2>1. /\ StandInv /\ CollectedInv /\ ReturnedInv /\ SilentInv
          /\ BlocksInv /\ AckedInv
      BY <1>3, <1>12 DEF CompleteInv, Sound, LayoutInv
    <2>2. StandInv'
      <3> SUFFICES ASSUME m >= kHeaderSize PROVE \E P \in emitted : P.start = e
        BY <1>3, <1>5, <1>6 DEF StandInv
      <3>1. e < Len(file)  BY <1>6, <1>7
      <3> QED  BY <1>6, <2>1, <3>1 DEF BlocksInv
    <2>3. CollectedInv'
      <3> SUFFICES ASSUME m >= kHeaderSize \/ ~eof_', NEW Q \in emitted, Q.start = NextPos',
                          Continues(Q)
                   PROVE  /\ Fresh(Q)' =>
                               /\ in_fragmented_record /\ ~resyncing_
                               /\ scratch = [k \in 1 .. Q.from |-> Data(Q.rec, k)]
                          /\ damage = 0 /\ in_fragmented_record =>
                               records[Q.rec].start >= initial_offset_
        BY <1>2, <1>3, <1>5 DEF CollectedInv
      <3>1. m >= kHeaderSize  BY <1>6, <1>7
      <3>2. Q.start = NextPos  BY <1>6, <1>8, <3>1
      <3>3. Fresh(Q)' => Fresh(Q)  BY <1>2, <1>3 DEF Fresh, Hole
      <3> QED  BY <1>2, <2>1, <3>2, <3>3 DEF CollectedInv
    <2>4. ReturnedInv'
      <3>1. ASSUME NEW r \in 1 .. Len(records)
            PROVE  Due(r)' <=> Due(r)
        <4>1. Due(r) <=> /\ records[r].acked /\ records[r].start >= initial_offset_
                         /\ records[r].end <= e
          BY <1>2, <1>6 DEF Due, Limit
        <4>2. Due(r)' <=> /\ records[r].acked /\ records[r].start >= initial_offset_
                          /\ records[r].end <= NextPos'
          BY <1>2, <1>3 DEF Due, Limit
        <4>3. CASE m >= kHeaderSize  BY <1>8, <4>1, <4>2, <4>3
        <4>4. CASE m < kHeaderSize
          <5>1. NextPos' = e + m /\ records[r].end \in Int  BY <1>1, <1>6, <1>7, <1>8, <4>4, Bounds
          <5>2. ASSUME records[r].acked, records[r].end <= e + m
                PROVE  records[r].end <= e
            <6>1. PICK P \in emitted : Whole(P) /\ records[r].end = EndOf(P)
              BY <1>1, <2>1, <5>2, AckedEnd
            <6>2. P.start \in Nat /\ P.n \in Nat  BY <1>1, EmittedNat
            <6>3. EndOf(P) = P.start + (kHeaderSize + P.n)  BY <6>1 DEF EndOf, Whole
            <6>4. P.start < e  BY <1>6, <1>7, <4>4, <5>2, <6>1, <6>2, <6>3
            <6>5. EndOf(P) <= e  BY <1>1, <1>6, <2>1, <6>4, NoStraddle
            <6> QED  BY <6>1, <6>5
          <5>3. records[r].end <= e => records[r].end <= e + m  BY <1>6, <5>1
          <5> QED  BY <4>1, <4>2, <5>1, <5>2, <5>3
        <4> QED  BY <1>6, <1>7, <4>3, <4>4
      <3> QED  BY <1>2, <1>3, <2>1, <3>1, SameDue
    <2>5. SilentInv'
      <3> SUFFICES ASSUME initial_offset_ = 0, seam = "none", damage = 0
                   PROVE  /\ ~reported
                          /\ in_fragmented_record =>
                                \A Q \in emitted : Q.start = NextPos' => Continues(Q)
        BY <1>2, <1>3 DEF SilentInv
      <3>1. /\ ~reported
            /\ in_fragmented_record => \A Q \in emitted : Q.start = e => Continues(Q)
        BY <1>2, <1>6, <2>1 DEF SilentInv
      <3>2. ASSUME ~(m >= kHeaderSize), NEW Q \in emitted
            PROVE  Q.start # e + m
        <4>1. e + m >= Len(file)  BY <1>6, <1>7, <3>2
        <4>2. Q.start \in Nat /\ Q.len \in Nat /\ 1 <= Q.len /\ EndOf(Q) <= Len(file)
          BY <1>1, EmittedNat
        <4> QED  BY <1>6, <1>7, <4>1, <4>2 DEF EndOf
      <3> QED  BY <1>8, <3>1, <3>2
    <2> QED  BY <2>2, <2>3, <2>4, <2>5
  <1> QED  BY <1>9, <1>10, <1>11, <1>12 DEF CompleteInv

\* The header cells of a physical record.
LEMMA HeaderOf ==
    ASSUME NEW P \in Physical
    PROVE  /\ CellOf(P, kHeaderSize - 1) = [kind |-> "len", n |-> P.n]
           /\ CellOf(P, kHeaderSize) = [kind |-> "type", t |-> P.type]
           /\ \A k \in 1 .. kHeaderSize - 2 :
                 CellOf(P, k) = [kind |-> "crc", sum |-> <<P.type, FragmentOf(P)>>]
           /\ \A k \in 1 .. P.n : CellOf(P, kHeaderSize + k) = FragmentOf(P)[k]
  <1>1. P.type \in 1 .. 4 /\ P.n \in Nat  BY DEF Physical
  <1>2. FragmentOf(P) \in Seq(DataCell) /\ Len(FragmentOf(P)) = P.n  BY FragmentOfProps
  <1> DEFINE f == FragmentOf(P)
             p == PhysicalRecord(P.type, f)
  <1>3. /\ \A k \in 1 .. kHeaderSize - 2 : p[k] = [kind |-> "crc", sum |-> <<P.type, f>>]
        /\ p[kHeaderSize - 1] = [kind |-> "len", n |-> Len(f)]
        /\ p[kHeaderSize] = [kind |-> "type", t |-> P.type]
        /\ \A k \in 1 .. Len(f) : p[kHeaderSize + k] = f[k]
    BY <1>1, <1>2, PhysicalCells, ZenonT(60)
  <1>4. \A k : CellOf(P, k) = p[k]  BY DEF CellOf
  <1> HIDE DEF p
  <1> QED  BY <1>2, <1>3, <1>4, Zenon

\* Outside the damaged block the cells of a physical record are what was written.
LEMMA Intact ==
    ASSUME TypeOK, EmittedInv, BlocksInv, WrittenInv, NEW P \in emitted, Outside(P.start)
    PROVE  \A k \in 1 .. P.len : file[P.start + k] = CellOf(P, k)
  <1>1. PICK y \in Int : In(P.start, y) /\ P.start + kHeaderSize + P.n <= y + kBlockSize
    BY DEF BlocksInv
  <1>2. /\ P.start \in Nat /\ P.len \in Nat /\ P.n \in Nat /\ P.len <= kHeaderSize + P.n
        /\ kHeaderSize \in Nat /\ kBlockSize \in Nat
    BY EmittedNat, LogAssumption
  <1> TAKE k \in 1 .. P.len
  <1>3. CASE P.start + k = damage
    <2>1. damage - 1 = P.start + k - 1 /\ damage # 0  BY <1>2, <1>3
    <2>2. Aligned(y) /\ y <= P.start  BY <1>1 DEF In
    <2>3. In(damage - 1, y)  BY <1>1, <1>2, <2>1, <2>2 DEF In
    <2>4. Hole(y)  BY <2>1, <2>3 DEF Hole
    <2> QED  BY <1>1, <2>4 DEF Outside
  <1> QED  BY <1>3 DEF WrittenInv

\* The reader stands at the start of a physical record outside the damaged block:
\* how much of it is in the buffer.
LEMMA InBuffer ==
    ASSUME TypeOK, EmittedInv, BlocksInv, TilingInv, RestInv, phase = "read",
           Len(buffer_) >= kHeaderSize, NEW P \in emitted, P.start = Pos
    PROVE  /\ kHeaderSize <= P.len
           /\ Whole(P) => kHeaderSize + P.n <= Len(buffer_)
           /\ ~Whole(P) => eof_ /\ kHeaderSize + P.n > Len(buffer_) /\ EndOf(P) = Len(file)
  <1>1. /\ P.start \in Nat /\ P.len \in Nat /\ P.n \in Nat /\ P.len <= kHeaderSize + P.n
        /\ EndOf(P) <= Len(file)
    BY EmittedNat
  <1>2. /\ kHeaderSize \in Nat /\ kHeaderSize >= 3 /\ kBlockSize \in Nat /\ Len(file) \in Nat
        /\ Len(buffer_) \in Nat
    BY Numbers
  <1>3. PICK e : e = end_of_buffer_offset_  OBVIOUS
  <1>4. e \in Nat /\ e = Pos + Len(buffer_)  BY <1>3, Places DEF RestInv
  <1>5. buffer_ # <<>>
    <2>1. Len(buffer_) # 0  BY <1>2
    <2> QED  BY <2>1
  <1>6. e <= Len(file)  BY <1>3, <1>5 DEF RestInv, BufferInv
  <1>7. PICK y \in Int : In(Pos, y) /\ e <= y + kBlockSize  BY <1>3, <1>5 DEF RestInv
  <1>8. P.start + kHeaderSize + P.n <= y + kBlockSize
    <2>1. PICK z \in Int : In(P.start, z) /\ P.start + kHeaderSize + P.n <= z + kBlockSize
      BY DEF BlocksInv
    <2>2. Pos \in Int  BY <1>1
    <2>3. z = y  BY <1>7, <2>1, <2>2, InUnique
    <2> QED  BY <2>1, <2>3
  <1>9. ~eof_ => e = y + kBlockSize
    <2> SUFFICES ASSUME ~eof_ PROVE e = y + kBlockSize  OBVIOUS
    <2>1. Aligned(e)  BY <1>3 DEF RestInv, BufferInv
    <2>2. Aligned(y) /\ y <= Pos  BY <1>7 DEF In
    <2>3. y < e  BY <1>1, <1>2, <1>4, <2>2
    <2>4. ~(e < y + kBlockSize)  BY <1>4, <2>1, <2>2, <2>3, NoneBetween
    <2> QED  BY <1>2, <1>4, <1>7, <2>4
  <1>10. eof_ => e >= Len(file)  BY <1>3 DEF RestInv
  <1>11. Whole(P) \/ EndOf(P) = Len(file)  BY DEF TilingInv
  <1>12. CASE Whole(P)
    <2>1. P.len = kHeaderSize + P.n  BY <1>12 DEF Whole
    <2> QED  BY <1>1, <1>2, <1>4, <1>8, <1>9, <1>10, <1>12, <2>1 DEF EndOf
  <1>13. CASE ~Whole(P)
    <2>1. P.len # kHeaderSize + P.n /\ EndOf(P) = Len(file)  BY <1>11, <1>13 DEF Whole
    <2>2. P.start + P.len = Len(file)  BY <2>1 DEF EndOf
    <2>3. P.len < kHeaderSize + P.n  BY <1>1, <1>2, <2>1
    <2>4. Len(buffer_) <= P.len  BY <1>1, <1>2, <1>4, <1>6, <2>2
    <2>5. kHeaderSize <= P.len /\ kHeaderSize + P.n > Len(buffer_)  BY <1>1, <1>2, <2>3, <2>4
    <2>6. e # y + kBlockSize  BY <1>1, <1>2, <1>4, <1>8, <2>3, <2>4
    <2>7. eof_  BY <1>9, <2>6
    <2> QED  BY <1>13, <2>1, <2>5, <2>7
  <1> QED  BY <1>12, <1>13

LEMMA ReadOutside ==
    ASSUME TypeOK, EmittedInv, BlocksInv, TilingInv, WrittenInv, RestInv, phase = "read",
           Len(buffer_) >= kHeaderSize, NEW P \in emitted, P.start = Pos, Outside(Pos),
           NEW n \in Lengths, NEW t \in Types, NEW o, o = ReadPhysicalRecord(t, n)
    PROVE  /\ ~Whole(P) => o.type = kEof /\ EndOf(P) = Len(file)
           /\ Whole(P) =>
                /\ kHeaderSize + P.n <= Len(buffer_) /\ o.rest = From(buffer_, kHeaderSize + P.n)
                /\ o.drop = 0
                /\ Pos < initial_offset_ => o.type = kBadRecord /\ o.fragment = <<>>
                /\ ~(Pos < initial_offset_) => o.type = P.type /\ o.fragment = FragmentOf(P)
  <1>1. /\ P \in Physical /\ P.type \in 1 .. 4 /\ P.start \in Nat /\ P.len \in Nat /\ P.n \in Nat
        /\ P.len <= kHeaderSize + P.n
    BY EmittedNat
  <1>2. /\ kHeaderSize \in Nat /\ kHeaderSize >= 3 /\ Len(buffer_) \in Nat
    BY Numbers
  <1>3. /\ kHeaderSize <= P.len
        /\ Whole(P) => kHeaderSize + P.n <= Len(buffer_)
        /\ ~Whole(P) => eof_ /\ kHeaderSize + P.n > Len(buffer_) /\ EndOf(P) = Len(file)
    BY InBuffer
  <1>4. \A k \in 1 .. P.len : file[Pos + k] = CellOf(P, k)  BY Intact
  <1>5. \A k \in 1 .. Len(buffer_) : buffer_[k] = file[Pos + k]  BY DEF RestInv, BufferInv
  <1>6. ASSUME NEW k \in 1 .. Len(buffer_), k \in 1 .. P.len
        PROVE  buffer_[k] = CellOf(P, k)
    BY <1>4, <1>5, <1>6
  <1>7. /\ CellOf(P, kHeaderSize - 1) = [kind |-> "len", n |-> P.n]
        /\ CellOf(P, kHeaderSize) = [kind |-> "type", t |-> P.type]
        /\ \A k \in 1 .. kHeaderSize - 2 :
              CellOf(P, k) = [kind |-> "crc", sum |-> <<P.type, FragmentOf(P)>>]
        /\ \A k \in 1 .. P.n : CellOf(P, kHeaderSize + k) = FragmentOf(P)[k]
    BY <1>1, HeaderOf
  <1>8. n = P.n
    <2>1. kHeaderSize - 1 \in 1 .. Len(buffer_) /\ kHeaderSize - 1 \in 1 .. P.len
      BY <1>1, <1>2, <1>3
    <2>2. buffer_[kHeaderSize - 1] = [kind |-> "len", n |-> P.n]  BY <1>6, <1>7, <2>1
    <2> QED  BY <2>2 DEF Lengths
  <1>9. t = P.type
    <2>1. kHeaderSize \in 1 .. Len(buffer_) /\ kHeaderSize \in 1 .. P.len
      BY <1>1, <1>2, <1>3
    <2>2. buffer_[kHeaderSize] = [kind |-> "type", t |-> P.type]  BY <1>6, <1>7, <2>1
    <2> QED  BY <2>2 DEF Types
  <1>10. CASE ~Whole(P)
    <2>1. kHeaderSize + n > Len(buffer_) /\ ~(kHeaderSize + n <= Len(buffer_)) /\ eof_
      BY <1>1, <1>2, <1>3, <1>8, <1>10
    <2>2. o = Outcome(kEof, <<>>, <<>>, 0)  BY <2>1, Zenon DEF ReadPhysicalRecord
    <2>3. o.type = kEof  BY <2>2 DEF Outcome
    <2> QED  BY <1>3, <1>10, <2>3
  <1>11. CASE Whole(P)
    <2>1. kHeaderSize + n <= Len(buffer_) /\ ~(kHeaderSize + n > Len(buffer_))
      BY <1>1, <1>2, <1>3, <1>8, <1>11
    <2>2. P.len = kHeaderSize + P.n  BY <1>11 DEF Whole
    <2>3. FragmentAt(n) = FragmentOf(P)
      <3>1. /\ FragmentAt(n) \in Seq(Cell) /\ Len(FragmentAt(n)) = n
            /\ \A k \in 1 .. n : FragmentAt(n)[k] = buffer_[kHeaderSize + k]
        BY <1>1, <1>8, <2>1, FragmentAtProps
      <3>2. FragmentOf(P) \in Seq(DataCell) /\ Len(FragmentOf(P)) = n
        BY <1>1, <1>8, FragmentOfProps
      <3>3. FragmentOf(P) \in Seq(Cell)
        <4>1. DataCell \subseteq Cell  BY DEF Cell
        <4> QED  BY <3>2, <4>1, SeqMonotonic
      <3>4. ASSUME NEW k \in 1 .. n PROVE FragmentAt(n)[k] = FragmentOf(P)[k]
        <4>1. kHeaderSize + k \in 1 .. Len(buffer_) /\ kHeaderSize + k \in 1 .. P.len
              /\ k \in 1 .. P.n
          BY <1>1, <1>2, <1>8, <2>1, <2>2
        <4>2. buffer_[kHeaderSize + k] = CellOf(P, kHeaderSize + k)  BY <1>6, <4>1
        <4>3. CellOf(P, kHeaderSize + k) = FragmentOf(P)[k]  BY <1>7, <4>1
        <4> QED  BY <3>1, <4>2, <4>3
      <3> QED  BY <3>1, <3>2, <3>3, <3>4, SeqEqual
    <2>4. CrcMatches(t, FragmentAt(n))
      <3>1. ASSUME NEW k \in 1 .. kHeaderSize - 2
            PROVE  buffer_[k] = [kind |-> "crc", sum |-> <<t, FragmentAt(n)>>]
        <4>1. k \in 1 .. Len(buffer_) /\ k \in 1 .. P.len  BY <1>1, <1>2, <1>3
        <4> QED  BY <1>6, <1>7, <1>9, <2>3, <4>1
      <3> QED  BY <3>1 DEF CrcMatches
    <2>5. ~(t = kZeroType /\ n = 0)  BY <1>1, <1>9 DEF kZeroType
    <2> DEFINE r == From(buffer_, kHeaderSize + n)
    <2>6. Pos = end_of_buffer_offset_ - Len(buffer_)  BY DEF Pos
    <2>7. o = CASE ~CrcMatches(t, FragmentAt(n)) -> Outcome(kBadRecord, <<>>, <<>>, Len(buffer_))
                [] CrcMatches(t, FragmentAt(n)) /\ Pos < initial_offset_ ->
                      Outcome(kBadRecord, <<>>, r, 0)
                [] OTHER -> Outcome(t, FragmentAt(n), r, 0)
      BY <2>1, <2>5, <2>6, Zenon DEF ReadPhysicalRecord, FragmentAt
    <2>8. CASE Pos < initial_offset_
      <3>1. o = Outcome(kBadRecord, <<>>, r, 0)  BY <2>4, <2>7, <2>8, Zenon
      <3>2. o.type = kBadRecord /\ o.fragment = <<>> /\ o.rest = r /\ o.drop = 0
        BY <3>1 DEF Outcome
      <3> QED  BY <1>3, <1>8, <1>11, <2>8, <3>2
    <2>9. CASE ~(Pos < initial_offset_)
      <3>1. o = Outcome(t, FragmentAt(n), r, 0)  BY <2>4, <2>7, <2>9, Zenon
      <3>2. o.type = t /\ o.fragment = FragmentAt(n) /\ o.rest = r /\ o.drop = 0
        BY <3>1 DEF Outcome
      <3> QED  BY <1>3, <1>8, <1>9, <1>11, <2>3, <2>9, <3>2
    <2> QED  BY <2>8, <2>9
  <1> QED  BY <1>10, <1>11

\* Directly behind a whole physical record a continuation continues that one.
LEMMA FollowPart ==
    ASSUME TypeOK, EmittedInv, OrderInv, ContInv, NEW P \in emitted, Whole(P),
           NEW Q \in emitted, Continues(Q), EndOf(P) <= Q.start, Q.start < EndOf(P) + kHeaderSize
    PROVE  /\ Goes(P) /\ Q.start = EndOf(P) /\ Q.rec = P.rec /\ Q.from = P.from + P.n
  <1>1. PICK A \in emitted : /\ A.type \in {kFirstType, kMiddleType} /\ A.rec = Q.rec /\ Whole(A)
                             /\ A.start + A.len = Q.start /\ A.from + A.n = Q.from
    BY DEF ContInv, Continues
  <1>2. EndOf(A) = Q.start /\ EndOf(A) \in Nat /\ EndOf(P) \in Nat  BY <1>1, EmittedNat DEF EndOf
  <1>3. ~(EndOf(P) < EndOf(A))
    <2> SUFFICES ASSUME EndOf(P) < EndOf(A) PROVE FALSE  OBVIOUS
    <2>1. EndOf(A) < EndOf(P) + kHeaderSize  BY <1>2
    <2> QED  BY <1>1, <2>1, NoneInTrailer
  <1>4. EndOf(P) = EndOf(A)  BY <1>2, <1>3
  <1>5. P = A  BY <1>4, SameEnd
  <1> QED  BY <1>1, <1>2, <1>5 DEF Goes

\* The records that end by the time the reader is behind P: those that ended
\* before P, and the one that P ends.
LEMMA DueStep ==
    ASSUME TypeOK, EmittedInv, OrderInv, AckedInv, NEW P \in emitted, Whole(P),
           NEW r \in 1 .. Len(records), NEW x \in Int, EndOf(P) <= x, x < EndOf(P) + kHeaderSize
    PROVE  /\ records[r].acked /\ records[r].end <= x =>
                 records[r].end <= P.start \/ (r = P.rec /\ Ends(P))
           /\ records[r].end <= P.start => records[r].end <= x
           /\ r = P.rec /\ Ends(P) => records[r].acked /\ records[r].end = EndOf(P)
  <1>1. /\ P.start \in Nat /\ P.len \in Nat /\ EndOf(P) \in Nat /\ kHeaderSize \in Nat
        /\ records[r].end \in Int
    BY EmittedNat, LogAssumption, Bounds
  <1>2. ASSUME records[r].acked, records[r].end <= x
        PROVE  records[r].end <= P.start \/ (r = P.rec /\ Ends(P))
    <2>1. PICK E \in emitted : E.rec = r /\ Whole(E) /\ Ends(E) /\ records[r].end = EndOf(E)
      BY <1>2, AckedEnd
    <2>2. P = E \/ EndOf(P) <= E.start \/ EndOf(E) <= P.start  BY Apart
    <2>3. ~(EndOf(P) <= E.start)
      <3>1. E.start \in Nat /\ E.n \in Nat  BY EmittedNat
      <3>2. EndOf(E) = E.start + (kHeaderSize + E.n)  BY <2>1 DEF EndOf, Whole
      <3> QED  BY <1>1, <1>2, <2>1, <3>1, <3>2
    <2> QED  BY <2>1, <2>2, <2>3
  <1>3. records[r].end <= P.start => records[r].end <= x  BY <1>1 DEF EndOf
  <1>4. ASSUME r = P.rec, Ends(P)
        PROVE  records[r].acked /\ records[r].end = EndOf(P)
    <2>1. records[r].acked  BY <1>4 DEF AckedInv
    <2>2. PICK E \in emitted : E.rec = r /\ Ends(E) /\ records[r].end = EndOf(E)
      BY <2>1, AckedEnd
    <2>3. E = P  BY <1>4, <2>2, OneEnd
    <2> QED  BY <2>1, <2>2, <2>3
  <1> QED  BY <1>2, <1>3, <1>4

\* What was returned stays returned.
LEMMA ReturnedStays ==
    ASSUME TypeOK, ReadRecord, NEW r, Returned(r)
    PROVE  Returned(r)'
  <1>1. PICK j \in 1 .. Len(out) : out[j] = records[r].data  BY DEF Returned
  <1>2. records' = records  BY DEF ReadRecord, writerVars
  <1>3. out' = out \/ \E x : out' = Append(out, x)
    <2>1. Nothing \/ \E t, f : Accepts(t, f)  BY ReadRecordProps, Zenon
    <2> QED  BY <2>1 DEF Nothing, Accepts
  <1>4. out \in Seq(Seq(Cell)) /\ Len(out) \in Nat  BY Numbers DEF TypeOK
  <1>5. CASE out' = out  BY <1>1, <1>2, <1>5 DEF Returned
  <1>6. CASE \E x : out' = Append(out, x)
    <2>1. PICK x : out' = Append(out, x)  BY <1>6
    <2>2. out \in Seq(Seq(Cell) \cup {x}) /\ x \in Seq(Cell) \cup {x}
      <3>1. Seq(Cell) \subseteq Seq(Cell) \cup {x}  OBVIOUS
      <3> QED  BY <1>4, <3>1, SeqMonotonic, Zenon
    <2>3. Len(out') = Len(out) + 1 /\ \A i \in 1 .. Len(out) : out'[i] = out[i]
      BY <2>1, <2>2, AppendProperties
    <2>4. j \in 1 .. Len(out') /\ out'[j] = out[j]  BY <1>4, <2>3
    <2> QED  BY <1>1, <1>2, <2>4 DEF Returned
  <1> QED  BY <1>3, <1>5, <1>6

\* In the damaged block the reader may accept anything or nothing: it stays in
\* that block, and no record that ends there is untouched.
LEMMA ReadRecordDamaged ==
    ASSUME Inv, CompleteInv, Sound, ReadRecord, RestInv', NEW y \in Int, Hole(y), In(Pos, y),
           NEW m \in kHeaderSize .. Len(buffer_), Pos' = Pos + m, Pos' \in Nat,
           Len(buffer_') = Len(buffer_) - m
    PROVE  StandInv' /\ CollectedInv' /\ ReturnedInv' /\ SilentInv'
  <1>1. /\ TypeOK /\ EmittedInv /\ ContInv /\ AckedInv /\ RestInv /\ BufferInv /\ ReturnedInv
    BY DEF Inv, WriterInv, CompleteInv, Sound, LayoutInv, RestInv
  <1>2. /\ phase = "read" /\ phase' = "read" /\ Len(buffer_) >= kHeaderSize
        /\ records' = records /\ damage' = damage /\ emitted' = emitted
        /\ initial_offset_' = initial_offset_ /\ end_of_buffer_offset_' = end_of_buffer_offset_
    BY DEF ReadRecord, writerVars
  <1>3. PICK e : e = end_of_buffer_offset_  OBVIOUS
  <1>4. /\ kHeaderSize \in Nat /\ kHeaderSize >= 3 /\ kBlockSize \in Nat /\ Len(buffer_) \in Nat
    BY <1>1, Numbers
  <1>5. Pos \in Nat /\ NextPos = Pos /\ e \in Nat /\ e = Pos + Len(buffer_)
    BY <1>1, <1>2, <1>3, Places
  <1>6. damage # 0 /\ y <= Pos /\ Aligned(y)  BY DEF Hole, In
  <1>7. e <= y + kBlockSize
    <2>1. buffer_ # <<>>
      <3>1. Len(buffer_) # 0  BY <1>2, <1>4
      <3> QED  BY <3>1
    <2>2. PICK z \in Int : In(Pos, z) /\ e <= z + kBlockSize  BY <1>1, <1>2, <1>3, <2>1 DEF RestInv
    <2>3. z = y  BY <1>5, <2>2, InUnique
    <2> QED  BY <2>2, <2>3
  <1>8. e = Pos' + Len(buffer_')  BY <1>4, <1>5
  <1>9. PICK x : x = NextPos'  OBVIOUS
  <1>10. x \in Nat /\ y <= x /\ x <= y + kBlockSize
    <2>1. x = IF Len(buffer_') >= kHeaderSize THEN Pos' ELSE e  BY <1>2, <1>3, <1>9 DEF NextPos
    <2> QED  BY <1>4, <1>5, <1>6, <1>7, <2>1
  <1>11. StandInv'
    <2> SUFFICES ASSUME Len(buffer_') >= kHeaderSize PROVE ~Outside(Pos)'
      BY DEF StandInv
    <2>1. In(Pos', y)  BY <1>4, <1>5, <1>6, <1>7 DEF In
    <2>2. Hole(y)'  BY <1>2 DEF Hole, In
    <2> QED  BY <2>1, <2>2 DEF Outside, In
  <1>12. CollectedInv'
    <2>1. ASSUME NEW Q \in emitted, Q.start = x, Continues(Q), Fresh(Q)
          PROVE  FALSE
      <3>1. records[Q.rec].start + kHeaderSize <= Q.start  BY <1>1, <2>1, Continued
      <3>2. y + kBlockSize <= records[Q.rec].start \/ Q.start < y  BY <2>1 DEF Fresh
      <3>3. Q.rec \in 1 .. Len(records)  BY <1>1, EmittedNat
      <3>4. records[Q.rec].start \in Int  BY <1>1, <3>3, Bounds
      <3> QED  BY <1>4, <1>10, <2>1, <3>1, <3>2, <3>4
    <2>2. \A Q : Fresh(Q)' => Fresh(Q)  BY <1>2 DEF Fresh, Hole
    <2> QED  BY <1>2, <1>6, <1>9, <2>1, <2>2 DEF CollectedInv
  <1>13. ReturnedInv'
    <2>1. ASSUME NEW r \in 1 .. Len(records), Due(r)', Untouched(r)'
          PROVE  Returned(r)'
      <3>1. records[r].acked /\ records[r].start >= initial_offset_ /\ records[r].end <= x
        BY <1>2, <1>9, <2>1 DEF Due, Limit
      <3>2. Untouched(r)  BY <1>2, <2>1 DEF Untouched, Hole
      <3>3. y + kBlockSize <= records[r].start \/ records[r].end <= y  BY <3>2 DEF Untouched
      <3>4. records[r].start + kHeaderSize <= records[r].end  BY <1>1, <3>1, AckedEnd
      <3>5. records[r].start \in Int /\ records[r].end \in Int  BY <1>1, Bounds
      <3>6. records[r].end <= Pos
        <4>1. PICK s : s = records[r].start  OBVIOUS
        <4>2. PICK d : d = records[r].end  OBVIOUS
        <4>3. s \in Int /\ d \in Int /\ s + kHeaderSize <= d /\ d <= x
              /\ (y + kBlockSize <= s \/ d <= y)
          BY <3>1, <3>3, <3>4, <3>5, <4>1, <4>2
        <4>4. ~(y + kBlockSize <= s)  BY <1>4, <1>10, <4>3
        <4>5. d <= y /\ y <= Pos /\ Pos \in Int  BY <1>5, <1>6, <4>3, <4>4
        <4>6. d <= Pos  BY <4>3, <4>5
        <4> QED  BY <4>2, <4>6
      <3>7. Due(r)  BY <1>2, <1>5, <3>1, <3>6 DEF Due, Limit
      <3>8. Returned(r)  BY <1>1, <1>2, <3>2, <3>7 DEF ReturnedInv
      <3> QED  BY <1>1, <3>8, ReturnedStays
    <2> QED  BY <1>2, <1>6, <2>1 DEF ReturnedInv
  <1>14. SilentInv'  BY <1>2, <1>6 DEF SilentInv
  <1> QED  BY <1>11, <1>12, <1>13, <1>14

\* Outside the damaged block: what an iteration of ReadRecord does with the
\* physical record P the reader stands at.
Effect(P) ==
    /\ Pos < initial_offset_ => out' = out /\ in_fragmented_record' = FALSE
    /\ ~(Pos < initial_offset_) =>
          /\ P.type = kFullType => out' = Append(out, FragmentOf(P)) /\ in_fragmented_record' = FALSE
          /\ P.type = kFirstType => /\ out' = out /\ scratch' = FragmentOf(P)
                                    /\ in_fragmented_record' = TRUE /\ ~resyncing_'
          /\ Continues(P) /\ resyncing_ =>
                out' = out /\ in_fragmented_record' = in_fragmented_record
          /\ Continues(P) /\ ~resyncing_ /\ ~in_fragmented_record =>
                out' = out /\ in_fragmented_record' = FALSE
          /\ P.type = kMiddleType /\ ~resyncing_ /\ in_fragmented_record =>
                /\ out' = out /\ scratch' = scratch \o FragmentOf(P)
                /\ in_fragmented_record' = TRUE /\ ~resyncing_'
          /\ P.type = kLastType /\ ~resyncing_ /\ in_fragmented_record =>
                out' = Append(out, scratch \o FragmentOf(P)) /\ in_fragmented_record' = FALSE
          /\ ~resyncing_ /\ (in_fragmented_record <=> Continues(P)) /\ ~reported => ~reported'

LEMMA ReadWhole ==
    ASSUME Inv, CompleteInv, Sound, ReadRecord, Outside(Pos)
    PROVE  \E P \in emitted :
              /\ P.start = Pos /\ Whole(P) /\ Effect(P) /\ kHeaderSize + P.n <= Len(buffer_)
              /\ buffer_' = From(buffer_, kHeaderSize + P.n)
  <1>1. /\ TypeOK /\ EmittedInv /\ BlocksInv /\ TilingInv /\ WrittenInv /\ RestInv /\ StandInv
    BY DEF Inv, WriterInv, CompleteInv, Sound, LayoutInv
  <1>2. phase = "read" /\ Len(buffer_) >= kHeaderSize  BY DEF ReadRecord
  <1>3. PICK P \in emitted : P.start = Pos  BY <1>1, <1>2 DEF StandInv
  <1>4. PICK n \in Lengths, t \in Types :
           LET o == ReadPhysicalRecord(t, n)
           IN  /\ o.type # kEof /\ buffer_' = o.rest
               /\ resyncing_' = (resyncing_ /\ o.type = kMiddleType)
               /\ IF resyncing_ /\ o.type \in {kMiddleType, kLastType}
                  THEN UNCHANGED <<out, scratch, in_fragmented_record>>
                  ELSE /\ Interpret(o)
                       /\ reported' = (reported \/ ReportDrop(o.drop, o.rest)
                                                \/ ReportDrop(DroppedBytes(o), o.rest))
    BY DEF ReadRecord
  <1>5. PICK o : o = ReadPhysicalRecord(t, n)  OBVIOUS
  <1>6. /\ o.type # kEof /\ buffer_' = o.rest /\ resyncing_' = (resyncing_ /\ o.type = kMiddleType)
        /\ resyncing_ /\ o.type \in {kMiddleType, kLastType} =>
              out' = out /\ scratch' = scratch /\ in_fragmented_record' = in_fragmented_record
        /\ ~(resyncing_ /\ o.type \in {kMiddleType, kLastType}) =>
              /\ Interpret(o)
              /\ reported' = (reported \/ ReportDrop(o.drop, o.rest)
                                       \/ ReportDrop(DroppedBytes(o), o.rest))
    BY <1>4, <1>5
  <1>7. /\ ~Whole(P) => o.type = kEof
        /\ Whole(P) =>
             /\ kHeaderSize + P.n <= Len(buffer_) /\ o.rest = From(buffer_, kHeaderSize + P.n)
             /\ o.drop = 0
             /\ Pos < initial_offset_ => o.type = kBadRecord /\ o.fragment = <<>>
             /\ ~(Pos < initial_offset_) => o.type = P.type /\ o.fragment = FragmentOf(P)
    BY <1>1, <1>2, <1>3, <1>5, ReadOutside
  <1>8. Whole(P)  BY <1>6, <1>7
  <1>9. P.type \in {kFullType, kFirstType, kMiddleType, kLastType}
    <2>1. P.type \in 1 .. 4  BY <1>1, EmittedNat
    <2> QED  BY <2>1 DEF kFullType, kFirstType, kMiddleType, kLastType
  <1>10. /\ kBadRecord \notin {kFullType, kFirstType, kMiddleType, kLastType}
         /\ kFullType \notin {kFirstType, kMiddleType, kLastType}
         /\ kFirstType \notin {kFullType, kMiddleType, kLastType}
         /\ kMiddleType # kLastType
    BY DEF kBadRecord, kFullType, kFirstType, kMiddleType, kLastType
  <1>11. ASSUME Pos < initial_offset_
         PROVE  out' = out /\ in_fragmented_record' = FALSE
    <2>1. o.type = kBadRecord  BY <1>7, <1>8, <1>11
    <2>2. Interpret(o)  BY <1>6, <1>10, <2>1
    <2> QED  BY <1>10, <2>1, <2>2, InterpretProps
  <1>12. ASSUME ~(Pos < initial_offset_)
         PROVE  /\ P.type = kFullType =>
                     out' = Append(out, FragmentOf(P)) /\ in_fragmented_record' = FALSE
                /\ P.type = kFirstType => /\ out' = out /\ scratch' = FragmentOf(P)
                                          /\ in_fragmented_record' = TRUE /\ ~resyncing_'
                /\ Continues(P) /\ resyncing_ =>
                      out' = out /\ in_fragmented_record' = in_fragmented_record
                /\ Continues(P) /\ ~resyncing_ /\ ~in_fragmented_record =>
                      out' = out /\ in_fragmented_record' = FALSE
                /\ P.type = kMiddleType /\ ~resyncing_ /\ in_fragmented_record =>
                      /\ out' = out /\ scratch' = scratch \o FragmentOf(P)
                      /\ in_fragmented_record' = TRUE /\ ~resyncing_'
                /\ P.type = kLastType /\ ~resyncing_ /\ in_fragmented_record =>
                      out' = Append(out, scratch \o FragmentOf(P)) /\ in_fragmented_record' = FALSE
    <2>1. o.type = P.type /\ o.fragment = FragmentOf(P)  BY <1>7, <1>8, <1>12
    <2>2. CASE P.type = kFullType
      <3>1. Interpret(o)  BY <1>6, <1>10, <2>1, <2>2
      <3>2. out' = Append(out, FragmentOf(P)) /\ in_fragmented_record' = FALSE
        BY <2>1, <2>2, <3>1, InterpretProps
      <3> QED  BY <1>10, <2>2, <3>2 DEF Continues
    <2>3. CASE P.type = kFirstType
      <3>1. Interpret(o) /\ ~resyncing_'  BY <1>6, <1>10, <2>1, <2>3
      <3>2. out' = out /\ scratch' = FragmentOf(P) /\ in_fragmented_record' = TRUE
        BY <2>1, <2>3, <3>1, InterpretProps
      <3> QED  BY <1>10, <2>3, <3>1, <3>2 DEF Continues
    <2>4. CASE P.type = kMiddleType
      <3>1. resyncing_ => out' = out /\ in_fragmented_record' = in_fragmented_record
        BY <1>6, <2>1, <2>4
      <3>2. ASSUME ~resyncing_
            PROVE  /\ ~in_fragmented_record => out' = out /\ in_fragmented_record' = FALSE
                   /\ in_fragmented_record => /\ out' = out /\ scratch' = scratch \o FragmentOf(P)
                                              /\ in_fragmented_record' = TRUE /\ ~resyncing_'
        <4>1. Interpret(o) /\ ~resyncing_'  BY <1>6, <3>2
        <4> QED  BY <2>1, <2>4, <4>1, InterpretProps
      <3> QED  BY <1>10, <2>4, <3>1, <3>2 DEF Continues
    <2>5. CASE P.type = kLastType
      <3>1. resyncing_ => out' = out /\ in_fragmented_record' = in_fragmented_record
        BY <1>6, <2>1, <2>5
      <3>2. ASSUME ~resyncing_
            PROVE  /\ ~in_fragmented_record => out' = out /\ in_fragmented_record' = FALSE
                   /\ in_fragmented_record => /\ out' = Append(out, scratch \o FragmentOf(P))
                                              /\ in_fragmented_record' = FALSE
        <4>1. Interpret(o)  BY <1>6, <3>2
        <4> QED  BY <2>1, <2>5, <4>1, InterpretProps
      <3> QED  BY <1>10, <2>5, <3>1, <3>2 DEF Continues
    <2> QED  BY <1>9, <2>2, <2>3, <2>4, <2>5
  <1>13. ASSUME ~(Pos < initial_offset_), ~resyncing_, in_fragmented_record <=> Continues(P), ~reported
         PROVE  ~reported'
    <2>1. o.type = P.type /\ o.drop = 0  BY <1>7, <1>8, <1>13
    <2>2. DroppedBytes(o) = 0
      <3>1. CASE Continues(P)
        <4>1. o.type \in {kMiddleType, kLastType} /\ in_fragmented_record
              /\ o.type \notin {kFullType, kFirstType, kBadRecord}
          BY <1>10, <1>13, <2>1, <3>1 DEF Continues
        <4> QED  BY <4>1, Zenon DEF DroppedBytes
      <3>2. CASE ~Continues(P)
        <4>1. o.type \in {kFullType, kFirstType, kBadRecord} /\ ~in_fragmented_record
              /\ o.type \notin {kMiddleType, kLastType}
          BY <1>9, <1>10, <1>13, <2>1, <3>2 DEF Continues
        <4> QED  BY <4>1, Zenon DEF DroppedBytes
      <3> QED  BY <3>1, <3>2
    <2>3. reported' = (reported \/ ReportDrop(0, o.rest) \/ ReportDrop(0, o.rest))
      BY <1>6, <1>13, <2>1, <2>2
    <2>4. ~ReportDrop(0, o.rest)  BY DEF ReportDrop
    <2> QED  BY <1>13, <2>3, <2>4, Zenon
  <1>14. Effect(P)  BY <1>11, <1>12, <1>13 DEF Effect
  <1> QED  BY <1>3, <1>6, <1>7, <1>8, <1>14

\* One more record is returned.
LEMMA ListedMore ==
    ASSUME TypeOK, EmittedInv, OrderInv, AckedInv, Listed, NEW P \in emitted, Ends(P),
           phase = "read", NextPos = P.start, records' = records, out' = Append(out, records[P.rec].data),
           Due(P.rec)', \A r \in 1 .. Len(records) : Due(r)' <=> Due(r) \/ r = P.rec
    PROVE  Listed'
  <1>1. PICK L : L = Len(out)  OBVIOUS
  <1>2. PICK d : d = records[P.rec].data  OBVIOUS
  <1>3. L \in Nat /\ out \in Seq(Seq(Cell)) /\ P.rec \in 1 .. Len(records)
    BY <1>1, Numbers, EmittedNat DEF TypeOK
  <1>4. Len(out') = L + 1 /\ out'[L + 1] = d /\ \A j \in 1 .. L : out'[j] = out[j]
    <2>1. out \in Seq(Seq(Cell) \cup {d}) /\ d \in Seq(Cell) \cup {d}
      <3>1. Seq(Cell) \subseteq Seq(Cell) \cup {d}  OBVIOUS
      <3> QED  BY <1>3, <3>1, SeqMonotonic, Zenon
    <2> QED  BY <1>1, <1>2, <2>1, AppendProperties
  <1>5. PICK w \in [1 .. L -> 1 .. Len(records)] :
           /\ \A j \in 1 .. L : Due(w[j]) /\ out[j] = records[w[j]].data
           /\ \A i, j \in 1 .. L : i < j => w[i] < w[j]
           /\ \A r \in 1 .. Len(records) : Due(r) => \E j \in 1 .. L : w[j] = r
    BY <1>1 DEF Listed
  <1>6. ASSUME NEW r \in 1 .. Len(records), Due(r) PROVE r < P.rec
    <2>1. records[r].acked /\ records[r].end <= P.start  BY <1>6 DEF Due, Limit
    <2>2. PICK E \in emitted : E.rec = r /\ Ends(E) /\ records[r].end = EndOf(E)
      BY <2>1, AckedEnd
    <2>3. EndOf(E) \in Nat /\ P.start \in Nat /\ P.rec \in Nat /\ r \in Nat  BY EmittedNat
    <2>4. P.start >= E.start + E.len  BY <2>1, <2>2, <2>3 DEF EndOf
    <2>5. P.rec > E.rec  BY <2>2, <2>4, Later DEF Ends
    <2> QED  BY <2>2, <2>3, <2>5
  <1>7. PICK which : which = [j \in 1 .. L + 1 |-> IF j = L + 1 THEN P.rec ELSE w[j]]  OBVIOUS
  <1>8. which[L + 1] = P.rec /\ \A j \in 1 .. L : which[j] = w[j] /\ w[j] \in 1 .. Len(records)
    <2>1. L + 1 \in 1 .. L + 1 /\ \A j \in 1 .. L : j \in 1 .. L + 1 /\ j # L + 1  BY <1>3
    <2>2. \A j \in 1 .. L : w[j] \in 1 .. Len(records)  BY <1>5
    <2> QED  BY <1>7, <2>1, <2>2
  <1>9. \A j \in 1 .. L + 1 : j \in 1 .. L \/ j = L + 1  BY <1>3
  <1>10. which \in [1 .. L + 1 -> 1 .. Len(records)]
    <2>1. \A j \in 1 .. L + 1 : which[j] \in 1 .. Len(records)  BY <1>3, <1>8, <1>9
    <2>2. which = [j \in 1 .. L + 1 |-> which[j]]  BY <1>7
    <2> QED  BY <2>1, <2>2
  <1>11. ASSUME NEW j \in 1 .. L + 1
         PROVE  Due(which[j])' /\ out'[j] = records'[which[j]].data
    <2>1. CASE j \in 1 .. L
      <3>1. which[j] = w[j] /\ w[j] \in 1 .. Len(records) /\ Due(w[j])
            /\ out'[j] = records[w[j]].data
        BY <1>4, <1>5, <1>8, <2>1
      <3> QED  BY <3>1
    <2>2. CASE j = L + 1
      <3>1. which[j] = P.rec /\ out'[j] = records'[P.rec].data  BY <1>2, <1>4, <1>8, <2>2
      <3> QED  BY <3>1
    <2> QED  BY <1>9, <2>1, <2>2
  <1>12. ASSUME NEW i \in 1 .. L + 1, NEW j \in 1 .. L + 1, i < j
         PROVE  which[i] < which[j]
    <2>1. i \in 1 .. L  BY <1>3, <1>12
    <2>2. which[i] = w[i] /\ w[i] \in 1 .. Len(records) /\ Due(w[i])  BY <1>5, <1>8, <2>1
    <2>3. CASE j \in 1 .. L  BY <1>5, <1>8, <1>12, <2>1, <2>2, <2>3
    <2>4. CASE j = L + 1  BY <1>6, <1>8, <2>2, <2>4
    <2> QED  BY <1>9, <2>3, <2>4
  <1>13. ASSUME NEW r \in 1 .. Len(records), Due(r)'
         PROVE  \E j \in 1 .. L + 1 : which[j] = r
    <2>1. CASE Due(r)
      <3>1. PICK j \in 1 .. L : w[j] = r  BY <1>5, <2>1
      <3>2. j \in 1 .. L + 1 /\ which[j] = r  BY <1>3, <1>8, <3>1
      <3> QED  BY <3>2
    <2>2. CASE r = P.rec
      <3>1. L + 1 \in 1 .. L + 1  BY <1>3
      <3> QED  BY <1>8, <2>2, <3>1
    <2> QED  BY <1>13, <2>1, <2>2
  <1>14. Len(out') = L + 1 /\ Len(records') = Len(records)  BY <1>4
  <1>15. which \in [1 .. Len(out') -> 1 .. Len(records')]  BY <1>10, <1>14
  <1>16. \A j \in 1 .. Len(out') : Due(which[j])' /\ out'[j] = records'[which[j]].data
    BY <1>11, <1>14
  <1>17. \A i, j \in 1 .. Len(out') : i < j => which[i] < which[j]  BY <1>12, <1>14
  <1>18. \A r \in 1 .. Len(records') : Due(r)' => \E j \in 1 .. Len(out') : which[j] = r
    BY <1>13, <1>14
  <1> QED  BY <1>15, <1>16, <1>17, <1>18, Zenon DEF Listed

\* The data of a record, from its first part or from the parts collected.
LEMMA WholeData ==
    ASSUME TypeOK, RecordsInv, EmittedInv, NEW P \in emitted
    PROVE  /\ P.from = 0 => FragmentOf(P) = [k \in 1 .. P.from + P.n |-> Data(P.rec, k)]
           /\ Ends(P) => records[P.rec].data = [k \in 1 .. P.from + P.n |-> Data(P.rec, k)]
           /\ Starts(P) => P.from = 0
           /\ scratch = [k \in 1 .. P.from |-> Data(P.rec, k)] =>
                 scratch \o FragmentOf(P) = [k \in 1 .. P.from + P.n |-> Data(P.rec, k)]
  <1>1. P \in Physical /\ P.n \in Nat /\ P.from \in Nat /\ P.rec \in 1 .. Len(records)  BY EmittedNat
  <1>2. ASSUME P.from = 0
        PROVE  FragmentOf(P) = [k \in 1 .. P.from + P.n |-> Data(P.rec, k)]
    <2>1. FragmentOf(P) = [k \in 1 .. P.n |-> Data(P.rec, P.from + k)]  BY DEF FragmentOf
    <2>2. 0 + P.n = P.n /\ \A k \in 1 .. P.n : 0 + k = k  BY <1>1
    <2> QED  BY <1>2, <2>1, <2>2
  <1>3. ASSUME Ends(P)
        PROVE  records[P.rec].data = [k \in 1 .. P.from + P.n |-> Data(P.rec, k)]
    <2>1. P.from + P.n = Size(P.rec)  BY <1>3 DEF EmittedInv, Ends
    <2>2. records[P.rec].data = [k \in 1 .. Size(P.rec) |-> Data(P.rec, k)]  BY <1>1 DEF RecordsInv
    <2> QED  BY <2>1, <2>2
  <1>4. Starts(P) => P.from = 0  BY DEF EmittedInv, Starts
  <1> QED  BY <1>1, <1>2, <1>3, <1>4, JoinData

LEMMA ReadRecordIntact ==
    ASSUME Inv, CompleteInv, Sound, ReadRecord, Outside(Pos)
    PROVE  StandInv' /\ CollectedInv' /\ ReturnedInv' /\ SilentInv'
  <1>1. /\ TypeOK /\ RecordsInv /\ EmittedInv /\ OrderInv /\ ContInv /\ BlocksInv /\ TilingInv
        /\ AckedInv /\ UnbrokenInv /\ RestInv /\ BufferInv /\ UnreadInv
        /\ CollectedInv /\ ReturnedInv /\ SilentInv
    BY DEF Inv, WriterInv, CompleteInv, Sound, LayoutInv, RestInv
  <1>2. /\ phase = "read" /\ phase' = "read" /\ Len(buffer_) >= kHeaderSize /\ file' = file
        /\ records' = records /\ damage' = damage /\ emitted' = emitted /\ eof_' = eof_
        /\ seam' = seam
        /\ initial_offset_' = initial_offset_ /\ end_of_buffer_offset_' = end_of_buffer_offset_
    BY DEF ReadRecord, writerVars
  <1>3. PICK P \in emitted :
           /\ P.start = Pos /\ Whole(P) /\ Effect(P) /\ kHeaderSize + P.n <= Len(buffer_)
           /\ buffer_' = From(buffer_, kHeaderSize + P.n)
    BY ReadWhole
  <1>4. /\ P.start \in Nat /\ P.len \in Nat /\ P.n \in Nat /\ EndOf(P) \in Nat
        /\ P.rec \in 1 .. Len(records) /\ EndOf(P) <= Len(file) /\ 1 <= P.len
        /\ P.type \in 1 .. 4
    BY <1>1, EmittedNat
  <1>5. /\ kHeaderSize \in Nat /\ kHeaderSize >= 3 /\ kBlockSize \in Nat /\ Len(buffer_) \in Nat
        /\ Len(file) \in Nat /\ initial_offset_ \in Nat
    BY <1>1, Numbers DEF TypeOK
  <1>6. PICK m : m = kHeaderSize + P.n  OBVIOUS
  <1>7. m \in kHeaderSize .. Len(buffer_)  BY <1>3, <1>4, <1>5, <1>6
  <1>8. /\ BufferInv' /\ Len(buffer_') = Len(buffer_) - m /\ Pos' = Pos + m
        /\ Pos \in Nat /\ Pos' \in Nat
    BY <1>1, <1>2, <1>3, <1>6, <1>7, BufferShift
  <1>9. PICK e : e = EndOf(P)  OBVIOUS
  <1>10. Pos' = e /\ e = P.start + m /\ e \in Nat
    BY <1>3, <1>4, <1>6, <1>8, <1>9 DEF EndOf, Whole
  <1>11. PICK b : b = end_of_buffer_offset_  OBVIOUS
  <1>12. NextPos = Pos /\ b \in Nat /\ b = Pos + Len(buffer_) /\ b = e + Len(buffer_')
    <2>1. NextPos = Pos /\ b \in Nat /\ b = Pos + Len(buffer_)  BY <1>1, <1>2, <1>11, Places
    <2> QED  BY <1>3, <1>5, <1>7, <1>8, <1>10, <2>1
  <1>13. b <= Len(file) /\ \E y \in Int : In(Pos, y) /\ b <= y + kBlockSize
    <2>1. buffer_ # <<>>
      <3>1. Len(buffer_) # 0  BY <1>2, <1>5
      <3> QED  BY <3>1
    <2> QED  BY <1>1, <1>2, <1>11, <2>1 DEF RestInv, BufferInv
  <1>14. PICK x : x = NextPos'  OBVIOUS
  <1>15. /\ x \in Nat /\ e <= x /\ x < e + kHeaderSize /\ x <= b
         /\ Len(buffer_') >= kHeaderSize => x = e
    <2>1. x = IF Len(buffer_') >= kHeaderSize THEN e ELSE b
      BY <1>2, <1>10, <1>11, <1>14 DEF NextPos
    <2>2. Len(buffer_') \in Int /\ Len(buffer_') >= 0  BY <1>5, <1>7, <1>8
    <2> QED  BY <1>5, <1>10, <1>12, <2>1, <2>2
  <1>16. P.type \in {kFullType, kFirstType, kMiddleType, kLastType}
    BY <1>4 DEF kFullType, kFirstType, kMiddleType, kLastType
  <1>17. /\ P.type = kFirstType => Starts(P) /\ ~Ends(P) /\ ~Continues(P) /\ Goes(P)
         /\ P.type = kFullType => Starts(P) /\ Ends(P) /\ ~Continues(P) /\ ~Goes(P)
         /\ P.type = kMiddleType => Continues(P) /\ ~Ends(P) /\ Goes(P)
         /\ P.type = kLastType => Continues(P) /\ Ends(P) /\ ~Goes(P)
    BY DEF Starts, Ends, Continues, Goes, kFullType, kFirstType, kMiddleType, kLastType
  <1>18. /\ 0 <= records[P.rec].start /\ records[P.rec].start <= P.start
         /\ Starts(P) => records[P.rec].start = P.start
         /\ records[P.rec].start \in Int
    BY <1>1, <1>4, Bounds DEF AckedInv
  \* What CollectedInv says of P itself.
  <1>19. Continues(P) =>
            /\ Fresh(P) => /\ in_fragmented_record /\ ~resyncing_
                           /\ scratch = [k \in 1 .. P.from |-> Data(P.rec, k)]
            /\ damage = 0 /\ in_fragmented_record => records[P.rec].start >= initial_offset_
    BY <1>1, <1>2, <1>3, <1>12 DEF CollectedInv
  <1>20. records[P.rec].start >= initial_offset_ => ~(Pos < initial_offset_)
    BY <1>3, <1>4, <1>5, <1>18
  <1>21. StandInv'
    <2> SUFFICES ASSUME Len(buffer_') >= kHeaderSize PROVE \E Q \in emitted : Q.start = e
      BY <1>2, <1>10 DEF StandInv
    <2>1. e + kHeaderSize <= b  BY <1>5, <1>7, <1>8, <1>10, <1>12
    <2>2. e # Len(file)  BY <1>5, <1>10, <1>12, <1>13, <2>1
    <2>3. ASSUME NEW z \in Int, Aligned(z), e < z, z < e + kHeaderSize PROVE FALSE
      <3>1. PICK y \in Int : In(Pos, y) /\ b <= y + kBlockSize  BY <1>13
      <3>2. Aligned(y) /\ y <= Pos  BY <3>1 DEF In
      <3>4. Pos < e /\ Pos \in Int /\ e \in Int /\ b \in Int /\ kBlockSize \in Int
        BY <1>3, <1>5, <1>7, <1>8, <1>10, <1>12
      <3>5. y < z  BY <2>3, <3>2, <3>4
      <3>6. z < b  BY <1>5, <2>1, <2>3, <3>4
      <3>3. y < z /\ z < y + kBlockSize  BY <3>1, <3>4, <3>5, <3>6
      <3> QED  BY <2>3, <3>2, <3>3, NoneBetween
    <2> QED  BY <1>1, <1>3, <1>9, <2>2, <2>3 DEF TilingInv
  <1>22. CollectedInv'
    <2> SUFFICES ASSUME NEW Q \in emitted, Q.start = x, Continues(Q)
                 PROVE  /\ Fresh(Q)' => /\ in_fragmented_record' /\ ~resyncing_'
                                        /\ scratch' = [k \in 1 .. Q.from |-> Data(Q.rec, k)]
                        /\ damage = 0 /\ in_fragmented_record' =>
                              records[Q.rec].start >= initial_offset_
      BY <1>2, <1>14 DEF CollectedInv
    <2>1. Goes(P) /\ Q.start = EndOf(P) /\ Q.rec = P.rec /\ Q.from = P.from + P.n
      BY <1>1, <1>3, <1>9, <1>15, FollowPart
    <2>2. P.type = kFirstType \/ P.type = kMiddleType  BY <2>1 DEF Goes
    <2>3. ASSUME Fresh(Q)'
          PROVE  /\ in_fragmented_record' /\ ~resyncing_'
                 /\ scratch' = [k \in 1 .. Q.from |-> Data(Q.rec, k)]
      <3>1. /\ records[P.rec].start >= initial_offset_
            /\ \A y \in Int : Hole(y) => y + kBlockSize <= records[P.rec].start \/ Q.start < y
        BY <1>2, <2>1, <2>3 DEF Fresh, Hole
      <3>2. ~(Pos < initial_offset_)  BY <1>20, <3>1
      <3>3. CASE P.type = kFirstType
        <4>1. /\ scratch' = FragmentOf(P) /\ in_fragmented_record' = TRUE /\ ~resyncing_'
          BY <1>3, <3>2, <3>3 DEF Effect
        <4>2. FragmentOf(P) = [k \in 1 .. P.from + P.n |-> Data(P.rec, k)]
          BY <1>1, <1>17, <3>3, WholeData
        <4> QED  BY <2>1, <4>1, <4>2
      <3>4. CASE P.type = kMiddleType
        <4>1. Fresh(P)
          <5>1. ASSUME NEW y \in Int, Q.start < y PROVE P.start < y
            BY <1>4, <1>5, <1>9, <1>10, <1>7, <2>1, <5>1
          <5> QED  BY <3>1, <5>1 DEF Fresh
        <4>2. /\ in_fragmented_record /\ ~resyncing_
              /\ scratch = [k \in 1 .. P.from |-> Data(P.rec, k)]
          BY <1>17, <1>19, <3>4, <4>1
        <4>3. /\ scratch' = scratch \o FragmentOf(P) /\ in_fragmented_record' = TRUE /\ ~resyncing_'
          BY <1>3, <3>2, <3>4, <4>2 DEF Effect
        <4>4. scratch \o FragmentOf(P) = [k \in 1 .. P.from + P.n |-> Data(P.rec, k)]
          BY <1>1, <4>2, WholeData
        <4> QED  BY <2>1, <4>3, <4>4
      <3> QED  BY <2>2, <3>3, <3>4
    <2>4. ASSUME damage = 0, in_fragmented_record'
          PROVE  records[P.rec].start >= initial_offset_
      <3>1. ~(Pos < initial_offset_)  BY <1>3, <2>4 DEF Effect
      <3>2. CASE P.type = kFirstType
        BY <1>3, <1>4, <1>5, <1>17, <1>18, <3>1, <3>2
      <3>3. CASE P.type = kMiddleType
        <4>1. in_fragmented_record  BY <1>3, <1>17, <2>4, <3>1, <3>3 DEF Effect
        <4> QED  BY <1>17, <1>19, <2>4, <3>3, <4>1
      <3> QED  BY <2>2, <3>2, <3>3
    <2> QED  BY <2>1, <2>3, <2>4
  <1>23. ASSUME Ends(P), records[P.rec].start >= initial_offset_, Untouched(P.rec)
         PROVE  out' = Append(out, records[P.rec].data)
    <2>1. ~(Pos < initial_offset_)  BY <1>20, <1>23
    <2>2. records[P.rec].data = [k \in 1 .. P.from + P.n |-> Data(P.rec, k)]
      BY <1>1, <1>23, WholeData
    <2>3. CASE P.type = kFullType
      <3>1. out' = Append(out, FragmentOf(P))  BY <1>3, <2>1, <2>3 DEF Effect
      <3>2. FragmentOf(P) = [k \in 1 .. P.from + P.n |-> Data(P.rec, k)]
        BY <1>1, <1>17, <2>3, WholeData
      <3> QED  BY <2>2, <3>1, <3>2
    <2>4. CASE P.type = kLastType
      <3>1. Fresh(P)
        <4>1. records[P.rec].end = e
          <5>1. e <= e /\ e < e + kHeaderSize /\ e \in Int  BY <1>5, <1>10
          <5> QED  BY <1>1, <1>3, <1>4, <1>9, <1>23, <5>1, DueStep
        <4>2. ASSUME NEW y \in Int, Hole(y)
              PROVE  y + kBlockSize <= records[P.rec].start \/ P.start < y
          <5>1. y + kBlockSize <= records[P.rec].start \/ e <= y
            BY <1>23, <4>1, <4>2 DEF Untouched
          <5> QED  BY <1>4, <1>5, <1>7, <1>10, <5>1
        <4> QED  BY <1>23, <4>2 DEF Fresh
      <3>2. /\ in_fragmented_record /\ ~resyncing_
            /\ scratch = [k \in 1 .. P.from |-> Data(P.rec, k)]
        BY <1>17, <1>19, <2>4, <3>1
      <3>3. out' = Append(out, scratch \o FragmentOf(P))
        BY <1>3, <2>1, <2>4, <3>2 DEF Effect
      <3>4. scratch \o FragmentOf(P) = [k \in 1 .. P.from + P.n |-> Data(P.rec, k)]
        BY <1>1, <3>2, WholeData
      <3> QED  BY <2>2, <3>3, <3>4
    <2> QED  BY <1>16, <1>17, <1>23, <2>3, <2>4
  <1>24. ASSUME damage = 0, ~(Ends(P) /\ records[P.rec].start >= initial_offset_)
         PROVE  out' = out
    <2>1. CASE Pos < initial_offset_  BY <1>3, <2>1 DEF Effect
    <2>2. CASE ~(Pos < initial_offset_)
      <3>1. CASE P.type = kFullType
        BY <1>3, <1>4, <1>5, <1>17, <1>18, <1>24, <2>2, <3>1
      <3>2. CASE P.type = kFirstType  BY <1>3, <2>2, <3>2 DEF Effect
      <3>3. CASE P.type = kMiddleType  BY <1>3, <1>17, <2>2, <3>3 DEF Effect
      <3>4. CASE P.type = kLastType
        <4>1. ~in_fragmented_record  BY <1>17, <1>19, <1>24, <3>4
        <4> QED  BY <1>3, <1>17, <2>2, <3>4, <4>1 DEF Effect
      <3> QED  BY <1>16, <3>1, <3>2, <3>3, <3>4
    <2> QED  BY <2>1, <2>2
  <1>25. ASSUME NEW r \in 1 .. Len(records)
         PROVE  Due(r)' <=> \/ Due(r)
                            \/ /\ r = P.rec /\ Ends(P)
                               /\ records[r].start >= initial_offset_
    <2>1. Due(r) <=> /\ records[r].acked /\ records[r].start >= initial_offset_
                     /\ records[r].end <= P.start
      BY <1>2, <1>3, <1>12 DEF Due, Limit
    <2>2. Due(r)' <=> /\ records[r].acked /\ records[r].start >= initial_offset_
                      /\ records[r].end <= x
      BY <1>2, <1>14 DEF Due, Limit
    <2>3. /\ records[r].acked /\ records[r].end <= x =>
                records[r].end <= P.start \/ (r = P.rec /\ Ends(P))
          /\ records[r].end <= P.start => records[r].end <= x
          /\ r = P.rec /\ Ends(P) => records[r].acked /\ records[r].end = e
      <3>1. x \in Int  BY <1>15
      <3> QED  BY <1>1, <1>3, <1>9, <1>15, <3>1, DueStep
    <2> QED  BY <1>15, <2>1, <2>2, <2>3
  <1>26. ReturnedInv'
    <2>1. ASSUME NEW r \in 1 .. Len(records), Due(r)', Untouched(r)'
          PROVE  Returned(r)'
      <3>1. Untouched(r)  BY <1>2, <2>1 DEF Untouched, Hole
      <3>2. CASE Due(r)
        <4>1. Returned(r)  BY <1>1, <1>2, <3>1, <3>2 DEF ReturnedInv
        <4> QED  BY <1>1, <4>1, ReturnedStays
      <3>3. CASE r = P.rec /\ Ends(P) /\ records[r].start >= initial_offset_
        <4>1. PICK d : d = records[r].data  OBVIOUS
        <4>2. out' = Append(out, d)  BY <1>23, <3>1, <3>3, <4>1
        <4>3. out \in Seq(Seq(Cell) \cup {d}) /\ d \in Seq(Cell) \cup {d}
          <5>1. Seq(Cell) \subseteq Seq(Cell) \cup {d} /\ out \in Seq(Seq(Cell))  BY <1>1 DEF TypeOK
          <5> QED  BY <5>1, SeqMonotonic, Zenon
        <4>4. Len(out') = Len(out) + 1 /\ out'[Len(out) + 1] = d  BY <4>2, <4>3, AppendProperties
        <4>5. Len(out) + 1 \in 1 .. Len(out')
          <5>1. Len(out) \in Nat  BY <1>1, Numbers
          <5> QED  BY <4>4, <5>1
        <4> QED  BY <1>2, <4>1, <4>4, <4>5 DEF Returned
      <3> QED  BY <1>25, <2>1, <3>2, <3>3
    <2>2. ASSUME damage = 0 PROVE Listed'
      <3>1. Listed  BY <1>1, <1>2, <2>2 DEF ReturnedInv
      <3>2. CASE Ends(P) /\ records[P.rec].start >= initial_offset_
        <4>1. Untouched(P.rec)  BY <2>2 DEF Untouched, Hole
        <4>2. out' = Append(out, records[P.rec].data)  BY <1>23, <3>2, <4>1
        <4>3. \A r \in 1 .. Len(records) : Due(r)' <=> Due(r) \/ r = P.rec  BY <1>25, <3>2
        <4>4. Due(P.rec)'  BY <1>4, <4>3
        <4> QED  BY <1>1, <1>2, <1>3, <1>12, <3>1, <3>2, <4>2, <4>3, <4>4, ListedMore
      <3>3. CASE ~(Ends(P) /\ records[P.rec].start >= initial_offset_)
        <4>1. out' = out  BY <1>24, <2>2, <3>3
        <4>2. \A r \in 1 .. Len(records) : Due(r)' <=> Due(r)  BY <1>25, <3>3
        <4>3. ReturnedInv'  BY <1>1, <1>2, <4>1, <4>2, SameDue
        <4> QED  BY <1>2, <2>2, <4>3 DEF ReturnedInv
      <3> QED  BY <3>2, <3>3
    <2> QED  BY <1>2, <2>1, <2>2 DEF ReturnedInv
  <1>27. SilentInv'
    <2> SUFFICES ASSUME initial_offset_ = 0, seam = "none", damage = 0
                 PROVE  /\ ~reported'
                        /\ in_fragmented_record' =>
                              \A Q \in emitted : Q.start = x => Continues(Q)
      BY <1>2, <1>14 DEF SilentInv
    <2>1. ~resyncing_ /\ ~reported /\ (in_fragmented_record => Continues(P))
      BY <1>1, <1>2, <1>3, <1>12 DEF SilentInv, UnreadInv
    <2>2. Continues(P) => in_fragmented_record
      <3>1. Fresh(P)  BY <1>18 DEF Fresh, Hole
      <3> QED  BY <1>19, <3>1
    <2>3. ~(Pos < initial_offset_)  BY <1>8
    <2>4. ~reported'  BY <1>3, <2>1, <2>2, <2>3 DEF Effect
    <2>5. ASSUME in_fragmented_record', NEW Q \in emitted, Q.start = x
          PROVE  Continues(Q)
      <3>1. Goes(P)
        <4>1. CASE P.type = kFullType  BY <1>3, <2>3, <2>5, <4>1 DEF Effect
        <4>2. CASE P.type = kLastType  BY <1>3, <1>17, <2>1, <2>2, <2>3, <2>5, <4>2 DEF Effect
        <4> QED  BY <1>16, <1>17, <4>1, <4>2
      <3>2. Q.start \in Nat /\ Q.len \in Nat /\ 1 <= Q.len /\ EndOf(Q) <= Len(file)
        BY <1>1, EmittedNat
      <3>3. Q.start < Len(file)  BY <1>5, <3>2 DEF EndOf
      <3>4. e # Len(file)  BY <1>5, <1>10, <1>15, <2>5, <3>2, <3>3
      <3>5. PICK D \in emitted : D.start = e /\ Continues(D)
        BY <1>1, <1>3, <1>9, <3>1, <3>4 DEF UnbrokenInv
      <3>6. D = Q \/ EndOf(D) <= Q.start \/ EndOf(Q) <= D.start  BY <1>1, Apart
      <3>7. ~(EndOf(Q) <= D.start)  BY <1>10, <1>15, <2>5, <3>2, <3>5 DEF EndOf
      <3>8. ~(EndOf(D) <= Q.start)
        <4>1. Whole(D) \/ EndOf(D) = Len(file)  BY <1>1 DEF TilingInv
        <4>2. D.n \in Nat /\ EndOf(D) \in Nat  BY <1>1, EmittedNat
        <4>3. Whole(D) => EndOf(D) = e + (kHeaderSize + D.n)  BY <3>5 DEF EndOf, Whole
        <4>4. Q.start < e + kHeaderSize  BY <1>15, <2>5
        <4>5. CASE Whole(D)
          <5>1. EndOf(D) = e + (kHeaderSize + D.n)  BY <4>3, <4>5
          <5>2. e \in Int /\ kHeaderSize \in Int /\ D.n \in Int /\ D.n >= 0 /\ Q.start \in Int
            BY <1>5, <1>10, <3>2, <4>2
          <5>3. PICK s : s = Q.start  OBVIOUS
          <5>4. s < e + (kHeaderSize + D.n)  BY <4>4, <5>2, <5>3
          <5> QED  BY <5>1, <5>2, <5>3, <5>4
        <4>6. CASE EndOf(D) = Len(file)  BY <1>5, <3>2, <3>3, <4>6
        <4> QED  BY <4>1, <4>5, <4>6
      <3> QED  BY <3>5, <3>6, <3>7, <3>8
    <2> QED  BY <2>4, <2>5
  <1> QED  BY <1>21, <1>22, <1>26, <1>27

LEMMA ReadRecordComplete ==
    ASSUME Inv, CompleteInv, ReadRecord
    PROVE  CompleteInv'
  <1>1. TypeOK /\ LayoutInv /\ WrittenInv /\ RestInv /\ BufferInv /\ UnreadInv
    BY DEF Inv, CompleteInv, RestInv
  <1>2. /\ phase = "read" /\ phase' = "read" /\ Len(buffer_) >= kHeaderSize /\ UNCHANGED writerVars
        /\ initial_offset_' = initial_offset_ /\ end_of_buffer_offset_' = end_of_buffer_offset_
        /\ eof_' = eof_
    BY DEF ReadRecord
  <1>3. /\ file' = file /\ damage' = damage /\ seam' = seam  BY <1>2 DEF writerVars
  <1>4. PICK m \in kHeaderSize .. Len(buffer_) : buffer_' = From(buffer_, m)
    BY <1>1, ReadRecordProps
  <1>5. /\ BufferInv' /\ Len(buffer_') = Len(buffer_) - m /\ Pos' = Pos + m
        /\ Pos \in Nat /\ Pos' \in Nat
    BY <1>1, <1>2, <1>3, <1>4, BufferShift
  <1>6. LayoutInv' /\ WrittenInv'  BY <1>1, <1>2, ReaderStill
  <1>7. UnreadInv'
    <2>1. resyncing_' => resyncing_  BY <1>1, ReadRecordProps
    <2> QED  BY <1>1, <1>2, <2>1 DEF UnreadInv
  <1>8. /\ kHeaderSize \in Nat /\ kHeaderSize >= 3 /\ kBlockSize \in Nat /\ Len(buffer_) \in Nat
    BY <1>1, Numbers
  <1>9. PICK e : e = end_of_buffer_offset_  OBVIOUS
  <1>10. e = Pos + Len(buffer_) /\ e \in Nat  BY <1>1, <1>9, Places
  <1>11. RestInv'
    <2>1. ASSUME buffer_' # <<>>
          PROVE  \E y \in Int : In(Pos', y) /\ e <= y + kBlockSize
      <3>1. buffer_ # <<>>
        <4>1. Len(buffer_) # 0  BY <1>2, <1>8
        <4> QED  BY <4>1
      <3>2. PICK y \in Int : In(Pos, y) /\ e <= y + kBlockSize
        BY <1>1, <1>2, <1>9, <3>1 DEF RestInv
      <3>3. Len(buffer_') > 0
        <4>1. buffer_' \in Seq(Cell)
          <5>1. buffer_ \in Seq(Cell) /\ m \in 0 .. Len(buffer_)  BY <1>1, <1>8 DEF TypeOK
          <5> QED  BY <1>4, <5>1, FromProps
        <4>2. Len(buffer_') # 0  BY <2>1, <4>1, EmptySeq, Zenon
        <4> QED  BY <1>5, <1>8, <4>2
      <3>4. Aligned(y) /\ y <= Pos  BY <3>2 DEF In
      <3>5. In(Pos', y)  BY <1>5, <1>8, <1>10, <3>2, <3>3, <3>4 DEF In
      <3> QED  BY <3>2, <3>5
    <2>2. eof_' => e >= Len(file')  BY <1>1, <1>2, <1>3, <1>9 DEF RestInv
    <2> QED  BY <1>2, <1>5, <1>9, <2>1, <2>2 DEF RestInv
  <1>12. ASSUME Sound'
         PROVE  StandInv' /\ CollectedInv' /\ ReturnedInv' /\ SilentInv'
    <2>1. Sound  BY <1>3, <1>12 DEF Sound
    <2>2. CASE Outside(Pos)  BY <2>1, <2>2, ReadRecordIntact
    <2>3. CASE ~Outside(Pos)
      <3>1. PICK y \in Int : Hole(y) /\ In(Pos, y)  BY <2>3 DEF Outside
      <3> QED  BY <1>5, <1>11, <2>1, <3>1, ReadRecordDamaged
    <2> QED  BY <2>2, <2>3
  <1> QED  BY <1>6, <1>7, <1>11, <1>12 DEF CompleteInv

\* The end of the file is reached only when all of it was read.
LEMMA EofRead ==
    ASSUME TypeOK, Len(buffer_) >= kHeaderSize, NEW n \in Lengths, NEW t \in Types,
           ReadPhysicalRecord(t, n).type = kEof
    PROVE  eof_
  <1>1. n \in Nat /\ t \in 0 .. 4 /\ kHeaderSize \in Nat /\ Len(buffer_) \in Nat
    BY HeaderValues, Numbers
  <1>2. PICK o : o = ReadPhysicalRecord(t, n)  OBVIOUS
  <1>3. CASE kHeaderSize + n > Len(buffer_)
    <2>1. ~(kHeaderSize + n <= Len(buffer_))  BY <1>1, <1>3
    <2>2. o = IF eof_ THEN Outcome(kEof, <<>>, <<>>, 0)
              ELSE Outcome(kBadRecord, <<>>, <<>>, Len(buffer_))
      BY <1>2, <1>3, <2>1, Zenon DEF ReadPhysicalRecord
    <2>3. Outcome(kBadRecord, <<>>, <<>>, Len(buffer_)).type # kEof  BY DEF Outcome, kBadRecord, kEof
    <2> QED  BY <1>2, <2>2, <2>3
  <1>4. CASE ~(kHeaderSize + n > Len(buffer_))
    <2>1. kHeaderSize + n <= Len(buffer_)  BY <1>1, <1>4
    <2> DEFINE r == From(buffer_, kHeaderSize + n)
               f == SubSeq(buffer_, kHeaderSize + 1, kHeaderSize + n)
    <2>2. \/ o = Outcome(kBadRecord, <<>>, <<>>, 0)
          \/ o = Outcome(kBadRecord, <<>>, <<>>, Len(buffer_))
          \/ o = Outcome(kBadRecord, <<>>, r, 0)
          \/ o = Outcome(t, f, r, 0)
      <3>1. CASE t = kZeroType /\ n = 0
        BY <1>2, <1>4, <2>1, <3>1, Zenon DEF ReadPhysicalRecord
      <3>2. CASE ~(t = kZeroType /\ n = 0)
        <4>1. o = CASE ~CrcMatches(t, f) -> Outcome(kBadRecord, <<>>, <<>>, Len(buffer_))
                    [] CrcMatches(t, f) /\ end_of_buffer_offset_ - Len(buffer_) < initial_offset_ ->
                          Outcome(kBadRecord, <<>>, r, 0)
                    [] OTHER -> Outcome(t, f, r, 0)
          BY <1>2, <1>4, <2>1, <3>2, Zenon DEF ReadPhysicalRecord
        <4> QED  BY <4>1, Zenon
      <3> QED  BY <3>1, <3>2
    <2>3. o.type = kBadRecord \/ o.type = t  BY <2>2 DEF Outcome
    <2> QED  BY <1>1, <1>2, <2>3 DEF kBadRecord, kEof
  <1> QED  BY <1>3, <1>4

LEMMA ReadEofComplete ==
    ASSUME Inv, CompleteInv, ReadEof
    PROVE  CompleteInv'
  <1>1. /\ TypeOK /\ EmittedInv /\ OrderInv /\ LayoutInv /\ WrittenInv /\ RestInv /\ BufferInv
        /\ UnreadInv
    BY DEF Inv, WriterInv, CompleteInv, RestInv
  <1>2. /\ phase = "read" /\ phase' = "done" /\ buffer_' = <<>>
        /\ in_fragmented_record' = FALSE /\ UNCHANGED writerVars
        /\ initial_offset_' = initial_offset_ /\ out' = out /\ reported' = reported
        /\ end_of_buffer_offset_' = end_of_buffer_offset_ /\ resyncing_' = resyncing_
    BY DEF ReadEof
  <1>3. /\ file' = file /\ records' = records /\ damage' = damage /\ seam' = seam
        /\ emitted' = emitted
    BY <1>2 DEF writerVars
  <1>4. LayoutInv' /\ WrittenInv'  BY <1>1, <1>2, ReaderStill
  <1>5. UnreadInv'  BY <1>1, <1>2 DEF UnreadInv
  <1>6. RestInv'
    <2>1. Len(buffer_') = 0 /\ end_of_buffer_offset_' \in Nat  BY <1>1, <1>2 DEF TypeOK
    <2>2. \A k \in 1 .. 0 : buffer_'[k] = file'[Pos' + k]  OBVIOUS
    <2>3. BufferInv'  BY <1>2, <2>1, <2>2 DEF BufferInv
    <2> QED  BY <1>2, <2>3 DEF RestInv
  <1>7. ASSUME Sound'
        PROVE  StandInv' /\ CollectedInv' /\ ReturnedInv' /\ SilentInv'
    <2>1. Sound  BY <1>3, <1>7 DEF Sound
    <2>2. StandInv /\ ReturnedInv /\ SilentInv /\ BlocksInv /\ TilingInv /\ AckedInv
      BY <1>1, <2>1 DEF CompleteInv, Sound, LayoutInv
    <2>3. StandInv' /\ CollectedInv'  BY <1>2 DEF StandInv, CollectedInv
    <2>4. SilentInv'  BY <1>2, <1>3, <2>2 DEF SilentInv
    <2>5. /\ kHeaderSize \in Nat /\ kHeaderSize >= 3 /\ kBlockSize \in Nat /\ Len(file) \in Nat
          /\ Len(buffer_) \in Nat
      BY <1>1, Numbers
    <2>6. Pos \in Nat /\ NextPos \in Nat /\ (Len(buffer_) >= kHeaderSize => NextPos = Pos)
          /\ (Len(buffer_) < kHeaderSize => NextPos = end_of_buffer_offset_)
          /\ NextPos <= end_of_buffer_offset_ /\ end_of_buffer_offset_ \in Nat
      BY <1>1, Places
    <2>7. ASSUME NEW r \in 1 .. Len(records)
          PROVE  /\ Due(r) <=> /\ records[r].acked /\ records[r].start >= initial_offset_
                               /\ records[r].end <= NextPos
                 /\ Due(r)' <=> /\ records[r].acked /\ records[r].start >= initial_offset_
                                /\ records[r].end <= Len(file)
                 /\ records[r].end \in Int /\ records[r].start \in Int
                 /\ records[r].acked =>
                       records[r].end <= Len(file) /\ records[r].start <= records[r].end
      <3>1. records[r].end \in Int /\ records[r].start \in Int  BY <1>1, Bounds
      <3>2. ASSUME records[r].acked
            PROVE  records[r].end <= Len(file) /\ records[r].start <= records[r].end
        <4>1. PICK E \in emitted : /\ records[r].end = EndOf(E)
                                   /\ records[r].start + kHeaderSize <= records[r].end
          BY <1>1, <2>2, <3>2, AckedEnd
        <4>2. EndOf(E) <= Len(file)  BY <1>1, EmittedNat
        <4> QED  BY <2>5, <3>1, <4>1, <4>2
      <3> QED  BY <1>2, <1>3, <3>1, <3>2 DEF Due, Limit
    <2>8. ASSUME \A r \in 1 .. Len(records) : records[r].acked => records[r].end <= NextPos
          PROVE  ReturnedInv'
      <3>1. \A r \in 1 .. Len(records) : Due(r)' <=> Due(r)  BY <2>7, <2>8
      <3> QED  BY <1>2, <1>3, <2>2, <3>1, SameDue
    <2>9. CASE Len(buffer_) < kHeaderSize
      <3>1. eof_  BY <2>5, <2>9 DEF ReadEof
      <3>2. NextPos >= Len(file)  BY <1>1, <1>2, <2>6, <2>9, <3>1 DEF RestInv
      <3>3. \A r \in 1 .. Len(records) : records[r].acked => records[r].end <= NextPos
        BY <2>5, <2>6, <2>7, <3>2
      <3> QED  BY <2>3, <2>4, <2>8, <3>3
    <2>10. CASE Len(buffer_) >= kHeaderSize
      <3>1. PICK n \in Lengths, t \in Types : ReadPhysicalRecord(t, n).type = kEof
        BY <2>5, <2>10 DEF ReadEof
      <3>2. eof_  BY <1>1, <2>10, <3>1, EofRead
      <3>3. NextPos = Pos  BY <2>6, <2>10
      <3>4. CASE Outside(Pos)
        \* The last physical record is torn.
        <4>1. PICK P \in emitted : P.start = Pos  BY <1>2, <2>2, <2>10, <3>4 DEF StandInv
        <4>2. ~Whole(P) /\ EndOf(P) = Len(file)
          <5>1. PICK o : o = ReadPhysicalRecord(t, n)  OBVIOUS
          <5>2. o.type = kEof  BY <3>1, <5>1
          <5>3. /\ ~Whole(P) => o.type = kEof /\ EndOf(P) = Len(file)
                /\ Whole(P) => o.type = kBadRecord \/ o.type = P.type
            BY <1>1, <1>2, <2>2, <2>10, <3>4, <4>1, <5>1, ReadOutside
          <5>4. P.type \in 1 .. 4  BY <1>1, EmittedNat
          <5>5. kBadRecord # kEof /\ P.type # kEof  BY <5>4 DEF kBadRecord, kEof
          <5> QED  BY <5>2, <5>3, <5>5
        <4>3. ASSUME NEW r \in 1 .. Len(records), records[r].acked
              PROVE  records[r].end <= NextPos
          <5>1. PICK E \in emitted : Whole(E) /\ records[r].end = EndOf(E)
            BY <1>1, <2>2, <4>3, AckedEnd
          <5>2. E = P \/ EndOf(E) <= P.start \/ EndOf(P) <= E.start  BY <1>1, Apart
          <5>3. E # P  BY <4>2, <5>1
          <5>4. ~(EndOf(P) <= E.start)
            <6>1. E.start \in Nat /\ E.len \in Nat /\ 1 <= E.len /\ EndOf(E) <= Len(file)
              BY <1>1, EmittedNat
            <6> QED  BY <2>5, <4>2, <6>1 DEF EndOf
          <5> QED  BY <3>3, <4>1, <5>1, <5>2, <5>3, <5>4
        <4> QED  BY <2>3, <2>4, <2>8, <4>3
      <3>5. CASE ~Outside(Pos)
        <4>1. PICK y \in Int : Hole(y) /\ In(Pos, y)  BY <3>5 DEF Outside
        <4>2. damage # 0 /\ y <= Pos  BY <4>1 DEF Hole, In
        <4>3. Len(file) <= y + kBlockSize
          <5>1. buffer_ # <<>>
            <6>1. Len(buffer_) # 0  BY <2>5, <2>10
            <6> QED  BY <6>1
          <5>2. PICK z \in Int : In(Pos, z) /\ end_of_buffer_offset_ <= z + kBlockSize
            BY <1>1, <1>2, <5>1 DEF RestInv
          <5>3. z = y  BY <2>6, <4>1, <5>2, InUnique
          <5>4. end_of_buffer_offset_ >= Len(file)  BY <1>1, <1>2, <3>2 DEF RestInv
          <5> QED  BY <2>5, <2>6, <5>2, <5>3, <5>4
        <4>4. ASSUME NEW r \in 1 .. Len(records), Due(r)', Untouched(r)'
              PROVE  Returned(r)'
          <5>1. Untouched(r)  BY <1>3, <4>4 DEF Untouched, Hole
          <5>2. y + kBlockSize <= records[r].start \/ records[r].end <= y
            BY <4>1, <5>1 DEF Untouched
          <5>3. records[r].acked /\ records[r].start >= initial_offset_  BY <2>7, <4>4
          <5>4. records[r].start + kHeaderSize <= records[r].end
            BY <1>1, <2>2, <5>3, AckedEnd
          <5>5. records[r].end <= Pos  BY <2>5, <2>6, <2>7, <4>2, <4>3, <5>2, <5>3, <5>4
          <5>6. Due(r)  BY <2>7, <3>3, <5>3, <5>5
          <5>7. Returned(r)  BY <1>2, <2>2, <5>1, <5>6 DEF ReturnedInv
          <5> QED  BY <1>2, <1>3, <5>7 DEF Returned
        <4>5. ReturnedInv'  BY <1>3, <4>2, <4>4 DEF ReturnedInv
        <4> QED  BY <2>3, <2>4, <4>5
      <3> QED  BY <3>4, <3>5
    <2> QED  BY <2>5, <2>9, <2>10
  <1> QED  BY <1>4, <1>5, <1>6, <1>7 DEF CompleteInv

-----------------------------------------------------------------------------
(* Nothing is missing: the theorems.                                        *)

LEMMA InitComplete ==
  Init => CompleteInv
  <1> SUFFICES ASSUME Init PROVE CompleteInv  OBVIOUS
  <1>1. /\ file = <<>> /\ records = <<>> /\ emitted = {} /\ phase = "open" /\ damage = 0
        /\ seam = "none" /\ block_offset_ = 0 /\ buffer_ = <<>> /\ ~eof_ /\ out = <<>>
        /\ end_of_buffer_offset_ = 0 /\ ~in_fragmented_record /\ ~reported
    BY DEF Init
  <1>0. ASSUME initial_offset_ = 0 PROVE ~resyncing_
    <2>1. resyncing_ = (initial_offset_ > 0)  BY DEF Init
    <2>2. ~(initial_offset_ > 0)  BY <1>0
    <2> QED  BY <2>1, <2>2, Zenon
  <1>2. Len(file) = 0 /\ Len(records) = 0 /\ Len(buffer_) = 0  BY <1>1
  <1>3. LayoutInv
    <2>1. BlocksInv  BY <1>1, <1>2 DEF BlocksInv
    <2>2. TilingInv
      <3>1. Len(file) - block_offset_ = 0 * kBlockSize  BY <1>1, <1>2, LogAssumption
      <3>2. Aligned(Len(file) - block_offset_)  BY <3>1 DEF Aligned
      <3> QED  BY <1>1, <3>2 DEF TilingInv
    <2>3. AckedInv  BY <1>1, <1>2 DEF AckedInv
    <2>4. UnbrokenInv  BY <1>1 DEF UnbrokenInv
    <2> QED  BY <2>1, <2>2, <2>3, <2>4 DEF LayoutInv
  <1>4. WrittenInv  BY <1>1 DEF WrittenInv
  <1>5. RestInv
    <2>1. BufferInv  BY <1>1, <1>2 DEF BufferInv
    <2> QED  BY <1>1, <2>1 DEF RestInv
  <1>6. UnreadInv  BY <1>0, <1>1 DEF UnreadInv
  <1>7. StandInv /\ CollectedInv /\ ReturnedInv /\ SilentInv
    BY <1>1 DEF StandInv, CollectedInv, ReturnedInv, SilentInv
  <1> QED  BY <1>3, <1>4, <1>5, <1>6, <1>7 DEF CompleteInv

LEMMA StutterComplete ==
  ASSUME CompleteInv, UNCHANGED vars
  PROVE  CompleteInv'
  <1>1. /\ UNCHANGED <<file, block_offset_, records, begin, damage, seam, emitted>>
        /\ UNCHANGED <<phase, initial_offset_, buffer_, eof_, end_of_buffer_offset_>>
        /\ UNCHANGED <<resyncing_, scratch, in_fragmented_record, out, reported>>
    BY DEF vars, writerVars, readerVars
  <1>2. LayoutInv' = LayoutInv
    BY <1>1 DEF LayoutInv, BlocksInv, TilingInv, AckedInv, UnbrokenInv
  <1>3. WrittenInv' = WrittenInv  BY <1>1 DEF WrittenInv
  <1>4. RestInv' = RestInv  BY <1>1 DEF RestInv, BufferInv, Pos
  <1>5. UnreadInv' = UnreadInv  BY <1>1 DEF UnreadInv
  <1>6. StandInv' = StandInv  BY <1>1 DEF StandInv, Outside, Hole, Pos
  <1>7. CollectedInv' = CollectedInv  BY <1>1 DEF CollectedInv, Fresh, Hole, NextPos, Pos
  <1>8. ReturnedInv' = ReturnedInv
    BY <1>1 DEF ReturnedInv, Listed, Returned, Due, Untouched, Limit, Hole, NextPos, Pos
  <1>9. SilentInv' = SilentInv  BY <1>1 DEF SilentInv, NextPos, Pos
  <1>10. Sound' = Sound  BY <1>1 DEF Sound
  <1> QED
    BY <1>2, <1>3, <1>4, <1>5, <1>6, <1>7, <1>8, <1>9, <1>10 DEF CompleteInv

\* Every step keeps the second invariant.
LEMMA NextComplete ==
  Inv /\ CompleteInv /\ [Next]_vars => CompleteInv'
  <1> SUFFICES ASSUME Inv, CompleteInv, [Next]_vars PROVE CompleteInv'  OBVIOUS
  <1>1. ASSUME NEW n \in Sizes, AddRecord(n) PROVE CompleteInv'  BY <1>1, AddRecordComplete
  <1>2. CASE EmitPhysicalRecord  BY <1>2, EmitPhysicalRecordComplete
  <1>3. CASE EmitFails  BY <1>3, EmitFailsComplete
  <1>4. CASE Crash  BY <1>4, CrashComplete
  <1>5. CASE Reopen  BY <1>5, ReopenComplete
  <1>6. CASE Damage  BY <1>6, DamageComplete
  <1>7. CASE OpenReader  BY <1>7, OpenReaderComplete
  <1>8. CASE ReadBlock  BY <1>8, ReadBlockComplete
  <1>9. CASE ReadRecord  BY <1>9, ReadRecordComplete
  <1>10. CASE ReadEof  BY <1>10, ReadEofComplete
  <1>11. CASE UNCHANGED vars  BY <1>11, StutterComplete
  <1> QED
    BY <1>1, <1>2, <1>3, <1>4, <1>5, <1>6, <1>7, <1>8, <1>9, <1>10, <1>11 DEF Next

\* What is due at the end of the file is what is expected.
LEMMA InvAckedRecordsRead ==
  Inv /\ CompleteInv => AckedRecordsRead
  <1> SUFFICES ASSUME Inv, CompleteInv, phase = "done", damage = 0, seam # "torn"
               PROVE  /\ \E which \in [DOMAIN out -> Expected] :
                            /\ \A i, j \in DOMAIN out : i < j => which[i] < which[j]
                            /\ \A r \in Expected : \E j \in DOMAIN out : which[j] = r
                            /\ \A j \in DOMAIN out : out[j] = records[which[j]].data
                      /\ initial_offset_ = 0 /\ seam = "none" => ~reported
    BY DEF AckedRecordsRead
  <1>1. TypeOK /\ EmittedInv /\ AckedInv /\ ReturnedInv /\ SilentInv
    BY DEF Inv, WriterInv, CompleteInv, LayoutInv, Sound
  <1>2. DOMAIN out = 1 .. Len(out) /\ DOMAIN records = 1 .. Len(records)  BY <1>1 DEF TypeOK
  <1>3. ASSUME NEW r \in 1 .. Len(records)
        PROVE  Due(r) <=> r \in Expected
    <2>1. Due(r) <=> /\ records[r].acked /\ records[r].start >= initial_offset_
                     /\ records[r].end <= Len(file)
      BY DEF Due, Limit
    <2>2. ASSUME records[r].acked PROVE records[r].end <= Len(file)
      <3>1. PICK E \in emitted : records[r].end = EndOf(E)  BY <1>1, <2>2, AckedEnd
      <3> QED  BY <1>1, <3>1, EmittedNat
    <2> QED  BY <1>2, <2>1, <2>2 DEF Expected
  <1>4. PICK which \in [1 .. Len(out) -> 1 .. Len(records)] :
           /\ \A j \in 1 .. Len(out) : Due(which[j]) /\ out[j] = records[which[j]].data
           /\ \A i, j \in 1 .. Len(out) : i < j => which[i] < which[j]
           /\ \A r \in 1 .. Len(records) : Due(r) => \E j \in 1 .. Len(out) : which[j] = r
    BY <1>1 DEF ReturnedInv, Listed
  <1>5. \A j \in 1 .. Len(out) : which[j] \in Expected
    <2> TAKE j \in 1 .. Len(out)
    <2>1. which[j] \in 1 .. Len(records) /\ Due(which[j])  BY <1>4
    <2> QED  BY <1>3, <2>1
  <1>6. which \in [DOMAIN out -> Expected]  BY <1>2, <1>4, <1>5
  <1>7. \A r \in Expected : \E j \in DOMAIN out : which[j] = r
    <2> TAKE r \in Expected
    <2>1. r \in 1 .. Len(records)  BY <1>2 DEF Expected
    <2>2. Due(r)  BY <1>3, <2>1
    <2> QED  BY <1>2, <1>4, <2>1, <2>2
  <1>8. \A i, j \in DOMAIN out : i < j => which[i] < which[j]  BY <1>2, <1>4
  <1>9. \A j \in DOMAIN out : out[j] = records[which[j]].data  BY <1>2, <1>4
  <1>10. initial_offset_ = 0 /\ seam = "none" => ~reported  BY <1>1 DEF SilentInv
  <1> QED  BY <1>6, <1>7, <1>8, <1>9, <1>10, Zenon

\* The number of the block of x.
LEMMA BlockNumber ==
    ASSUME NEW x \in Nat, NEW k \in Int, NEW d, d = x \div kBlockSize
    PROVE  /\ d \in Int
           /\ x < k * kBlockSize + kBlockSize => d <= k
           /\ k * kBlockSize <= x => k <= d
  <1>1. kBlockSize \in Nat /\ kBlockSize > 0  BY LogAssumption
  <1>2. PICK q : q = x % kBlockSize  OBVIOUS
  <1>3. q \in 0 .. kBlockSize - 1 /\ d \in Int /\ x = kBlockSize * d + q  BY <1>1, <1>2
  <1>4. PICK i \in Int : d = k + i
    <2>1. d - k \in Int /\ d = k + (d - k)  BY <1>3
    <2> QED  BY <2>1
  <1>5. x = k * kBlockSize + i * kBlockSize + q  BY <1>1, <1>3, <1>4
  <1>6. k * kBlockSize \in Int /\ i * kBlockSize \in Int  BY <1>1
  <1>7. i >= 1 => i * kBlockSize >= kBlockSize  BY <1>1
  <1>8. i <= -1 => i * kBlockSize <= -kBlockSize  BY <1>1
  <1>9. ASSUME x < k * kBlockSize + kBlockSize PROVE d <= k
    <2>1. ~(i >= 1)  BY <1>1, <1>3, <1>5, <1>6, <1>7, <1>9
    <2> QED  BY <1>4, <2>1
  <1>10. ASSUME k * kBlockSize <= x PROVE k <= d
    <2>1. ~(i <= -1)  BY <1>1, <1>3, <1>5, <1>6, <1>8, <1>10
    <2> QED  BY <1>4, <2>1
  <1> QED  BY <1>3, <1>9, <1>10

\* A record with no byte in the damaged block is untouched.
LEMMA InvDamageIsLocal ==
  Inv /\ CompleteInv => DamageIsLocal
  <1> SUFFICES ASSUME Inv, CompleteInv, phase = "done", damage # 0, checksum_, seam # "torn",
                      initial_offset_ = 0, NEW r \in DOMAIN records, records[r].acked,
                      BlockOf(damage) \notin
                         BlockOf(records[r].start + 1) .. BlockOf(records[r].end)
               PROVE  records[r].data \in {out[j] : j \in DOMAIN out}
    BY DEF DamageIsLocal
  <1>1. TypeOK /\ EmittedInv /\ AckedInv /\ ReturnedInv
    BY DEF Inv, WriterInv, CompleteInv, LayoutInv, Sound
  <1>2. DOMAIN out = 1 .. Len(out) /\ r \in 1 .. Len(records)  BY <1>1 DEF TypeOK
  <1>3. PICK E \in emitted : /\ records[r].end = EndOf(E) /\ 0 <= records[r].start
                             /\ records[r].start + kHeaderSize <= records[r].end
    BY <1>1, <1>2, AckedEnd
  <1>4. PICK s : s = records[r].start  OBVIOUS
  <1>5. PICK e : e = records[r].end  OBVIOUS
  <1>6. /\ s \in Int /\ e \in Int /\ kHeaderSize \in Nat /\ kHeaderSize >= 3 /\ damage \in Nat
        /\ kBlockSize \in Nat
    BY <1>1, <1>2, <1>4, <1>5, Bounds, LogAssumption DEF TypeOK
  <1>7. /\ s \in Nat /\ e - 1 \in Nat /\ damage - 1 \in Nat /\ s + 1 - 1 = s
    BY <1>3, <1>4, <1>5, <1>6
  <1>8. PICK a : a = s \div kBlockSize  OBVIOUS
  <1>9. PICK b : b = (e - 1) \div kBlockSize  OBVIOUS
  <1>10. PICK c : c = (damage - 1) \div kBlockSize  OBVIOUS
  <1>11. c \notin a .. b
    <2>1. BlockOf(s + 1) = a  BY <1>7, <1>8 DEF BlockOf
    <2>2. BlockOf(e) = b /\ BlockOf(damage) = c  BY <1>9, <1>10 DEF BlockOf
    <2> QED  BY <1>4, <1>5, <2>1, <2>2
  <1>12. Untouched(r)
    <2> SUFFICES ASSUME NEW y \in Int, Hole(y), ~(y + kBlockSize <= s), ~(e <= y)
                 PROVE  FALSE
      BY <1>4, <1>5 DEF Untouched
    <2>1. Aligned(y) /\ y <= damage - 1 /\ damage - 1 < y + kBlockSize  BY DEF Hole, In
    <2>2. PICK k \in Int : y = k * kBlockSize  BY <2>1 DEF Aligned
    <2>3. s < y + kBlockSize /\ y <= e - 1  BY <1>6
    <2>4. a \in Int /\ a <= k
      <3>1. s < k * kBlockSize + kBlockSize  BY <2>2, <2>3
      <3> QED  BY <1>7, <1>8, <3>1, BlockNumber
    <2>5. b \in Int /\ k <= b
      <3>1. k * kBlockSize <= e - 1  BY <2>2, <2>3
      <3> QED  BY <1>7, <1>9, <3>1, BlockNumber
    <2>6. c \in Int /\ c <= k /\ k <= c
      <3>1. k * kBlockSize <= damage - 1 /\ damage - 1 < k * kBlockSize + kBlockSize
        BY <2>1, <2>2
      <3> QED  BY <1>7, <1>10, <3>1, BlockNumber
    <2> QED  BY <1>11, <2>4, <2>5, <2>6
  <1>13. Due(r)
    <2>1. EndOf(E) <= Len(file)  BY <1>1, EmittedNat
    <2>2. records[r].start >= initial_offset_  BY <1>3, <1>4, <1>6
    <2> QED  BY <1>3, <2>1, <2>2 DEF Due, Limit
  <1>14. Returned(r)  BY <1>1, <1>2, <1>12, <1>13 DEF ReturnedInv
  <1> QED  BY <1>2, <1>14 DEF Returned

\* log::Reader over an undamaged log that nothing was appended to behind half a
\* physical record, read from any offset to its end: ReadRecord returns exactly
\* the records that AddRecord acknowledged and that start at the offset or
\* later, in order; read from the start of a log that was never reused, it
\* reports no corruption, wherever a crash cut the log.
THEOREM AckedRecordsReadHolds == Spec => []AckedRecordsRead
  <1>1. Init => Inv /\ CompleteInv  BY InitInv, InitComplete
  <1>2. Inv /\ CompleteInv /\ [Next]_vars => (Inv /\ CompleteInv)'  BY NextStep, NextComplete
  <1>3. Inv /\ CompleteInv => AckedRecordsRead  BY InvAckedRecordsRead
  <1> QED  BY <1>1, <1>2, <1>3, PTL DEF Spec

\* log::Reader with checksums over a log with one damaged byte: every record
\* that was acknowledged and has no byte in the block of the damage is returned.
THEOREM DamageIsLocalHolds == Spec => []DamageIsLocal
  <1>1. Init => Inv /\ CompleteInv  BY InitInv, InitComplete
  <1>2. Inv /\ CompleteInv /\ [Next]_vars => (Inv /\ CompleteInv)'  BY NextStep, NextComplete
  <1>3. Inv /\ CompleteInv => DamageIsLocal  BY InvDamageIsLocal
  <1> QED  BY <1>1, <1>2, <1>3, PTL DEF Spec
=============================================================================
