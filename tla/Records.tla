------------------------------ MODULE Records ------------------------------
(***************************************************************************)
(* What the records of a log and of a MANIFEST hold: WriteBatch            *)
(* (db/write_batch.cc) and VersionEdit (db/version_edit.cc).  A record is  *)
(* a sequence of items where the code has bytes: a tag, or what a varint,  *)
(* a fixed number or a length-prefixed string stands for.                  *)
(***************************************************************************)
EXTENDS Integers, Sequences, SequencesExt, FiniteSets, FiniteSetsExt

None == -1

-----------------------------------------------------------------------------
(* WriteBatch: the sequence number, the number of updates, the updates.    *)

EmptyBatch == [sequence |-> 0, count |-> 0, rep |-> <<>>]

BatchPut(b, key, value) ==
    [b EXCEPT !.count = @ + 1, !.rep = @ \o <<"kTypeValue", key, value>>]
BatchDelete(b, key) ==
    [b EXCEPT !.count = @ + 1, !.rep = @ \o <<"kTypeDeletion", key>>]

\* WriteBatchInternal::Append, with which a leader joins the batches of a group.
BatchAppend(dst, src) ==
    [dst EXCEPT !.count = @ + src.count, !.rep = @ \o src.rep]

SetSequence(b, seq) == [b EXCEPT !.sequence = seq]

\* Mutant: the case of a deletion lacks its break.
IterateFallingThrough(b) ==
    LET n == Len(b.rep)
        from[i \in Nat] ==
            CASE i > n -> [updates |-> <<>>, ok |-> TRUE]
              [] i <= n /\ b.rep[i] = "kTypeValue" /\ i + 2 <= n ->
                   LET rest == from[i + 3] IN
                   [rest EXCEPT !.updates =
                       <<[type |-> "put", key |-> b.rep[i + 1], value |-> b.rep[i + 2]]>> \o @]
              [] i <= n /\ b.rep[i] = "kTypeDeletion" /\ i + 1 <= n ->
                   [updates |-> <<[type |-> "delete", key |-> b.rep[i + 1], value |-> None]>>,
                    ok |-> FALSE]
              [] OTHER -> [updates |-> <<>>, ok |-> FALSE]
        all == from[1]
    IN  [all EXCEPT !.ok = @ /\ Len(all.updates) = b.count]

\* Iterate: the updates that the handler gets, in order, and the status.
Iterate(b) ==
    LET n == Len(b.rep)
        from[i \in Nat] ==
            CASE i > n -> [updates |-> <<>>, ok |-> TRUE]
              [] i <= n /\ b.rep[i] = "kTypeValue" /\ i + 2 <= n ->
                   LET rest == from[i + 3] IN
                   [rest EXCEPT !.updates =
                       <<[type |-> "put", key |-> b.rep[i + 1], value |-> b.rep[i + 2]]>> \o @]
              [] i <= n /\ b.rep[i] = "kTypeDeletion" /\ i + 1 <= n ->
                   LET rest == from[i + 2] IN
                   [rest EXCEPT !.updates =
                       <<[type |-> "delete", key |-> b.rep[i + 1], value |-> None]>> \o @]
              [] OTHER -> [updates |-> <<>>, ok |-> FALSE]
        all == from[1]
    IN  [all EXCEPT !.ok = @ /\ Len(all.updates) = b.count]

\* InsertInto: what reaches the memtable, whatever the status.
InsertInto(b) ==
    LET updates == Iterate(b).updates
    IN  {[seq |-> b.sequence + i - 1, type |-> updates[i].type, key |-> updates[i].key]
            : i \in DOMAIN updates}

-----------------------------------------------------------------------------
(* VersionEdit.                                                            *)

NoEdit == [comparator |-> None, log |-> None, prev_log |-> None, next |-> None, last |-> None,
           del |-> {}, add |-> {}]

Field(tag, x) == IF x = None THEN <<>> ELSE <<tag, x>>
Fields(tag, set) == FoldSeq(LAMBDA x, s : <<tag, x>> \o s, <<>>, SetToSeq(set))

EncodeTo(e) ==
    Field("kComparator", e.comparator) \o Field("kLogNumber", e.log)
    \o Field("kPrevLogNumber", e.prev_log) \o Field("kNextFileNumber", e.next)
    \o Field("kLastSequence", e.last)
    \o Fields("kDeletedFile", e.del) \o Fields("kNewFile", e.add)

\* DecodeFrom: the fields in any order, the last of a kind counts; a record that
\* ends inside a field or has an unknown tag is an error.
Corruption == "corruption"
DecodeFrom(record) ==
    LET Step(e, tag, x) ==
            CASE tag = "kComparator"     -> [e EXCEPT !.comparator = x]
              [] tag = "kLogNumber"      -> [e EXCEPT !.log = x]
              [] tag = "kPrevLogNumber"  -> [e EXCEPT !.prev_log = x]
              [] tag = "kNextFileNumber" -> [e EXCEPT !.next = x]
              [] tag = "kLastSequence"   -> [e EXCEPT !.last = x]
              [] tag = "kDeletedFile"    -> [e EXCEPT !.del = @ \cup {x}]
              [] tag = "kNewFile"        -> [e EXCEPT !.add = @ \cup {x}]
        Known == {"kComparator", "kLogNumber", "kPrevLogNumber", "kNextFileNumber",
                  "kLastSequence", "kDeletedFile", "kNewFile"}
        fields == 1 .. Len(record) \div 2
        edit[i \in {0} \cup fields] ==
            IF i = 0 THEN NoEdit ELSE Step(edit[i - 1], record[2 * i - 1], record[2 * i])
    IN  IF Len(record) % 2 = 1 \/ \E i \in fields : record[2 * i - 1] \notin Known
        THEN Corruption ELSE edit[Len(record) \div 2]

-----------------------------------------------------------------------------
\* Every edit is read back as it was written, and one cut inside a field is
\* refused.
ASSUME EditsReadBack ==
    \A log, prev, next \in {None, 0, 3}, del \in SUBSET {1, 2}, add \in SUBSET {1, 2, 3} :
        LET e == [NoEdit EXCEPT !.log = log, !.prev_log = prev, !.next = next,
                                !.del = del, !.add = add]
            r == EncodeTo(e)
        IN  DecodeFrom(r) = e /\ (r # <<>> => DecodeFrom(Front(r)) = Corruption)
=============================================================================
