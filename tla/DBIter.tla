------------------------------- MODULE DBIter -------------------------------
(***************************************************************************)
(* A database iterator: DBIter (db/db_iter.cc) over a MergingIterator      *)
(* (table/merger.cc) over three children: the memtable, which grows while  *)
(* the iterator is used, a level-0 table and a deeper level, which is a    *)
(* two-level iterator over the files of that level.                        *)
(*                                                                         *)
(* An entry is (key, seq, type); its value is its sequence number.  One    *)
(* step is one operation of the internal iterator, so writes come between  *)
(* the steps of the loops that skip hidden entries.                        *)
(***************************************************************************)
EXTENDS InternalKey, Integers, Sequences

CONSTANTS
    Keys,           \* user keys, numbers
    Loaded,         \* bound: entries when the iterator is made
    MaxEntries      \* bound: entries in all

ASSUME DBIterAssumption ==
    /\ Keys \subseteq Nat /\ \E n \in Keys : \A k \in Keys : k <= n
    /\ Loaded \in Nat

kForward == 1
kReverse == -1
None == [key |-> -1, seq |-> 0, type |-> 0]
Children == 1 .. 3     \* memtable, level 0, deeper level

VARIABLES
    ent,            \* [child -> set of its entries]
    files_,         \* Version::files_ of the deeper level: the entries of each file
    last,           \* LastSequence
    sequence_,      \* the snapshot the iterator reads at
    pos,            \* MergingIterator: [child -> entry it is at, or None]
    file,           \* LevelFileNumIterator::index_ of the deeper level
    current_,       \* child of the merge that is current, 0 for none
    mdir,           \* MergingIterator::direction_
    direction_, valid_, saved_key_, saved_value_, value_type, skipping,
    pc,             \* "idle", or the loop of DBIter that runs
    expect          \* what the running or last operation should lead to

mergeVars == <<pos, file, current_, mdir>>
iterVars == <<direction_, valid_, saved_key_, saved_value_, value_type, skipping, pc, expect>>
iteratorVars == <<ent, files_, last, sequence_, mergeVars, iterVars>>

\* The ends of a set of entries.
Smallest(S) == IF S = {} THEN None ELSE CHOOSE e \in S : \A f \in S : f = e \/ Before(e, f)
Largest(S)  == IF S = {} THEN None ELSE CHOOSE e \in S : \A f \in S : f = e \/ Before(f, e)

-----------------------------------------------------------------------------
(* The children.  The files of the deeper level are numbered from 0.        *)

NumFiles == Len(files_)
FileSet(i) == files_[i + 1]
\* FindFile: the first file whose largest key is at or after the target.
FindFile(t) == LET ok == {i \in 0 .. NumFiles - 1 : ~Before(Largest(FileSet(i)), t)}
               IN  IF ok = {} THEN NumFiles ELSE CHOOSE i \in ok : \A j \in ok : i <= j

\* Operations of a child: where it is afterwards, and for the deeper level
\* also in which file (LevelFileNumIterator and SkipEmptyDataBlocks).
At(e, f) == [pos |-> e, file |-> f]
LevelAt(i) == IF i >= 0 /\ i < NumFiles THEN At(Smallest(FileSet(i)), i) ELSE At(None, NumFiles)
LevelBackAt(i) == IF i >= 0 /\ i < NumFiles THEN At(Largest(FileSet(i)), i) ELSE At(None, NumFiles)
ChildSeek(c, t) ==
    IF c # 3 THEN At(Smallest({e \in ent[c] : ~Before(e, t)}), file)
    ELSE LET i == FindFile(t)
             e == Smallest({x \in FileSet(i) : ~Before(x, t)})
         IN  IF i = NumFiles THEN At(None, i) ELSE IF e # None THEN At(e, i) ELSE LevelAt(i + 1)
ChildSeekToFirst(c) == IF c # 3 THEN At(Smallest(ent[c]), file) ELSE LevelAt(0)
ChildSeekToLast(c)  == IF c # 3 THEN At(Largest(ent[c]), file) ELSE LevelBackAt(NumFiles - 1)
ChildNext(c, at) ==
    IF c # 3 THEN At(Smallest({e \in ent[c] : Before(at.pos, e)}), file)
    ELSE LET e == Smallest({x \in FileSet(at.file) : Before(at.pos, x)})
         IN  IF e # None THEN At(e, at.file) ELSE LevelAt(at.file + 1)
ChildPrev(c, at) ==
    IF c # 3 THEN At(Largest({e \in ent[c] : Before(e, at.pos)}), file)
    ELSE LET e == Largest({x \in FileSet(at.file) : Before(x, at.pos)})
         IN  IF e # None THEN At(e, at.file) ELSE LevelBackAt(at.file - 1)

-----------------------------------------------------------------------------
(* MergingIterator.  to gives every child its place after the operation.    *)

FindSmallest(to) ==
    LET S == {to[c].pos : c \in Children} \ {None}
    IN  IF S = {} THEN 0 ELSE CHOOSE c \in Children : to[c].pos = Smallest(S)
FindLargest(to) ==
    LET S == {to[c].pos : c \in Children} \ {None}
    IN  IF S = {} THEN 0 ELSE CHOOSE c \in Children : to[c].pos = Largest(S)
Place(to, cur, dir) ==
    /\ pos' = [c \in Children |-> to[c].pos] /\ file' = to[3].file
    /\ current_' = cur /\ mdir' = dir
Here(c) == At(pos[c], file)
MKey == pos[current_]

MergeSeekToFirst == LET to == [c \in Children |-> ChildSeekToFirst(c)]
                    IN  Place(to, FindSmallest(to), kForward)
MergeSeekToLast  == LET to == [c \in Children |-> ChildSeekToLast(c)]
                    IN  Place(to, FindLargest(to), kReverse)
MergeSeek(t)     == LET to == [c \in Children |-> ChildSeek(c, t)]
                    IN  Place(to, FindSmallest(to), kForward)

\* The children that are not current are put after the key, or before it, when
\* the direction changes.
MergeNext ==
    LET After(c) == LET s == ChildSeek(c, MKey)
                    IN  IF s.pos # None /\ s.pos = MKey THEN ChildNext(c, s) ELSE s
        to == [c \in Children |->
                 IF c = current_ THEN ChildNext(c, Here(c))
                 ELSE IF mdir # kForward THEN After(c) ELSE Here(c)]
    IN  Place(to, FindSmallest(to), kForward)
MergePrev ==
    LET Ahead(c) == LET s == ChildSeek(c, MKey)
                    IN  IF s.pos # None THEN ChildPrev(c, s) ELSE ChildSeekToLast(c)
        to == [c \in Children |->
                 IF c = current_ THEN ChildPrev(c, Here(c))
                 ELSE IF mdir # kReverse THEN Ahead(c) ELSE Here(c)]
    IN  Place(to, FindLargest(to), kReverse)

-----------------------------------------------------------------------------
(* What a client should see: the newest entry of each key at sequence_.     *)

AllEntries == UNION {ent[c] : c \in Children}
NewestOf(k) == Smallest({e \in AllEntries : e.key = k /\ e.seq <= sequence_})
Live == {k \in Keys : NewestOf(k).type = kTypeValue /\ NewestOf(k) # None}
MinOf(S) == IF S = {} THEN -1 ELSE CHOOSE k \in S : \A j \in S : k <= j
MaxOf(S) == IF S = {} THEN -1 ELSE CHOOSE k \in S : \A j \in S : k >= j
\* DBIter::key() and value().
key   == IF direction_ = kForward THEN MKey.key ELSE saved_key_
value == IF direction_ = kForward THEN MKey.seq ELSE saved_value_

-----------------------------------------------------------------------------
(* DBIter.  A loop looks at where the previous step left the merge.         *)

\* Start a loop that skips what is hidden: FindNextUserEntry.
StartForward(skip, k) ==
    /\ direction_' = kForward /\ skipping' = skip /\ saved_key_' = k /\ pc' = "fwd"
    /\ UNCHANGED <<valid_, saved_value_, value_type>>
SeekToFirstEntry ==
    /\ pc = "idle" /\ expect' = MinOf(Live)
    /\ MergeSeekToFirst /\ StartForward(FALSE, saved_key_)
    /\ UNCHANGED <<ent, files_, last, sequence_>>
SeekEntry(k) ==
    /\ pc = "idle" /\ expect' = MinOf({j \in Live : j >= k})
    /\ MergeSeek([key |-> k, seq |-> sequence_, type |-> kTypeValue])
    /\ StartForward(FALSE, -1)
    /\ UNCHANGED <<ent, files_, last, sequence_>>

\* Mutant: a reversed iterator skips from where it stands.
NextFromHere ==
    /\ pc = "idle" /\ valid_ /\ expect' = MinOf({k \in Live : k > expect})
    /\ UNCHANGED <<mergeVars, ent, files_, last, sequence_>>
    /\ StartForward(TRUE, IF direction_ = kReverse THEN -1 ELSE MKey.key)
NextEntry ==
    /\ pc = "idle" /\ valid_ /\ expect' = MinOf({k \in Live : k > expect})
    /\ IF direction_ = kReverse
       THEN IF current_ = 0 THEN MergeSeekToFirst ELSE MergeNext
       ELSE UNCHANGED mergeVars
    /\ StartForward(TRUE, IF direction_ = kReverse THEN saved_key_ ELSE MKey.key)
    /\ UNCHANGED <<ent, files_, last, sequence_>>

\* One round of FindNextUserEntry.
FindNextUserEntry ==
    LET visible == MKey.seq <= sequence_
        hidden == skipping /\ MKey.key <= saved_key_
        found == visible /\ MKey.type = kTypeValue /\ ~hidden
        deleted == visible /\ MKey.type = kTypeDeletion
    IN  /\ pc = "fwd"
        /\ IF current_ = 0 \/ found
           THEN /\ valid_' = (current_ # 0) /\ saved_key_' = -1 /\ pc' = "idle"
                /\ UNCHANGED <<mergeVars, skipping>>
           ELSE /\ MergeNext
                /\ skipping' = (skipping \/ deleted)
                /\ saved_key_' = IF deleted THEN MKey.key ELSE saved_key_
                /\ UNCHANGED <<valid_, pc>>
        /\ UNCHANGED <<ent, files_, last, sequence_, direction_, saved_value_, value_type, expect>>

\* Start FindPrevUserEntry.
StartReverse ==
    /\ direction_' = kReverse /\ value_type' = kTypeDeletion /\ pc' = "rev"
    /\ UNCHANGED <<valid_, skipping>>
SeekToLastEntry ==
    /\ pc = "idle" /\ expect' = MaxOf(Live)
    /\ MergeSeekToLast /\ StartReverse /\ saved_value_' = 0
    /\ UNCHANGED <<ent, files_, last, sequence_, saved_key_>>
PrevEntry ==
    /\ pc = "idle" /\ valid_ /\ expect' = MaxOf({k \in Live : k < expect})
    /\ IF direction_ = kForward
       THEN /\ MergePrev /\ saved_key_' = MKey.key /\ pc' = "back"
            /\ UNCHANGED <<direction_, value_type, valid_, skipping>>
       ELSE StartReverse /\ UNCHANGED <<mergeVars, saved_key_>>
    /\ UNCHANGED <<ent, files_, last, sequence_, saved_value_>>

\* Prev after a forward move: back over the entries of the current key.
BackToPreviousKey ==
    /\ pc = "back"
    /\ \/ /\ current_ = 0
          /\ valid_' = FALSE /\ saved_key_' = -1 /\ saved_value_' = 0 /\ pc' = "idle"
          /\ UNCHANGED <<mergeVars, direction_, value_type, skipping>>
       \/ /\ current_ # 0 /\ MKey.key < saved_key_
          /\ StartReverse
          /\ UNCHANGED <<mergeVars, saved_key_, saved_value_>>
       \/ /\ current_ # 0 /\ MKey.key >= saved_key_
          /\ MergePrev
          /\ UNCHANGED <<direction_, valid_, saved_key_, saved_value_, value_type, skipping, pc>>
    /\ UNCHANGED <<ent, files_, last, sequence_, expect>>

\* One round of FindPrevUserEntry.
FindPrevUserEntry ==
    LET visible == MKey.seq <= sequence_
        done == \/ current_ = 0
                \/ visible /\ value_type # kTypeDeletion /\ MKey.key < saved_key_
    IN  /\ pc = "rev"
        /\ IF done
           THEN /\ pc' = "idle"
                /\ valid_' = (value_type # kTypeDeletion)
                /\ direction_' = IF value_type = kTypeDeletion THEN kForward ELSE kReverse
                /\ IF value_type = kTypeDeletion THEN saved_key_' = -1 /\ saved_value_' = 0
                   ELSE UNCHANGED <<saved_key_, saved_value_>>
                /\ UNCHANGED <<mergeVars, value_type>>
           ELSE /\ MergePrev
                /\ value_type' = IF visible THEN MKey.type ELSE value_type
                /\ saved_key_' = IF ~visible THEN saved_key_
                                 ELSE IF MKey.type = kTypeDeletion THEN -1 ELSE MKey.key
                /\ saved_value_' = IF ~visible THEN saved_value_
                                   ELSE IF MKey.type = kTypeDeletion THEN 0 ELSE MKey.seq
                /\ UNCHANGED <<pc, valid_, direction_>>
        /\ UNCHANGED <<ent, files_, last, sequence_, skipping, expect>>

-----------------------------------------------------------------------------
(* The rest of the database.                                                *)

\* A batch of one entry reaches the memtable that the iterator holds.
Write(k, t) ==
    /\ last < MaxEntries
    /\ last' = last + 1
    /\ ent' = [ent EXCEPT ![1] = @ \cup {[key |-> k, seq |-> last + 1, type |-> t]}]
    /\ UNCHANGED <<files_, sequence_, mergeVars, iterVars>>

\* The ways to cut the entries of a level into files, in the order of their keys.
Cuts(S) ==
    {fs \in UNION {[1 .. n -> (SUBSET S) \ {{}}] : n \in 0 .. Loaded} :
        /\ \A e \in S : \E i \in DOMAIN fs : e \in fs[i]
        /\ \A i, j \in DOMAIN fs : i < j => \A e \in fs[i], f \in fs[j] : Before(e, f)}

\* The children hold what was written so far, the memtable the newest.
NewInternalIterator ==
    /\ \E w \in [1 .. Loaded -> Keys \X {kTypeDeletion, kTypeValue}],
          a \in 0 .. Loaded, b \in 0 .. Loaded :
         /\ a <= b
         /\ ent = [c \in Children |->
                     {[key |-> w[s][1], seq |-> s, type |-> w[s][2]] :
                        s \in IF c = 3 THEN 1 .. a ELSE IF c = 2 THEN a + 1 .. b ELSE b + 1 .. Loaded}]
    /\ files_ \in Cuts(ent[3]) /\ last = Loaded
    /\ pos = [c \in Children |-> None] /\ file = 0 /\ current_ = 0 /\ mdir = kForward

\* sequence_ is LastSequence, or the number of a snapshot taken before.
NewIterator == sequence_ \in 0 .. last

\* DBIter::DBIter.
NewDBIterator ==
    /\ direction_ = kForward /\ valid_ = FALSE /\ saved_key_ = -1 /\ saved_value_ = 0
    /\ value_type = kTypeDeletion /\ skipping = FALSE /\ pc = "idle" /\ expect = -1

IterInit == NewInternalIterator /\ NewIterator /\ NewDBIterator

IterNext ==
    \/ SeekToFirstEntry
    \/ \E k \in Keys : SeekEntry(k)
    \/ NextEntry
    \/ FindNextUserEntry
    \/ SeekToLastEntry
    \/ PrevEntry
    \/ BackToPreviousKey
    \/ FindPrevUserEntry
    \/ \E k \in Keys, t \in {kTypeDeletion, kTypeValue} : Write(k, t)

IterSpec == IterInit /\ [][IterNext]_iteratorVars

-----------------------------------------------------------------------------
(* Properties.                                                              *)

\* When an operation has ended, the iterator is valid exactly if the snapshot
\* has a key in its direction, and shows that key with its newest value at the
\* snapshot, however the direction changed before and whatever was written to
\* the memtable meanwhile.
IteratorRight ==
    pc = "idle" => /\ valid_ = (expect # -1)
                   /\ valid_ => key = expect /\ value = NewestOf(expect).seq

=============================================================================
