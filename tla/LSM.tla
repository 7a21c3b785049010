-------------------------------- MODULE LSM --------------------------------
(***************************************************************************)
(* The log-structured merge tree: the versions and compactions of          *)
(* db/version_set.cc, driven by the background thread of db/db_impl.cc.    *)
(*                                                                         *)
(* A write enters the memtable.  The background thread turns an immutable  *)
(* memtable into a file and pushes it to the deepest level it may go to;   *)
(* it merges files of one level with the overlapping files of the next.    *)
(* While it merges it does not hold the mutex: users write, take and       *)
(* release snapshots, and the thread itself interrupts the merge to flush  *)
(* a memtable.  A merge is therefore two steps, one that chooses its       *)
(* inputs and one that installs its outputs in the version current then.   *)
(*                                                                         *)
(* An entry is a user key, a sequence number and a type; its value is its  *)
(* sequence number.  A file is the set of its entries.  File sizes are not *)
(* modelled: what depends on them is a nondeterministic choice.            *)
(***************************************************************************)
EXTENDS Integers, Sequences, SequencesExt, FiniteSets, FiniteSetsExt

CONSTANTS
    NumKeys,             \* user keys are 1..NumKeys, in the comparator's order
    NumLevels,           \* config::kNumLevels
    MaxMemCompactLevel,  \* config::kMaxMemCompactLevel
    Loads                \* what users may do, see LoadAssumption

kTypeDeletion == "deletion"
kTypeValue    == "value"

ASSUME LevelAssumption == /\ NumLevels \in Nat /\ MaxMemCompactLevel \in Nat
                          /\ MaxMemCompactLevel < NumLevels

UserKey == 1 .. NumKeys
Level   == 0 .. NumLevels - 1
Absent  == 0                      \* Status::NotFound
None    == [level |-> -1]

\* A load: the keys and the kinds of writes made; whether somebody calls
\* CompactRange; and the bounds: writes, snapshots held at a time, and cuts in
\* the output of a compaction.
ASSUME LoadAssumption ==
    \A d \in Loads : /\ d.keys \subseteq UserKey
                    /\ d.types \subseteq {kTypeValue, kTypeDeletion}
                    /\ d.manual \in BOOLEAN
                    /\ d.writes \in Nat /\ d.snapshots \in Nat /\ d.cuts \in Nat

VARIABLES
    load,        \* the load of this behaviour, fixed by Init
    mem,         \* set of entries of mem_
    imm,         \* set of entries of imm_
    has_imm,     \* imm_ # NULL
    files,       \* [Level -> Seq(file)]: oldest first in level 0, by smallest key below
    last_sequence,
    snapshots,   \* sequence numbers of the live snapshots, oldest first
    compaction,  \* the compaction whose merge is running, or None
    bg_error,    \* bg_error_ is not ok
    history      \* history variable: every entry ever written

vars == <<load, mem, imm, has_imm, files, last_sequence, snapshots, compaction, bg_error, history>>

-----------------------------------------------------------------------------
(* Internal keys: by user key, newer entries first.                        *)

Before(x, y) == x.key < y.key \/ (x.key = y.key /\ x.sequence > y.sequence)
Smallest(f) == CHOOSE x \in f : \A y \in f \ {x} : Before(x, y)
Largest(f)  == CHOOSE x \in f : \A y \in f \ {x} : Before(y, x)
SmallestUser(F) == Min({x.key : x \in UNION F})
LargestUser(F)  == Max({x.key : x \in UNION F})

\* Builder::SaveTo keeps a level in the order of the smallest keys.
BySmallestKey(F) == SetToSortSeq(F, LAMBDA f, g : Before(Smallest(f), Smallest(g)))

FilesAt(level) == Range(files[level])

\* A VersionEdit deletes and adds files, given with their levels, and the
\* builder makes a version of it: what is not deleted, merged with what is
\* added (in level 0, the newest last).
SaveTo(base, deleted, added, level) ==
    LET kept == SelectSeq(base, LAMBDA f : f \notin deleted \ added)
    IN  IF level = 0 THEN kept \o SetToSeq(added)
                     ELSE BySmallestKey(Range(kept) \cup added)
LogAndApply(del, add) ==
    LET At(edit, l) == {e[2] : e \in {x \in edit : x[1] = l}}
    IN  files' = [l \in Level |-> IF At(del \cup add, l) = {} THEN files[l]
                                  ELSE SaveTo(files[l], At(del, l), At(add, l), l)]

\* FindFile: binary search for the first file whose largest key is not before ikey.
FindFile(seq, ikey) ==
    LET n == Len(seq)
        search[left \in 0 .. n, right \in 0 .. n] ==
            IF left >= right THEN right
            ELSE LET mid == (left + right) \div 2
                 IN  IF Before(Largest(seq[mid + 1]), ikey)
                     THEN search[mid + 1, right] ELSE search[left, mid]
    IN  search[0, n]

-----------------------------------------------------------------------------
(* Reading.                                                                *)

Result(x) == IF x.type = kTypeDeletion THEN Absent ELSE x.sequence
Visible(E, k, s) == {x \in E : x.key = k /\ x.sequence <= s}
Newest(E) == CHOOSE x \in E : \A y \in E : y.sequence <= x.sequence

\* Version::Get in one level: in level 0 the newest file that holds the key,
\* below the one file that the binary search leads to.
FoundAt(level, k, s) ==
    IF level = 0
    THEN LET hits == {n \in DOMAIN files[0] : Visible(files[0][n], k, s) # {}}
         IN  IF hits = {} THEN {} ELSE Visible(files[0][Max(hits)], k, s)
    ELSE LET index == FindFile(files[level], [key |-> k, sequence |-> s])
         IN  IF index < Len(files[level]) THEN Visible(files[level][index + 1], k, s) ELSE {}

\* DBImpl::Get: memtable, immutable memtable, then level by level; the first
\* place that holds a visible entry of the key decides.
Found(place, k, s) == CASE place = -2 -> Visible(mem, k, s)
                        [] place = -1 -> Visible(imm, k, s)
                        [] OTHER      -> FoundAt(place, k, s)
Get(k, s) ==
    LET hits == {p \in -2 .. NumLevels - 1 : Found(p, k, s) # {}}
    IN  IF hits = {} THEN Absent ELSE Result(Newest(Found(Min(hits), k, s)))

-----------------------------------------------------------------------------
(* Overlaps.                                                               *)

Overlaps(f, lo, hi) == LargestUser({f}) >= lo /\ SmallestUser({f}) <= hi

\* SomeFileOverlapsRange: every file in level 0, one probe below.
OverlapInLevel(level, lo, hi) ==
    IF level = 0 THEN \E f \in FilesAt(0) : Overlaps(f, lo, hi)
    ELSE LET index == FindFile(files[level], [key |-> lo, sequence |-> load.writes + 1])
         IN  index < Len(files[level]) /\ SmallestUser({files[level][index + 1]}) <= hi

\* GetOverlappingInputs restarts in level 0 until no overlapping file exceeds
\* the range.
ExpandedRange(level, lo, hi) ==
    IF level > 0 THEN <<lo, hi>>
    ELSE LET closed == {r \in (1 .. lo) \X (hi .. NumKeys) :
                          \A f \in FilesAt(0) : Overlaps(f, r[1], r[2]) =>
                              SmallestUser({f}) >= r[1] /\ LargestUser({f}) <= r[2]}
         IN  <<Max({r[1] : r \in closed} \cup {1}), Min({r[2] : r \in closed} \cup {NumKeys})>>

GetOverlappingInputs(level, lo, hi) ==
    LET r == ExpandedRange(level, lo, hi)
    IN  {f \in FilesAt(level) : Overlaps(f, r[1], r[2])}

InputsOver(level, F) == GetOverlappingInputs(level, SmallestUser(F), LargestUser(F))

-----------------------------------------------------------------------------
(* Users.                                                                  *)

Init ==
    /\ load \in Loads
    /\ mem = {} /\ imm = {} /\ has_imm = FALSE
    /\ files = [l \in Level |-> <<>>]
    /\ last_sequence = 0
    /\ snapshots = <<>>
    /\ compaction = None
    /\ bg_error = FALSE
    /\ history = {}

\* DBImpl::Write of one entry.
Write(k, t) ==
    /\ ~bg_error
    /\ last_sequence < load.writes
    /\ LET x == [key |-> k, sequence |-> last_sequence + 1, type |-> t]
       IN  mem' = mem \cup {x} /\ history' = history \cup {x}
    /\ last_sequence' = last_sequence + 1
    /\ UNCHANGED <<load, imm, has_imm, files, snapshots, compaction, bg_error>>

\* MakeRoomForWrite: the memtable is full, or its switch is forced.
SwitchMemTable ==
    /\ ~bg_error /\ ~has_imm
    /\ imm' = mem /\ has_imm' = TRUE /\ mem' = {}
    /\ UNCHANGED <<load, files, last_sequence, snapshots, compaction, bg_error, history>>

\* SnapshotList: New at the end, Delete anywhere, the oldest first.
New(list, sequence) == Append(list, sequence)
Delete(list, n)     == RemoveAt(list, n)
Oldest(list)        == Head(list)

GetSnapshot ==
    /\ Len(snapshots) < load.snapshots
    /\ snapshots' = New(snapshots, last_sequence)
    /\ UNCHANGED <<load, mem, imm, has_imm, files, last_sequence, compaction, bg_error, history>>

ReleaseSnapshot ==
    /\ \E n \in DOMAIN snapshots : snapshots' = Delete(snapshots, n)
    /\ UNCHANGED <<load, mem, imm, has_imm, files, last_sequence, compaction, bg_error, history>>

-----------------------------------------------------------------------------
(* The background thread: memtables.                                       *)

\* Mutant: an overlap in the level itself does not stop the descent.
DescendsOverOverlap(level, lo, hi) == TRUE
Descends(level, lo, hi) == ~OverlapInLevel(level + 1, lo, hi)

\* The levels PickLevelForMemTableOutput may return: it goes down while the
\* next level has no overlap, and may stop earlier if the level after that has
\* too many overlapping bytes.
PickLevelForMemTableOutput(lo, hi) ==
    LET below == {l \in 0 .. MaxMemCompactLevel - 1 : Descends(l, lo, hi)}
        reach == {l \in 0 .. MaxMemCompactLevel : \A m \in 0 .. l - 1 : m \in below}
        crowded(l) == l + 2 < NumLevels /\ GetOverlappingInputs(l + 2, lo, hi) # {}
    IN  IF OverlapInLevel(0, lo, hi) THEN {0}
        ELSE {l \in reach : l = Max(reach) \/ crowded(l)}

\* CompactMemTable: write imm_ as a file (an empty memtable yields none).
CompactMemTable ==
    /\ has_imm /\ ~bg_error
    /\ IF imm = {} THEN UNCHANGED files
       ELSE \E level \in PickLevelForMemTableOutput(SmallestUser({imm}), LargestUser({imm})) :
               LogAndApply({}, {<<level, imm>>})
    /\ imm' = {} /\ has_imm' = FALSE
    /\ UNCHANGED <<load, mem, last_sequence, snapshots, compaction, bg_error, history>>

-----------------------------------------------------------------------------
(* The background thread: compactions.                                     *)

\* SetupOtherInputs: the files of the next level that overlap; and, if they
\* stay the same, more files of the level itself (unless that gets too big).
SetupOtherInputs(level, inputs0) ==
    LET inputs1   == InputsOver(level + 1, inputs0)
        expanded0 == InputsOver(level, inputs0 \cup inputs1)
        expanded1 == InputsOver(level + 1, expanded0)
    IN  {<<inputs0, inputs1>>} \cup
        IF /\ inputs1 # {}
           /\ Cardinality(expanded0) > Cardinality(inputs0)
           /\ Cardinality(expanded1) = Cardinality(inputs1)
        THEN {<<expanded0, expanded1>>} ELSE {}

\* No file below level+1 covers the key.
IsBaseLevelForKey(level, k) ==
    \A l \in level + 2 .. NumLevels - 1 : \A f \in FilesAt(l) : ~Overlaps(f, k, k)

SmallestSnapshot == IF snapshots = <<>> THEN last_sequence ELSE Oldest(snapshots)

\* Mutant: the newest sequence number, not the oldest snapshot, is the limit.
DroppedForNewestOnly(level, E, x) ==
    \/ \E y \in E : y.key = x.key /\ x.sequence < y.sequence /\ y.sequence <= last_sequence
    \/ /\ x.type = kTypeDeletion
       /\ x.sequence <= last_sequence
       /\ IsBaseLevelForKey(level, x.key)
\* The entries that the loop of DoCompactionWork drops: hidden by a newer
\* entry that every snapshot sees, or an obsolete deletion marker.
Dropped(level, E, x) ==
    \/ \E y \in E : y.key = x.key /\ x.sequence < y.sequence /\ y.sequence <= SmallestSnapshot
    \/ /\ x.type = kTypeDeletion
       /\ x.sequence <= SmallestSnapshot
       /\ IsBaseLevelForKey(level, x.key)

\* The merging iterator over the inputs passes all their entries.
MakeInputIterator(inputs0, inputs1) == UNION (inputs0 \cup inputs1)

AddInputDeletions(level, inputs0, inputs1) ==
    ({level} \X inputs0) \cup ({level + 1} \X inputs1)

\* IsTrivialMove: one file, none below, and not too many grandparents.
IsTrivialMove(level, inputs0, inputs1) ==
    LET moves == Cardinality(inputs0) = 1 /\ inputs1 = {}
        grandparents == level + 2 < NumLevels /\ InputsOver(level + 2, inputs0) # {}
    IN  IF ~moves THEN {FALSE} ELSE IF grandparents THEN BOOLEAN ELSE {TRUE}

\* BackgroundCompaction: choose the inputs and start the merge, or just move
\* the one file that has no overlap below.
StartCompaction(level, inputs0, manual) ==
    \E inputs \in SetupOtherInputs(level, inputs0) :
    \E move \in IF manual THEN {FALSE} ELSE IsTrivialMove(level, inputs[1], inputs[2]) :
        LET E == MakeInputIterator(inputs[1], inputs[2])
        IN  IF move
            THEN /\ LogAndApply({level} \X inputs[1], {level + 1} \X inputs[1])
                 /\ UNCHANGED compaction
            ELSE /\ compaction' = [level |-> level, inputs0 |-> inputs[1], inputs1 |-> inputs[2],
                                   merged |-> {x \in E : ~Dropped(level, E, x)}]
                 /\ UNCHANGED files

Idle == compaction = None /\ ~has_imm /\ ~bg_error

\* Finalize scores every level but the last by its size, and compact_pointer_
\* goes round the files of a level: as far as sizes tell, any file is next.
Finalize == UNION {{level} \X FilesAt(level) : level \in 0 .. NumLevels - 2}

\* PickCompaction: a file, in level 0 with the files that overlap it.
PickCompaction ==
    /\ Idle
    /\ \E next \in Finalize : LET level == next[1]  f == next[2] IN
          StartCompaction(level, IF level = 0 THEN InputsOver(0, {f}) ELSE {f}, FALSE)
    /\ UNCHANGED <<load, mem, imm, has_imm, last_sequence, snapshots, bg_error, history>>

\* CompactRange: the files of a level in a range; below level 0 a size limit
\* may leave the last ones for the next call.
CompactRange ==
    /\ load.manual /\ Idle
    /\ \E level \in 0 .. NumLevels - 2, lo \in load.keys, hi \in load.keys :
          LET inputs == GetOverlappingInputs(level, lo, hi)
              chosen(F) == IF level = 0 THEN F = inputs
                           ELSE \A f \in inputs, g \in F :
                                   Before(Smallest(f), Smallest(g)) => f \in F
          IN  /\ lo <= hi
              /\ \E F \in (SUBSET inputs) \ {{}} : chosen(F) /\ StartCompaction(level, F, TRUE)
    /\ UNCHANGED <<load, mem, imm, has_imm, last_sequence, snapshots, bg_error, history>>

\* An output is closed before a key that ShouldStopBefore names, or when it is
\* big enough: anywhere, as far as sizes tell.
CutPoints(n) == {C \in SUBSET (1 .. n - 1) : Cardinality(C) <= load.cuts}

\* The merged entries, in order and cut into files.
Outputs(E) ==
    LET run  == SetToSortSeq(E, Before)
        n    == Len(run)
        part(C) == {{run[i] : i \in {j \in 1 .. n : \A c \in C : (j <= c) <=> (m <= c)}} : m \in 1 .. n}
    IN  {part(C) : C \in CutPoints(n)}

\* InstallCompactionResults: apply the edit to the version current now, which
\* may have gained a flushed memtable since the inputs were chosen.
InstallCompactionResults ==
    /\ compaction # None /\ ~bg_error
    /\ \E out \in Outputs(compaction.merged) :
          LogAndApply(AddInputDeletions(compaction.level, compaction.inputs0, compaction.inputs1),
                      {compaction.level + 1} \X out)
    /\ compaction' = None
    /\ UNCHANGED <<load, mem, imm, has_imm, last_sequence, snapshots, bg_error, history>>

\* An I/O error in the background ends its work: the compaction is cleaned up,
\* an immutable memtable stays, and no write is accepted any more.
RecordBackgroundError ==
    /\ ~bg_error
    /\ has_imm \/ compaction # None
    /\ bg_error' = TRUE
    /\ compaction' = None
    /\ UNCHANGED <<load, mem, imm, has_imm, files, last_sequence, snapshots, history>>

Next ==
    \/ \E k \in load.keys, t \in load.types : Write(k, t)
    \/ SwitchMemTable
    \/ GetSnapshot
    \/ ReleaseSnapshot
    \/ CompactMemTable
    \/ PickCompaction
    \/ CompactRange
    \/ InstallCompactionResults
    \/ RecordBackgroundError

Spec == Init /\ [][Next]_vars

-----------------------------------------------------------------------------
\* "Make sure there is no overlap in levels > 0" (Builder::SaveTo, and the
\* assertion in MaybeAddFile): the files of a level are disjoint and in order.
LevelsDisjoint ==
    \A l \in Level \ {0} : \A n \in 1 .. Len(files[l]) - 1 :
        Before(Largest(files[l][n]), Smallest(files[l][n + 1]))

\* What a reader with sequence number s must see of key k.
Expected(k, s) ==
    LET seen == Visible(history, k, s)
    IN  IF seen = {} THEN Absent ELSE Result(Newest(seen))

\* Get answers with the newest write, for a reader without a snapshot and for
\* every live snapshot, whatever was flushed, moved or merged before, while a
\* merge runs, and after it failed.
ReadsCorrect ==
    \A k \in UserKey : \A s \in Range(snapshots) \cup {last_sequence} : Get(k, s) = Expected(k, s)
=============================================================================
