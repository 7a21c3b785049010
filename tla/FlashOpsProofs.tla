--------------------------- MODULE FlashOpsProofs ---------------------------
(***************************************************************************)
(* Proofs about FlashOps, for every workload, memtable size, page size and *)
(* however many tables, flushes and compactions the run has.               *)
(*                                                                         *)
(* The argument.  A table is recorded for a key before it has a range.     *)
(* Between the two a flush holds mutex_, so no Get sees its table, while a *)
(* compaction output can be seen (MutexInv, MapInv).  A user key under     *)
(* which a table is recorded was cut from a key of the table, because the  *)
(* tag begins with a byte that no user key has, and a table never loses a  *)
(* key (TablesInv, OwnInv).  A range is in SSTableClusterMap only once     *)
(* its write is in the trace, so each read follows a write of its very     *)
(* range, and the replay, which goes in order, has mapped that (TraceInv). *)
(***************************************************************************)
EXTENDS FlashOps, FiniteSetTheorems, SequenceTheorems, TLAPS

\* A table in one of these steps is recorded for its keys and has no range yet.
Unranged == {"alloc", "enter"}

Range2 == Nat \X Nat
Traced == [AccessType : {"read", "write"}, StartCluster : Nat, Length : Nat]

\* The types of the variables that the argument is about.
TypeInv ==
    /\ IsFiniteSet(mem) /\ IsFiniteSet(imm)
    /\ flush \in [pc : {"none", "build", "install"} \cup Unranged, number : Nat,
                  pages : Nat, start : Nat, ok : BOOLEAN]
    /\ DOMAIN compact = DOMAIN NoCompaction
    /\ compact.pc \in {"none", "merge"} \cup Unranged
    /\ compact.number \in Nat /\ compact.pages \in Nat /\ compact.start \in Nat
    /\ IsFiniteSet(compact.output) /\ compact.keyvalues \in Seq(compact.output)
    /\ DOMAIN lookup = {"key", "number"}
    /\ DOMAIN iter = {"pos", "valid"} /\ iter.pos \in Nat
    /\ CurrentCluster \in Nat
    /\ SSTableClusterMap \in [DOMAIN SSTableClusterMap -> Range2]
    /\ Operations \in Seq(Traced)

\* Who holds mutex_ across a step.
MutexInv ==
    /\ main = "get" => mutex_ = "main"
    /\ flush.pc \in Unranged \cup {"install"} => mutex_ = "background"

\* A table that a key is recorded under has a range, or is about to be given it.
MapInv ==
    \A name \in DOMAIN KeySSTableMap :
        \/ KeySSTableMap[name] \in DOMAIN SSTableClusterMap \cup {NoTable}
        \/ flush.pc \in Unranged /\ flush.number = KeySSTableMap[name]
        \/ compact.pc \in Unranged /\ compact.number = KeySSTableMap[name]

\* Numbers are given out in order, and what the tables under way hold.
TablesInv ==
    /\ \E n \in Nat : Used = 1 .. n
    /\ flush.pc # "none" => imm # {}
    /\ flush.pc = "build" =>
          flush.number \in Used /\ contents[flush.number] = {e.key : e \in imm}
    /\ compact.number = NoTable => compact.output = {}
    /\ compact.number # NoTable =>
          compact.number \in Used /\ contents[compact.number] = compact.output

Holds(number, k) == number \in Used /\ \E l \in contents[number] : CutFrom(k, l)

\* A table recorded for a user key, or met by a Get, holds a key it was cut from.
OwnInv ==
    /\ \A e \in mem \cup imm : e.key \in Keys
    /\ \A k \in DOMAIN KeySSTableMap \cap Keys :
          KeySSTableMap[k] # NoTable => Holds(KeySSTableMap[k], k)
    /\ main = "get" /\ lookup.number # NoTable => Holds(lookup.number, lookup.key)

WriteOf(op) == [op EXCEPT !.AccessType = "write"]

\* Every range was traced as written, ...
RangesTraced ==
    \A n \in DOMAIN SSTableClusterMap : \E j \in 1 .. Len(Operations) :
        Operations[j] = Operation("write", SSTableClusterMap[n])

\* ... every read comes after the write of its range, ...
ReadsFollow ==
    \A i \in 1 .. Len(Operations) : Operations[i].AccessType = "read" =>
        \E j \in 1 .. i - 1 : Operations[j] = WriteOf(Operations[i])

\* ... and of the writes, those that the replay has passed are mapped.
PassedMapped ==
    \A j \in 1 .. iter.pos - 1 : Operations[j].AccessType = "write" =>
        Clusters(Operations[j]) \subseteq mapped

TraceInv ==
    /\ RangesTraced /\ ReadsFollow /\ PassedMapped
    /\ iter.pos <= Len(Operations) + 1
    /\ main = "replay" => iter.pos >= 1
    /\ ReadsSucceed

Inv == TypeInv /\ MutexInv /\ MapInv /\ FlushReadsSafe /\ TablesInv /\ OwnInv /\ TraceInv

-----------------------------------------------------------------------------
LEMMA InitInv == Init => Inv
<1> SUFFICES ASSUME Init PROVE Inv
  OBVIOUS
<1> USE DEF Init, NoTable
<1>1. TypeInv
  BY FS_EmptySet DEF TypeInv, NoFlush, NoCompaction, Unranged
<1>2. MutexInv /\ MapInv /\ FlushReadsSafe
  BY DEF MutexInv, MapInv, FlushReadsSafe, NoFlush, Unranged
<1>3. TablesInv
  <2>1. Used = 1 .. 0
    BY DEF Used
  <2> QED
    BY <2>1 DEF TablesInv, NoFlush, NoCompaction
<1>4. OwnInv
  BY DEF OwnInv
<1>5. TraceInv
  BY DEF TraceInv, RangesTraced, ReadsFollow, PassedMapped, ReadsSucceed
<1> QED
  BY <1>1, <1>2, <1>3, <1>4, <1>5 DEF Inv

\* The counter of VersionSet never gives a number twice.
LEMMA Fresh ==
  ASSUME TablesInv
  PROVE  /\ NewFileNumber \notin Used /\ NewFileNumber \in Nat \ {0}
         /\ \E n \in Nat : Used \cup {NewFileNumber} = 1 .. n
<1>1. PICK n \in Nat : Used = 1 .. n
  BY DEF TablesInv
<1>2. NewFileNumber = n + 1
  <2>1. CASE n = 0
    BY <1>1, <2>1 DEF NewFileNumber
  <2>2. CASE n # 0
    <3>1. n \in Used /\ \A y \in Used : n >= y
      BY <1>1, <2>2
    <3>2. Max(Used) \in Used /\ \A y \in Used : Max(Used) >= y
      BY <3>1 DEF Max
    <3>3. Max(Used) = n
      BY <1>1, <3>1, <3>2
    <3> QED
      BY <3>1, <3>3 DEF NewFileNumber
  <2> QED
    BY <2>1, <2>2
<1> QED
  BY <1>1, <1>2

-----------------------------------------------------------------------------
(* Facts that several actions need.                                        *)

LEMMA PagesNat ==
  ASSUME NEW S, IsFiniteSet(S)
  PROVE  Pages(S) \in Nat
<1>1. Cardinality(S) \in Nat
  BY FS_CardinalityType
<1> DEFINE c == Cardinality(S) * EntrySize
<1>2. c \in Nat /\ PageSize \in Nat /\ PageSize > 0
  BY <1>1, FlashOpsAssumption
<1> HIDE DEF c
<1>3. c \div PageSize \in Nat
  BY <1>2
<1> QED
  BY <1>3 DEF Pages, c

LEMMA PushBackFacts ==
  ASSUME TypeInv, NEW op \in Traced, PushBack(op)
  PROVE  /\ Operations' = Append(Operations, op) /\ Operations' \in Seq(Traced)
         /\ Len(Operations') = Len(Operations) + 1
         /\ Operations'[Len(Operations) + 1] = op
         /\ \A i \in 1 .. Len(Operations) : Operations'[i] = Operations[i]
         /\ DOMAIN iter' = {"pos", "valid"} /\ iter'.pos = iter.pos
BY DEF TypeInv, PushBack

LEMMA OperationTraced ==
  ASSUME NEW type \in {"read", "write"}, NEW range \in Range2
  PROVE  Operation(type, range) \in Traced
BY DEF Operation, Traced, Range2

LEMMA EnterFacts ==
  ASSUME TypeInv, NEW number, NEW start \in Nat, NEW pages \in Nat,
         Enter(number, start, pages)
  PROVE  /\ DOMAIN SSTableClusterMap' = DOMAIN SSTableClusterMap \cup {number}
         /\ SSTableClusterMap' \in [DOMAIN SSTableClusterMap' -> Range2]
         /\ SSTableClusterMap'[number] = <<start, pages>>
         /\ \A n \in DOMAIN SSTableClusterMap :
               n # number => SSTableClusterMap'[n] = SSTableClusterMap[n]
         /\ Operation("write", <<start, pages>>) \in Traced
         /\ PushBack(Operation("write", <<start, pages>>))
<1>1. <<start, pages>> \in Range2
  BY DEF Range2
<1> QED
  BY <1>1, OperationTraced DEF TypeInv, Enter

-----------------------------------------------------------------------------
LEMMA TypeStep ==
  ASSUME TypeInv, TablesInv, Next
  PROVE  TypeInv'
<1> USE DEF TypeInv, treeVars, traceVars, replayVars, bgVars, Unranged, NoTable
<1>1. ASSUME NEW k \in Keys, NEW type \in {"value", "delete"}, Write(k, type)
      PROVE  TypeInv'
  <2>1. IsFiniteSet(mem') /\ IsFiniteSet(imm')
    BY <1>1, FS_AddElement, FS_Singleton DEF Write
  <2> QED
    BY <1>1, <2>1 DEF Write
<1>2. ASSUME NEW k \in Keys, NEW seek \in BOOLEAN, GetTable(k, seek)
      PROVE  TypeInv'
  BY <1>2 DEF GetTable
<1>3. CASE GetRange
  <2>1. CASE lookup.number \in DOMAIN SSTableClusterMap
    <3> DEFINE op == Operation("read", SSTableClusterMap[lookup.number])
    <3>1. op \in Traced /\ PushBack(op)
      BY <1>3, <2>1, OperationTraced DEF GetRange
    <3>2. /\ Operations' \in Seq(Traced)
          /\ DOMAIN iter' = {"pos", "valid"} /\ iter'.pos = iter.pos
      BY <3>1, PushBackFacts
    <3> QED
      BY <1>3, <3>2 DEF GetRange
  <2>2. CASE lookup.number \notin DOMAIN SSTableClusterMap
    BY <1>3, <2>2 DEF GetRange
  <2> QED
    BY <2>1, <2>2
<1>4. CASE MainReplay
  BY <1>4, SMTT(60) DEF MainReplay, StartReplay, ReplayOne, ReplayDangling, ReplayEnd, Close, Exit
<1>5. CASE BackgroundIdle
  BY <1>5 DEF BackgroundIdle
<1>6. CASE FlushStart
  <2>1. NewFileNumber \in Nat
    BY Fresh
  <2> QED
    BY <1>6, <2>1 DEF FlushStart, NoFlush
<1>7. ASSUME NEW ok \in BOOLEAN, FlushKeys(ok)
      PROVE  TypeInv'
  <2>1. Pages(imm) \in Nat
    BY PagesNat
  <2> QED
    BY <1>7, <2>1 DEF FlushKeys
<1>8. CASE FlushAllocate
  <2>1. /\ flush' = [flush EXCEPT !.pc = "enter", !.start = CurrentCluster]
        /\ CurrentCluster' = CurrentCluster + flush.pages
        /\ UNCHANGED <<mem, imm, compact, lookup, iter, SSTableClusterMap, Operations>>
    BY <1>8 DEF FlushAllocate, Allocate
  <2>2. CurrentCluster' \in Nat
    BY <2>1
  <2> QED
    BY <2>1, <2>2
<1>9. CASE FlushEnter
  <2>1. Enter(flush.number, flush.start, flush.pages) /\ flush.start \in Nat /\ flush.pages \in Nat
    BY <1>9 DEF FlushEnter
  <2>2. /\ SSTableClusterMap' \in [DOMAIN SSTableClusterMap' -> Range2]
        /\ Operation("write", <<flush.start, flush.pages>>) \in Traced
        /\ PushBack(Operation("write", <<flush.start, flush.pages>>))
    BY <2>1, EnterFacts
  <2>3. /\ Operations' \in Seq(Traced)
        /\ DOMAIN iter' = {"pos", "valid"} /\ iter'.pos = iter.pos
    BY <2>2, PushBackFacts
  <2> QED
    BY <1>9, <2>2, <2>3 DEF FlushEnter
<1>10. ASSUME NEW more \in BOOLEAN, FlushInstall(more)
       PROVE  TypeInv'
  BY <1>10, FS_EmptySet DEF FlushInstall, NoFlush
<1>11. ASSUME NEW inputs, CompactStart(inputs)
       PROVE  TypeInv'
  BY <1>11, FS_EmptySet DEF CompactStart, NoCompaction
<1>12. ASSUME NEW drop \in BOOLEAN, CompactKey(drop)
       PROVE  TypeInv'
  <2> DEFINE k == Head(compact.rest)
             number == IF compact.number = NoTable THEN NewFileNumber ELSE compact.number
  <2>1. CASE drop
    BY <1>12, <2>1 DEF CompactKey, NoCompaction
  <2>2. CASE ~drop
    <3>1. compact' = [compact EXCEPT !.rest = Tail(compact.rest), !.number = number,
                        !.keyvalues = Append(compact.keyvalues, k),
                        !.output = compact.output \cup {k}]
      BY <1>12, <2>2 DEF CompactKey
    <3>2. number \in Nat
      BY Fresh
    <3>3. IsFiniteSet(compact.output \cup {k})
      BY FS_AddElement
    <3> HIDE DEF k, number
    <3>4. Append(compact.keyvalues, k) \in Seq(compact.output \cup {k})
      OBVIOUS
    <3>5. UNCHANGED <<mem, imm, flush, lookup, iter, CurrentCluster, SSTableClusterMap, Operations>>
      BY <1>12 DEF CompactKey
    <3>6. /\ DOMAIN compact' = DOMAIN NoCompaction /\ compact'.pc = compact.pc
          /\ compact'.number = number /\ compact'.output = compact.output \cup {k}
          /\ compact'.keyvalues = Append(compact.keyvalues, k)
          /\ compact'.pages = compact.pages /\ compact'.start = compact.start
      BY <3>1 DEF NoCompaction
    <3> QED
      BY <3>2, <3>3, <3>4, <3>5, <3>6
  <2> QED
    BY <2>1, <2>2
<1>13. CASE FinishKeys
  <2>1. Pages(compact.output) \in Nat
    BY PagesNat
  <2> QED
    BY <1>13, <2>1 DEF FinishKeys, NoCompaction
<1>14. CASE FinishAllocate
  BY <1>14 DEF FinishAllocate, Allocate, NoCompaction
<1>15. CASE FinishEnter
  <2>1. /\ Enter(compact.number, compact.start, compact.pages)
        /\ compact.start \in Nat /\ compact.pages \in Nat
    BY <1>15 DEF FinishEnter
  <2>2. /\ SSTableClusterMap' \in [DOMAIN SSTableClusterMap' -> Range2]
        /\ Operation("write", <<compact.start, compact.pages>>) \in Traced
        /\ PushBack(Operation("write", <<compact.start, compact.pages>>))
    BY <2>1, EnterFacts
  <2>3. /\ Operations' \in Seq(Traced)
        /\ DOMAIN iter' = {"pos", "valid"} /\ iter'.pos = iter.pos
    BY <2>2, PushBackFacts
  <2> QED
    BY <1>15, <2>2, <2>3, FS_EmptySet DEF FinishEnter, NoCompaction, NoTable
<1>16. CASE FinishFails \/ CompactStop
  <2>1. /\ compact' = NoCompaction
        /\ UNCHANGED <<mem, imm, flush, lookup, iter, CurrentCluster, SSTableClusterMap, Operations>>
    BY <1>16 DEF FinishFails, CompactStop
  <2> QED
    BY <2>1, FS_EmptySet DEF NoCompaction
<1>17. ASSUME NEW more \in BOOLEAN, CompactInstall(more)
       PROVE  TypeInv'
  BY <1>17, FS_EmptySet DEF CompactInstall, NoCompaction, NoTable
<1> QED
  BY <1>1, <1>2, <1>3, <1>4, <1>5, <1>6, <1>7, <1>8, <1>9, <1>10, <1>11, <1>12, <1>13,
     <1>14, <1>15, <1>16, <1>17 DEF Next, Main, Background

-----------------------------------------------------------------------------
(* A table a Get meets has a range, unless a compaction shows it early.    *)

LEMMA RecordFacts ==
  ASSUME NEW names, NEW number, RecordKeys(names, number)
  PROVE  /\ DOMAIN KeySSTableMap' = DOMAIN KeySSTableMap \cup names
         /\ \A name \in names : KeySSTableMap'[name] = number
         /\ \A name \in DOMAIN KeySSTableMap \ names : KeySSTableMap'[name] = KeySSTableMap[name]
BY DEF RecordKeys

LEMMA MapStep ==
  ASSUME TypeInv, MutexInv, MapInv, FlushReadsSafe, Next
  PROVE  MutexInv' /\ MapInv' /\ FlushReadsSafe'
<1> DEFINE Goal == MutexInv' /\ MapInv' /\ FlushReadsSafe'
<1> USE DEF TypeInv, MutexInv, MapInv, FlushReadsSafe, treeVars, traceVars, replayVars, bgVars,
            Unranged, NoTable
<1>1. ASSUME NEW k \in Keys, NEW type \in {"value", "delete"}, Write(k, type)
      PROVE  Goal
  BY <1>1 DEF Write
<1>2. ASSUME NEW k \in Keys, NEW seek \in BOOLEAN, GetTable(k, seek)
      PROVE  Goal
  <2>1. /\ DOMAIN KeySSTableMap' = DOMAIN KeySSTableMap \cup {k}
        /\ \A name \in DOMAIN KeySSTableMap' :
              KeySSTableMap'[name] = IF name \in DOMAIN KeySSTableMap
                                     THEN KeySSTableMap[name] ELSE 0
        /\ lookup'.number = KeySSTableMap'[k]
        /\ mutex_ = "free" /\ mutex_' = "main"
        /\ UNCHANGED <<SSTableClusterMap, flush, compact>>
    BY <1>2 DEF GetTable
  <2>2. MapInv'
    BY <2>1
  <2> QED
    BY <2>1, <2>2
<1>3. CASE GetRange
  <2>1. /\ main' # "get" /\ mutex_ = "main" /\ mutex_' = "free"
        /\ UNCHANGED <<KeySSTableMap, SSTableClusterMap, flush, compact>>
    BY <1>3 DEF GetRange
  <2> QED
    BY <2>1
<1>4. CASE MainReplay
  BY <1>4 DEF MainReplay, StartReplay, ReplayOne, ReplayDangling, ReplayEnd, Close, Exit
<1>5. CASE BackgroundIdle
  BY <1>5 DEF BackgroundIdle
<1>6. CASE FlushStart
  <2>1. /\ flush.pc = "none" /\ flush'.pc = "build" /\ mutex_ = "free"
        /\ UNCHANGED <<main, lookup, mutex_, KeySSTableMap, SSTableClusterMap, compact>>
    BY <1>6 DEF FlushStart, NoFlush
  <2> QED
    BY <2>1
<1>7. ASSUME NEW ok \in BOOLEAN, FlushKeys(ok)
      PROVE  Goal
  <2> DEFINE names == {FlushedKey(e) : e \in imm}
  <2>1. /\ flush.pc = "build" /\ flush'.pc = "alloc" /\ flush'.number = flush.number
        /\ mutex_ = "free" /\ mutex_' = "background"
        /\ RecordKeys(names, flush.number)
        /\ UNCHANGED <<main, lookup, SSTableClusterMap, compact>>
    BY <1>7 DEF FlushKeys
  <2> HIDE DEF names
  <2>2. /\ DOMAIN KeySSTableMap' = DOMAIN KeySSTableMap \cup names
        /\ \A name \in names : KeySSTableMap'[name] = flush.number
        /\ \A name \in DOMAIN KeySSTableMap \ names : KeySSTableMap'[name] = KeySSTableMap[name]
    BY <2>1, RecordFacts
  <2>3. MapInv'
    BY <2>1, <2>2
  <2> QED
    BY <2>1, <2>3
<1>8. CASE FlushAllocate
  <2>1. /\ flush.pc = "alloc" /\ flush'.pc = "enter" /\ flush'.number = flush.number
        /\ UNCHANGED <<main, lookup, mutex_, KeySSTableMap, SSTableClusterMap, compact>>
    BY <1>8 DEF FlushAllocate
  <2> QED
    BY <2>1
<1>9. CASE FlushEnter
  <2>1. /\ flush.pc = "enter" /\ flush'.pc = "install"
        /\ Enter(flush.number, flush.start, flush.pages) /\ flush.start \in Nat /\ flush.pages \in Nat
        /\ UNCHANGED <<main, lookup, mutex_, KeySSTableMap, compact>>
    BY <1>9 DEF FlushEnter
  <2>2. DOMAIN SSTableClusterMap' = DOMAIN SSTableClusterMap \cup {flush.number}
    BY <2>1, EnterFacts
  <2> QED
    BY <2>1, <2>2
<1>10. ASSUME NEW more \in BOOLEAN, FlushInstall(more)
       PROVE  Goal
  <2>1. /\ flush.pc = "install" /\ flush'.pc = "none" /\ mutex_' = "free"
        /\ UNCHANGED <<main, lookup, KeySSTableMap, SSTableClusterMap, compact>>
    BY <1>10 DEF FlushInstall, NoFlush
  <2> QED
    BY <2>1
<1>11. ASSUME NEW inputs, CompactStart(inputs)
       PROVE  Goal
  <2>1. /\ compact.pc = "none" /\ compact'.pc = "merge"
        /\ UNCHANGED <<main, lookup, mutex_, KeySSTableMap, SSTableClusterMap, flush>>
    BY <1>11 DEF CompactStart, NoCompaction
  <2> QED
    BY <2>1
<1>12. ASSUME NEW drop \in BOOLEAN, CompactKey(drop)
       PROVE  Goal
  <2>1. /\ compact.pc = "merge" /\ compact'.pc = "merge"
        /\ UNCHANGED <<main, lookup, mutex_, KeySSTableMap, SSTableClusterMap, flush>>
    BY <1>12 DEF CompactKey, NoCompaction
  <2> QED
    BY <2>1
<1>13. CASE FinishKeys
  <2> DEFINE names == {compact.keyvalues[i] : i \in DOMAIN compact.keyvalues}
  <2>1. /\ compact.pc = "merge" /\ compact'.pc = "alloc" /\ compact'.number = compact.number
        /\ RecordKeys(names, compact.number)
        /\ UNCHANGED <<main, lookup, mutex_, SSTableClusterMap, flush>>
    BY <1>13 DEF FinishKeys, NoCompaction
  <2> HIDE DEF names
  <2>2. /\ DOMAIN KeySSTableMap' = DOMAIN KeySSTableMap \cup names
        /\ \A name \in names : KeySSTableMap'[name] = compact.number
        /\ \A name \in DOMAIN KeySSTableMap \ names : KeySSTableMap'[name] = KeySSTableMap[name]
    BY <2>1, RecordFacts
  <2>3. MapInv'
    BY <2>1, <2>2
  <2> QED
    BY <2>1, <2>3
<1>14. CASE FinishAllocate
  <2>1. /\ compact.pc = "alloc" /\ compact'.pc = "enter" /\ compact'.number = compact.number
        /\ UNCHANGED <<main, lookup, mutex_, KeySSTableMap, SSTableClusterMap, flush>>
    BY <1>14 DEF FinishAllocate, NoCompaction
  <2> QED
    BY <2>1
<1>15. CASE FinishEnter
  <2>1. /\ compact.pc = "enter" /\ compact'.pc = "merge"
        /\ Enter(compact.number, compact.start, compact.pages)
        /\ compact.start \in Nat /\ compact.pages \in Nat
        /\ UNCHANGED <<main, lookup, mutex_, KeySSTableMap, flush>>
    BY <1>15 DEF FinishEnter, NoCompaction
  <2>2. DOMAIN SSTableClusterMap' = DOMAIN SSTableClusterMap \cup {compact.number}
    BY <2>1, EnterFacts
  <2> QED
    BY <2>1, <2>2
<1>16. CASE FinishFails \/ CompactStop \/ \E more \in BOOLEAN : CompactInstall(more)
  <2>1. /\ compact.pc = "merge" /\ compact'.pc = "none"
        /\ UNCHANGED <<main, lookup, mutex_, KeySSTableMap, SSTableClusterMap, flush>>
    BY <1>16 DEF FinishFails, CompactStop, CompactInstall, NoCompaction
  <2> QED
    BY <2>1
<1> QED
  BY <1>1, <1>2, <1>3, <1>4, <1>5, <1>6, <1>7, <1>8, <1>9, <1>10, <1>11, <1>12, <1>13,
     <1>14, <1>15, <1>16 DEF Next, Main, Background

-----------------------------------------------------------------------------
(* A table a Get meets holds, or once held, the key.                       *)

\* contents changes only in a way that no table loses a key.
Growing == \A n \in Used : n \in Used' /\ contents[n] \subseteq contents'[n]

LEMMA TablesStep ==
  ASSUME TypeInv, TablesInv, Next
  PROVE  TablesInv' /\ Growing
<1> USE DEF TypeInv, TablesInv, Growing, Used, treeVars, traceVars, replayVars, bgVars,
            Unranged, NoTable
<1>1. ASSUME NEW k \in Keys, NEW type \in {"value", "delete"}, Write(k, type)
      PROVE  TablesInv' /\ Growing
  <2>1. /\ UNCHANGED <<contents, flush, compact>>
        /\ imm # {} => imm' = imm
    BY <1>1 DEF Write
  <2> QED
    BY <2>1
<1>2. CASE \/ \E k \in Keys, seek \in BOOLEAN : GetTable(k, seek)
           \/ GetRange \/ MainReplay \/ BackgroundIdle
  <2>1. UNCHANGED <<imm, contents, flush, compact>>
    BY <1>2 DEF GetTable, GetRange, MainReplay, StartReplay, ReplayOne, ReplayDangling,
                ReplayEnd, Close, Exit, BackgroundIdle
  <2> QED
    BY <2>1
<1>3. CASE FlushStart
  <2>1. /\ flush'.pc = "build" /\ flush'.number = NewFileNumber
        /\ DOMAIN contents' = Used \cup {NewFileNumber}
        /\ \A n \in DOMAIN contents' : n \in Used => contents'[n] = contents[n]
        /\ NewFileNumber \notin Used => contents'[NewFileNumber] = {e.key : e \in imm}
        /\ imm # {} /\ UNCHANGED <<imm, compact>>
    BY <1>3 DEF FlushStart, NoFlush
  <2>2. NewFileNumber \notin Used /\ \E n \in Nat : Used \cup {NewFileNumber} = 1 .. n
    BY Fresh
  <2> QED
    BY <2>1, <2>2
<1>4. CASE \/ \E ok \in BOOLEAN : FlushKeys(ok)
           \/ FlushAllocate \/ FlushEnter
  <2>1. /\ flush.pc \in {"build", "alloc", "enter"} /\ flush'.pc \in {"alloc", "enter", "install"}
        /\ UNCHANGED <<imm, contents, compact>>
    BY <1>4 DEF FlushKeys, FlushAllocate, FlushEnter
  <2> QED
    BY <2>1
<1>5. ASSUME NEW more \in BOOLEAN, FlushInstall(more)
      PROVE  TablesInv' /\ Growing
  <2>1. flush'.pc = "none" /\ UNCHANGED <<contents, compact>>
    BY <1>5 DEF FlushInstall, NoFlush
  <2> QED
    BY <2>1
<1>6. ASSUME NEW inputs, CompactStart(inputs)
      PROVE  TablesInv' /\ Growing
  <2>1. /\ compact'.number = 0 /\ compact'.output = {}
        /\ UNCHANGED <<imm, contents, flush>>
    BY <1>6 DEF CompactStart, NoCompaction
  <2> QED
    BY <2>1
<1>7. ASSUME NEW drop \in BOOLEAN, CompactKey(drop)
      PROVE  TablesInv' /\ Growing
  <2>1. CASE drop
    <3>1. /\ compact'.number = compact.number /\ compact'.output = compact.output
          /\ UNCHANGED <<imm, contents, flush>>
      BY <1>7, <2>1 DEF CompactKey, NoCompaction
    <3> QED
      BY <3>1
  <2>2. CASE ~drop
    <3> DEFINE k == Head(compact.rest)
               number == IF compact.number = 0 THEN NewFileNumber ELSE compact.number
    <3>0. /\ flush.pc = "none" /\ flush' = flush
          /\ compact' = [compact EXCEPT !.rest = Tail(compact.rest), !.number = number,
                            !.keyvalues = Append(compact.keyvalues, k),
                            !.output = compact.output \cup {k}]
          /\ contents' = [n \in Used \cup {number} |->
                            IF n = number THEN compact.output \cup {k} ELSE contents[n]]
      BY <1>7, <2>2 DEF CompactKey
    <3>1. /\ compact'.number = number /\ compact'.output = compact.output \cup {k}
          /\ DOMAIN contents' = Used \cup {number}
          /\ contents'[number] = compact.output \cup {k}
          /\ \A n \in Used : n # number => contents'[n] = contents[n]
      BY <3>0 DEF NoCompaction
    <3> HIDE DEF k
    <3>2. CASE compact.number = 0
      <4>1. /\ number \notin Used /\ number \in Nat \ {0}
            /\ \E n \in Nat : Used \cup {number} = 1 .. n
        BY <3>2, Fresh
      <4> HIDE DEF number
      <4> QED
        BY <3>0, <3>1, <3>2, <4>1
    <3>3. CASE compact.number # 0
      <4>1. number \in Used /\ contents[number] = compact.output /\ number # 0
        BY <3>3
      <4> HIDE DEF number
      <4>2. DOMAIN contents' = Used
        BY <3>1, <4>1
      <4> QED
        BY <3>0, <3>1, <3>3, <4>1, <4>2
    <3> QED
      BY <3>2, <3>3
  <2> QED
    BY <2>1, <2>2
<1>8. CASE FinishKeys \/ FinishAllocate
  <2>1. /\ compact'.number = compact.number /\ compact'.output = compact.output
        /\ UNCHANGED <<imm, contents, flush>>
    <3>1. CASE FinishKeys
      BY <3>1, SMTT(60) DEF FinishKeys, NoCompaction
    <3>2. CASE FinishAllocate
      BY <3>2, SMTT(60) DEF FinishAllocate, NoCompaction
    <3> QED
      BY <1>8, <3>1, <3>2
  <2> QED
    BY <2>1
<1>9. CASE FinishEnter
  <2>1. /\ compact'.number = 0 /\ compact'.output = {}
        /\ UNCHANGED <<imm, contents, flush>>
    BY <1>9 DEF FinishEnter, NoCompaction
  <2> QED
    BY <2>1
<1>10. CASE FinishFails \/ CompactStop \/ \E more \in BOOLEAN : CompactInstall(more)
  <2>1. /\ compact'.number = 0 /\ compact'.output = {}
        /\ UNCHANGED <<imm, contents, flush>>
    BY <1>10 DEF FinishFails, CompactStop, CompactInstall, NoCompaction
  <2> QED
    BY <2>1
<1> HIDE DEF TypeInv, TablesInv, Growing, Used
<1> QED
  BY <1>1, <1>2, <1>3, <1>4, <1>5, <1>6, <1>7, <1>8, <1>9, <1>10 DEF Next, Main, Background

\* The string of a tag is a sequence, and begins with the type.
LEMMA TagFacts ==
  ASSUME NEW e
  PROVE  \E S : /\ TagString(e) \in Seq(S)
                /\ Len(TagString(e)) > 0 => TagString(e)[1] = kTypeValue
<1>1. Cardinality(LowBytes(e.seq)) \in Nat
  <2>1. IsFiniteSet(1 .. kSequenceBytes)
    <3>1. kSequenceBytes \in Int /\ 1 \in Int
      BY DEF kSequenceBytes
    <3> QED
      BY <3>1, FS_Interval
  <2>2. IsFiniteSet(LowBytes(e.seq))
    BY <2>1, FS_Subset DEF LowBytes
  <2> QED
    BY <2>2, FS_CardinalityType
<1> DEFINE n == Cardinality(LowBytes(e.seq))
           bytes == [i \in 1 .. n |-> Byte(e.seq, i)]
           S == {kTypeValue} \cup {Byte(e.seq, i) : i \in 1 .. n}
<1>2. bytes \in Seq(S)
  BY <1>1
<1>3. <<kTypeValue>> \in Seq(S) /\ Len(<<kTypeValue>>) = 1 /\ <<kTypeValue>>[1] = kTypeValue
  OBVIOUS
<1> HIDE DEF bytes, S
<1>4. <<kTypeValue>> \o bytes \in Seq(S) /\ (<<kTypeValue>> \o bytes)[1] = kTypeValue
  BY <1>2, <1>3, ConcatProperties
<1>5. CASE e.type = "delete"
  <2>1. TagString(e) = <<>>
    BY <1>5 DEF TagString
  <2> QED
    BY <2>1
<1>6. CASE e.type # "delete"
  <2>1. TagString(e) = <<kTypeValue>> \o bytes
    BY <1>6 DEF TagString, bytes
  <2> QED
    BY <1>4, <2>1
<1> QED
  BY <1>5, <1>6

\* If WriteLevel0Table records a user key, it was cut from the entry's.
LEMMA FlushedName ==
  ASSUME NEW e, e.key \in Keys, FlushedKey(e) \in Keys
  PROVE  CutFrom(FlushedKey(e), e.key)
<1> DEFINE k == e.key
           tag == TagString(e)
           t == k \o tag
           name == FlushedKey(e)
<1>1. PICK S : tag \in Seq(S) /\ (Len(tag) > 0 => tag[1] = kTypeValue)
  BY TagFacts
<1>2. /\ k \in Seq(Nat \ {0, kTypeValue}) /\ name \in Seq(Nat \ {0, kTypeValue})
  BY KeyAssumption
<1>3. name = IF Len(t) < 4 THEN t ELSE SubSeq(t, 1, Len(t) - 4)
  BY DEF FlushedKey
<1> HIDE DEF k, tag, name
<1> DEFINE U == S \cup Nat
<1>4. k \in Seq(U) /\ tag \in Seq(U)
  <2>1. k \in Seq(Nat) /\ Len(k) \in Nat /\ Len(tag) \in Nat
    BY <1>1, <1>2
  <2> QED
    BY <1>1, <2>1
<1>5. /\ t \in Seq(U) /\ Len(t) = Len(k) + Len(tag)
      /\ Len(k) \in Nat /\ Len(tag) \in Nat /\ Len(name) \in Nat
      /\ \A i \in 1 .. Len(k) : t[i] = k[i]
      /\ Len(tag) > 0 => t[Len(k) + 1] = kTypeValue
  <2> HIDE DEF U
  <2>1. /\ t \in Seq(U) /\ Len(t) = Len(k) + Len(tag)
        /\ \A i \in 1 .. Len(k) + Len(tag) :
              t[i] = IF i <= Len(k) THEN k[i] ELSE tag[i - Len(k)]
    BY <1>4, ConcatProperties
  <2>2. Len(k) \in Nat /\ Len(tag) \in Nat /\ Len(name) \in Nat
    BY <1>1, <1>2
  <2> QED
    BY <1>1, <2>1, <2>2
<1> HIDE DEF t, U
<1>6. \A i \in 1 .. Len(name) : name[i] # kTypeValue
  BY <1>2
<1>7. CASE Len(t) < 4
  <2>1. name = t
    BY <1>3, <1>7
  <2>2. Len(tag) = 0
    BY <1>5, <1>6, <2>1
  <2>3. Len(name) = Len(k) /\ \A i \in 1 .. Len(k) : name[i] = k[i]
    BY <1>5, <2>1, <2>2
  <2>4. SubSeq(k, 1, Len(name)) = name
    BY <1>2, <1>5, <2>3
  <2> QED
    BY <1>5, <2>3, <2>4 DEF CutFrom, name, k
<1>8. CASE ~(Len(t) < 4)
  <2>1. /\ Len(name) = Len(k) + Len(tag) - 4
        /\ \A i \in 1 .. Len(name) : name[i] = t[i]
    <3>1. name = SubSeq(t, 1, Len(t) - 4)
      BY <1>3, <1>8
    <3> QED
      BY <1>5, <1>8, <3>1, SubSeqProperties
  <2>2. Len(tag) <= 4
    BY <1>5, <1>6, <2>1
  <2>3. Len(k) - Len(name) \in 0 .. 4 /\ \A i \in 1 .. Len(name) : name[i] = k[i]
    <3> DEFINE lk == Len(k)
               ln == Len(name)
               lt == Len(tag)
    <3>1. lk \in Nat /\ lt \in Nat /\ ln = lk + lt - 4 /\ lt <= 4
      BY <1>5, <2>1, <2>2
    <3> HIDE DEF lk, ln, lt
    <3>2. ln <= lk /\ lk - ln \in 0 .. 4
      BY <3>1
    <3>3. Len(name) <= Len(k) /\ Len(k) - Len(name) \in 0 .. 4
      BY <3>2 DEF lk, ln
    <3>4. ASSUME NEW i \in 1 .. Len(name) PROVE name[i] = k[i]
      <4>1. i \in 1 .. Len(k)
        BY <1>5, <3>3
      <4> QED
        BY <1>5, <2>1, <4>1
    <3> QED
      BY <3>3, <3>4
  <2>4. SubSeq(k, 1, Len(name)) = name
    BY <1>2, <1>5, <2>3
  <2> QED
    BY <2>3, <2>4 DEF CutFrom, name, k
<1> QED
  BY <1>5, <1>7, <1>8

LEMMA OwnName ==
  ASSUME NEW k \in Keys
  PROVE  CutFrom(k, k)
<1>1. k \in Seq(Nat \ {0, kTypeValue})
  BY KeyAssumption
<1>2. Len(k) \in Nat /\ SubSeq(k, 1, Len(k)) = k
  BY <1>1
<1> QED
  BY <1>2 DEF CutFrom

\* What a step leaves recorded, and what a Get has met, is held after it.
HoldsNext(number, k) == number \in Used' /\ \E l \in contents'[number] : CutFrom(k, l)

LEMMA StillHeld ==
  ASSUME OwnInv, Growing
  PROVE  /\ \A k \in DOMAIN KeySSTableMap \cap Keys :
               KeySSTableMap[k] # NoTable => HoldsNext(KeySSTableMap[k], k)
         /\ main = "get" /\ lookup.number # NoTable => HoldsNext(lookup.number, lookup.key)
BY DEF OwnInv, Growing, Holds, HoldsNext

LEMMA OwnParts ==
  ASSUME \A e \in mem' \cup imm' : e.key \in Keys,
         \A k \in DOMAIN KeySSTableMap' \cap Keys :
            KeySSTableMap'[k] # NoTable => HoldsNext(KeySSTableMap'[k], k),
         main' = "get" /\ lookup'.number # NoTable => HoldsNext(lookup'.number, lookup'.key)
  PROVE  OwnInv'
BY DEF OwnInv, Holds, HoldsNext, CutFrom, NoTable

LEMMA OwnStep ==
  ASSUME TypeInv, TablesInv, OwnInv, Next, Growing
  PROVE  OwnInv'
<1> USE DEF treeVars, traceVars, replayVars, bgVars, Unranged
<1>0. \A e \in mem \cup imm : e.key \in Keys
  BY DEF OwnInv
<1>1. ASSUME \A e \in mem' \cup imm' : e.key \in Keys,
             main' = "get" => main = "get" /\ lookup' = lookup, UNCHANGED KeySSTableMap
      PROVE  OwnInv'
  BY <1>1, StillHeld, OwnParts
<1>2. ASSUME NEW k \in Keys, NEW seek \in BOOLEAN, GetTable(k, seek)
      PROVE  OwnInv'
  <2>1. /\ DOMAIN KeySSTableMap' = DOMAIN KeySSTableMap \cup {k}
        /\ \A name \in DOMAIN KeySSTableMap' :
              KeySSTableMap'[name] = IF name \in DOMAIN KeySSTableMap
                                     THEN KeySSTableMap[name] ELSE NoTable
        /\ lookup'.number = KeySSTableMap'[k] /\ lookup'.key = k
        /\ UNCHANGED <<mem, imm>>
    BY <1>2 DEF GetTable
  <2>2. \A l \in DOMAIN KeySSTableMap' \cap Keys :
           KeySSTableMap'[l] # NoTable => HoldsNext(KeySSTableMap'[l], l)
    BY <2>1, StillHeld
  <2>3. lookup'.number # NoTable => HoldsNext(lookup'.number, lookup'.key)
    BY <2>1, <2>2
  <2> QED
    BY <1>0, <2>1, <2>2, <2>3, OwnParts
<1>3. ASSUME NEW names, NEW number, RecordKeys(names, number),
             UNCHANGED <<mem, imm, main, lookup>>,
             \A k \in names \cap Keys : HoldsNext(number, k)
      PROVE  OwnInv'
  <2>1. /\ DOMAIN KeySSTableMap' = DOMAIN KeySSTableMap \cup names
        /\ \A name \in names : KeySSTableMap'[name] = number
        /\ \A name \in DOMAIN KeySSTableMap \ names : KeySSTableMap'[name] = KeySSTableMap[name]
    BY <1>3, RecordFacts
  <2>2. \A l \in DOMAIN KeySSTableMap' \cap Keys :
           KeySSTableMap'[l] # NoTable => HoldsNext(KeySSTableMap'[l], l)
    BY <1>3, <2>1, StillHeld
  <2>3. main' = "get" /\ lookup'.number # NoTable => HoldsNext(lookup'.number, lookup'.key)
    BY <1>3, StillHeld
  <2> QED
    BY <1>0, <1>3, <2>2, <2>3, OwnParts
<1>4. ASSUME NEW ok \in BOOLEAN, FlushKeys(ok)
      PROVE  OwnInv'
  <2> DEFINE names == {FlushedKey(e) : e \in imm}
  <2>1. /\ flush.pc = "build" /\ RecordKeys(names, flush.number)
        /\ UNCHANGED <<mem, imm, main, lookup, contents>>
    BY <1>4 DEF FlushKeys
  <2>2. flush.number \in Used /\ contents[flush.number] = {e.key : e \in imm}
    BY <2>1 DEF TablesInv
  <2>3. ASSUME NEW k \in names \cap Keys
        PROVE  HoldsNext(flush.number, k)
    <3>1. PICK e \in imm : k = FlushedKey(e)
      OBVIOUS
    <3>2. CutFrom(k, e.key)
      BY <1>0, <3>1, FlushedName
    <3> QED
      BY <2>1, <2>2, <3>2 DEF HoldsNext, Used
  <2> HIDE DEF names
  <2> QED
    BY <1>3, <2>1, <2>3
<1>5. CASE FinishKeys
  <2> DEFINE names == {compact.keyvalues[i] : i \in DOMAIN compact.keyvalues}
  <2>1. /\ RecordKeys(names, compact.number) /\ compact.number # NoTable
        /\ UNCHANGED <<mem, imm, main, lookup, contents>>
    BY <1>5 DEF FinishKeys
  <2>2. compact.number \in Used /\ contents[compact.number] = compact.output
    BY <2>1 DEF TablesInv
  <2>3. names \subseteq compact.output
    BY DEF TypeInv
  <2>4. ASSUME NEW k \in names \cap Keys
        PROVE  HoldsNext(compact.number, k)
    <3>1. k \in compact.output /\ CutFrom(k, k)
      BY <2>3, OwnName
    <3> QED
      BY <2>1, <2>2, <3>1 DEF HoldsNext, Used
  <2> HIDE DEF names
  <2> QED
    BY <1>3, <2>1, <2>4
<1>6. ASSUME NEW k \in Keys, NEW type \in {"value", "delete"}, Write(k, type)
      PROVE  OwnInv'
  <2> DEFINE e == [key |-> k, seq |-> FirstSequence + calls.put + 1, type |-> type]
  <2>1. /\ mem' \subseteq mem \cup {e} /\ imm' \subseteq mem \cup imm
        /\ UNCHANGED <<main, lookup, KeySSTableMap>>
    BY <1>6 DEF Write
  <2>2. e.key = k
    OBVIOUS
  <2> HIDE DEF e
  <2>3. \A f \in mem' \cup imm' : f.key \in Keys
    BY <1>0, <2>1, <2>2
  <2> QED
    BY <1>1, <2>1, <2>3
<1>7. CASE GetRange \/ MainReplay
  <2>1. main' = "get" => main = "get" /\ lookup' = lookup
    BY <1>7 DEF GetRange, MainReplay, StartReplay, ReplayOne, ReplayDangling,
                ReplayEnd, Close, Exit
  <2>2. UNCHANGED <<mem, imm, KeySSTableMap>>
    BY <1>7 DEF GetRange, MainReplay, StartReplay, ReplayOne, ReplayDangling,
                ReplayEnd, Close, Exit
  <2> QED
    BY <1>0, <1>1, <2>1, <2>2
<1>8. CASE \/ FlushStart \/ FlushAllocate \/ FlushEnter \/ BackgroundIdle
           \/ \E more \in BOOLEAN : FlushInstall(more) \/ CompactInstall(more)
           \/ \E inputs : CompactStart(inputs)
           \/ \E drop \in BOOLEAN : CompactKey(drop)
           \/ FinishAllocate \/ FinishEnter \/ FinishFails \/ CompactStop
  <2>1. /\ UNCHANGED <<main, lookup, KeySSTableMap>>
        /\ mem' = mem /\ imm' \subseteq imm
    BY <1>8 DEF FlushStart, FlushAllocate, FlushEnter, BackgroundIdle, FlushInstall,
                CompactInstall, CompactStart, CompactKey, FinishAllocate, FinishEnter,
                FinishFails, CompactStop
  <2>2. \A e \in mem' \cup imm' : e.key \in Keys
    BY <1>0, <2>1
  <2> QED
    BY <1>1, <2>1, <2>2
<1> QED
  BY <1>2, <1>4, <1>5, <1>6, <1>7, <1>8 DEF Next, Main, Background

-----------------------------------------------------------------------------
(* A replayed read finds its clusters mapped.                              *)

\* push_back of a write, or of a read of a range that is entered.
LEMMA PushedTrace ==
  ASSUME TypeInv, TraceInv, NEW op \in Traced, PushBack(op), mapped' = mapped,
         \/ op.AccessType = "write"
         \/ \E n \in DOMAIN SSTableClusterMap : op = Operation("read", SSTableClusterMap[n])
  PROVE  ReadsFollow' /\ PassedMapped' /\ iter'.pos = iter.pos /\ iter'.pos <= Len(Operations') + 1
<1>1. /\ Operations' \in Seq(Traced) /\ Len(Operations') = Len(Operations) + 1
      /\ Operations'[Len(Operations) + 1] = op
      /\ \A i \in 1 .. Len(Operations) : Operations'[i] = Operations[i]
      /\ iter'.pos = iter.pos
  BY PushBackFacts
<1>2. Len(Operations) \in Nat /\ iter.pos \in Nat /\ iter.pos <= Len(Operations) + 1
  BY DEF TypeInv, TraceInv
<1>3. PassedMapped'
  <2> SUFFICES ASSUME NEW j \in 1 .. iter.pos - 1, Operations'[j].AccessType = "write"
               PROVE  Clusters(Operations'[j]) \subseteq mapped
    BY <1>1 DEF PassedMapped, Clusters
  <2>1. j \in 1 .. Len(Operations) /\ Operations'[j] = Operations[j]
    BY <1>1, <1>2
  <2> QED
    BY <2>1 DEF TraceInv, PassedMapped
<1>4. ReadsFollow'
  <2> SUFFICES ASSUME NEW i \in 1 .. Len(Operations) + 1, Operations'[i].AccessType = "read"
               PROVE  \E j \in 1 .. i - 1 : Operations'[j] = WriteOf(Operations'[i])
    BY <1>1 DEF ReadsFollow, WriteOf
  <2>1. CASE i \in 1 .. Len(Operations)
    <3>1. PICK j \in 1 .. i - 1 : Operations[j] = WriteOf(Operations[i])
      BY <1>1, <2>1 DEF TraceInv, ReadsFollow
    <3>2. j \in 1 .. Len(Operations)
      BY <1>2, <2>1
    <3> QED
      BY <1>1, <2>1, <3>1, <3>2
  <2>2. CASE i = Len(Operations) + 1
    <3>1. PICK n \in DOMAIN SSTableClusterMap : op = Operation("read", SSTableClusterMap[n])
      BY <1>1, <2>2
    <3>2. PICK j \in 1 .. Len(Operations) : Operations[j] = Operation("write", SSTableClusterMap[n])
      BY DEF TraceInv, RangesTraced
    <3>3. WriteOf(op) = Operation("write", SSTableClusterMap[n])
      BY <3>1 DEF WriteOf, Operation
    <3> QED
      BY <1>1, <1>2, <2>2, <3>2, <3>3
  <2> QED
    BY <1>2, <2>1, <2>2
<1> QED
  BY <1>1, <1>2, <1>3, <1>4

\* A table is given its range.
LEMMA EnteredTrace ==
  ASSUME TypeInv, TraceInv, NEW number, NEW start \in Nat, NEW pages \in Nat,
         Enter(number, start, pages), mapped' = mapped, failed' = failed, main' = main
  PROVE  TraceInv'
<1> DEFINE op == Operation("write", <<start, pages>>)
<1>1. /\ DOMAIN SSTableClusterMap' = DOMAIN SSTableClusterMap \cup {number}
      /\ SSTableClusterMap'[number] = <<start, pages>>
      /\ \A n \in DOMAIN SSTableClusterMap :
            n # number => SSTableClusterMap'[n] = SSTableClusterMap[n]
      /\ op \in Traced /\ PushBack(op)
  BY EnterFacts
<1>2. op.AccessType = "write"
  BY DEF Operation
<1>3. ReadsFollow' /\ PassedMapped' /\ iter'.pos = iter.pos /\ iter'.pos <= Len(Operations') + 1
  BY <1>1, <1>2, PushedTrace
<1>4. /\ Len(Operations') = Len(Operations) + 1 /\ Len(Operations) \in Nat
      /\ Operations'[Len(Operations) + 1] = op
      /\ \A i \in 1 .. Len(Operations) : Operations'[i] = Operations[i]
  BY <1>1, PushBackFacts, SMTT(60) DEF TypeInv
<1>5. RangesTraced'
  <2> SUFFICES ASSUME NEW n \in DOMAIN SSTableClusterMap'
               PROVE  \E j \in 1 .. Len(Operations') :
                         Operations'[j] = Operation("write", SSTableClusterMap'[n])
    BY DEF RangesTraced, Operation
  <2>1. CASE n = number
    BY <1>1, <1>4, <2>1
  <2>2. CASE n # number
    <3>1. n \in DOMAIN SSTableClusterMap /\ SSTableClusterMap'[n] = SSTableClusterMap[n]
      BY <1>1, <2>2
    <3>2. PICK j \in 1 .. Len(Operations) : Operations[j] = Operation("write", SSTableClusterMap[n])
      BY <3>1 DEF TraceInv, RangesTraced
    <3> QED
      BY <1>4, <3>1, <3>2
  <2> QED
    BY <2>1, <2>2
<1> QED
  BY <1>3, <1>5 DEF TraceInv, ReadsSucceed

LEMMA TraceStep ==
  ASSUME TypeInv, TraceInv, Next
  PROVE  TraceInv'
<1> USE DEF treeVars, traceVars, replayVars, bgVars
<1>1. ASSUME UNCHANGED <<SSTableClusterMap, Operations, iter, mapped, failed>>,
             main' = "replay" => main = "replay"
      PROVE  TraceInv'
  BY <1>1 DEF TraceInv, RangesTraced, ReadsFollow, PassedMapped, ReadsSucceed, Operation,
              WriteOf, Clusters
<1>2. CASE GetRange
  <2>1. /\ main' # "replay" /\ UNCHANGED <<SSTableClusterMap, mapped, failed>>
    BY <1>2 DEF GetRange
  <2>2. CASE lookup.number \in DOMAIN SSTableClusterMap
    <3> DEFINE op == Operation("read", SSTableClusterMap[lookup.number])
    <3>1. op \in Traced /\ PushBack(op)
      BY <1>2, <2>2, OperationTraced DEF GetRange, TypeInv
    <3>2. ReadsFollow' /\ PassedMapped' /\ iter'.pos <= Len(Operations') + 1
      BY <2>1, <2>2, <3>1, PushedTrace
    <3>3. /\ Len(Operations') = Len(Operations) + 1 /\ Len(Operations) \in Nat
          /\ \A i \in 1 .. Len(Operations) : Operations'[i] = Operations[i]
      BY <3>1, PushBackFacts DEF TypeInv
    <3>4. RangesTraced'
      <4> SUFFICES ASSUME NEW n \in DOMAIN SSTableClusterMap
                   PROVE  \E j \in 1 .. Len(Operations') :
                             Operations'[j] = Operation("write", SSTableClusterMap[n])
        BY <2>1 DEF RangesTraced, Operation
      <4>1. PICK j \in 1 .. Len(Operations) :
               Operations[j] = Operation("write", SSTableClusterMap[n])
        BY DEF TraceInv, RangesTraced
      <4> QED
        BY <3>3, <4>1
    <3> QED
      BY <2>1, <3>2, <3>4 DEF TraceInv, ReadsSucceed
  <2>3. CASE lookup.number \notin DOMAIN SSTableClusterMap
    BY <1>1, <1>2, <2>1, <2>3 DEF GetRange
  <2> QED
    BY <2>2, <2>3
<1>3. CASE StartReplay
  <2>1. /\ iter'.pos = 1 /\ UNCHANGED <<SSTableClusterMap, Operations, mapped, failed>>
    BY <1>3 DEF StartReplay
  <2>2. RangesTraced' /\ ReadsFollow'
    BY <2>1 DEF TraceInv, RangesTraced, ReadsFollow, Operation, WriteOf
  <2>3. PassedMapped'
    BY <2>1 DEF PassedMapped
  <2>4. Len(Operations) \in Nat
    BY DEF TypeInv
  <2> QED
    BY <2>1, <2>2, <2>3, <2>4 DEF TraceInv, ReadsSucceed
<1>4. CASE ReplayOne
  <2> DEFINE op == Operations[iter.pos]
  <2>1. /\ main = "replay" /\ iter.pos <= Len(Operations) /\ iter'.pos = iter.pos + 1
        /\ UNCHANGED <<main, SSTableClusterMap, Operations>>
        /\ mapped' = IF op.AccessType = "write" THEN mapped \cup Clusters(op) ELSE mapped
        /\ failed' = (failed \/ (op.AccessType = "read" /\ ~(Clusters(op) \subseteq mapped)))
    BY <1>4 DEF ReplayOne, TypeInv
  <2>2. iter.pos \in 1 .. Len(Operations) /\ Len(Operations) \in Nat
    BY <2>1 DEF TypeInv, TraceInv
  <2>3. RangesTraced' /\ ReadsFollow'
    BY <2>1 DEF TraceInv, RangesTraced, ReadsFollow, Operation, WriteOf
  <2>4. PassedMapped'
    <3> SUFFICES ASSUME NEW j \in 1 .. iter.pos, Operations[j].AccessType = "write"
                 PROVE  Clusters(Operations[j]) \subseteq mapped'
      BY <2>1, <2>2 DEF PassedMapped, Clusters
    <3>1. CASE j = iter.pos
      BY <2>1, <3>1
    <3>2. CASE j \in 1 .. iter.pos - 1
      <4>1. Clusters(Operations[j]) \subseteq mapped
        BY <3>2 DEF TraceInv, PassedMapped
      <4> QED
        BY <2>1, <4>1
    <3> QED
      BY <2>2, <3>1, <3>2
  <2>5. ASSUME op.AccessType = "read" PROVE Clusters(op) \subseteq mapped
    <3>1. PICK j \in 1 .. iter.pos - 1 : Operations[j] = WriteOf(op)
      BY <2>2, <2>5 DEF TraceInv, ReadsFollow
    <3>2. op \in Traced
      BY <2>2 DEF TypeInv
    <3>3. /\ WriteOf(op).AccessType = "write"
          /\ WriteOf(op).StartCluster = op.StartCluster /\ WriteOf(op).Length = op.Length
      BY <3>2 DEF WriteOf, Traced
    <3>4. Clusters(WriteOf(op)) = Clusters(op)
      BY <3>3 DEF Clusters
    <3> QED
      BY <3>1, <3>3, <3>4 DEF TraceInv, PassedMapped
  <2>6. ~failed'
    BY <2>1, <2>5 DEF TraceInv, ReadsSucceed
  <2> QED
    BY <2>1, <2>2, <2>3, <2>4, <2>6 DEF TraceInv, ReadsSucceed
<1>5. CASE ReplayDangling \/ ReplayEnd \/ Close \/ Exit
  BY <1>1, <1>5 DEF ReplayDangling, ReplayEnd, Close, Exit
<1>6. CASE \/ \E k \in Keys, type \in {"value", "delete"} : Write(k, type)
           \/ \E k \in Keys, seek \in BOOLEAN : GetTable(k, seek)
  BY <1>1, <1>6 DEF Write, GetTable
<1>7. CASE FlushEnter
  <2>1. /\ Enter(flush.number, flush.start, flush.pages)
        /\ flush.start \in Nat /\ flush.pages \in Nat
        /\ mapped' = mapped /\ failed' = failed /\ main' = main
    BY <1>7 DEF FlushEnter, TypeInv
  <2> QED
    BY <2>1, EnteredTrace
<1>8. CASE FinishEnter
  <2>1. /\ Enter(compact.number, compact.start, compact.pages)
        /\ compact.start \in Nat /\ compact.pages \in Nat
        /\ mapped' = mapped /\ failed' = failed /\ main' = main
    BY <1>8 DEF FinishEnter, TypeInv
  <2> QED
    BY <2>1, EnteredTrace
<1>9. CASE \/ FlushStart \/ FlushAllocate \/ BackgroundIdle
           \/ \E more \in BOOLEAN : FlushInstall(more) \/ CompactInstall(more)
           \/ \E ok \in BOOLEAN : FlushKeys(ok)
           \/ \E inputs : CompactStart(inputs)
           \/ \E drop \in BOOLEAN : CompactKey(drop)
           \/ FinishKeys \/ FinishAllocate \/ FinishFails \/ CompactStop
  <2>1. UNCHANGED <<main, SSTableClusterMap, Operations, iter, mapped, failed>>
    BY <1>9 DEF FlushStart, FlushKeys, FlushAllocate, BackgroundIdle, FlushInstall,
                CompactInstall, CompactStart, CompactKey, FinishKeys, FinishAllocate,
                FinishFails, CompactStop
  <2> QED
    BY <1>1, <2>1
<1> QED
  BY <1>2, <1>3, <1>4, <1>5, <1>6, <1>7, <1>8, <1>9 DEF Next, Main, MainReplay, Background

-----------------------------------------------------------------------------
LEMMA StutterInv == Inv /\ UNCHANGED vars => Inv'
<1> SUFFICES ASSUME Inv, UNCHANGED vars PROVE Inv'
  OBVIOUS
<1> USE DEF vars, treeVars, traceVars, replayVars, bgVars
<1>1. TypeInv' /\ MutexInv' /\ MapInv' /\ FlushReadsSafe'
  BY DEF Inv, TypeInv, MutexInv, MapInv, FlushReadsSafe
<1>2. TablesInv'
  BY DEF Inv, TablesInv, Used
<1>3. OwnInv'
  BY DEF Inv, OwnInv, Holds, Used
<1>4. TraceInv'
  BY DEF Inv, TraceInv, RangesTraced, ReadsFollow, PassedMapped, ReadsSucceed, Operation,
         WriteOf, Clusters
<1> QED
  BY <1>1, <1>2, <1>3, <1>4 DEF Inv

LEMMA NextInv == Inv /\ [Next]_vars => Inv'
<1>1. ASSUME Inv, Next PROVE Inv'
  <2>1. TypeInv'
    BY <1>1, TypeStep DEF Inv
  <2>2. MutexInv' /\ MapInv' /\ FlushReadsSafe'
    BY <1>1, MapStep DEF Inv
  <2>3. TablesInv' /\ Growing
    BY <1>1, TablesStep DEF Inv
  <2>4. OwnInv'
    BY <1>1, <2>3, OwnStep DEF Inv
  <2>5. TraceInv'
    BY <1>1, TraceStep DEF Inv
  <2> QED
    BY <2>1, <2>2, <2>3, <2>4, <2>5 DEF Inv
<1> QED
  BY <1>1, StutterInv

\* The invariant holds throughout: the facts that the two hooks, DBImpl::Get and
\* the replay loop of main keep about the maps and the trace.
THEOREM InvHolds == Spec => []Inv
BY InitInv, NextInv, PTL DEF Spec

\* FailedReadOperation stays 0: the replay (wisckey_test.cc, main) meets the
\* write of a range before each read of it that DBImpl::Get traced.
THEOREM ReadsSucceedHolds == Spec => []ReadsSucceed
<1>1. Inv => ReadsSucceed
  BY DEF Inv, TraceInv
<1> QED
  BY <1>1, InvHolds, PTL

\* DBImpl::Get traces a read of a table that holds, or once held, its key or a
\* key of at most four more characters that begins with it, whatever strlen leaves
\* of the internal keys that WriteLevel0Table records.
THEOREM ReadsNearTableHolds == Spec => []ReadsNearTable
<1>1. Inv => ReadsNearTable
  BY DEF Inv, OwnInv, Holds, ReadsNearTable
<1> QED
  BY <1>1, InvHolds, PTL

\* A Get finds the range of the table it met, except in the window between the
\* two hooks of FinishCompactionOutputFile.
THEOREM FlushReadsSafeHolds == Spec => []FlushReadsSafe
<1>1. Inv => FlushReadsSafe
  BY DEF Inv
<1> QED
  BY <1>1, InvHolds, PTL
=============================================================================
