---------------------------- MODULE DBImplProofs ----------------------------
(***************************************************************************)
(* Proofs about DBImpl, for any number of writers, calls, logs and faults: *)
(* what is in a memtable is in its log, an acknowledged write is visible   *)
(* once, and an acknowledged sync write survives a crash.                  *)
(*                                                                         *)
(* The argument.  The front of the queue is the only writer past its wait, *)
(* so the group it logs stays as it was built while the mutex is released  *)
(* (QueueInv, LeaderInv).  A memtable and its log are switched together,   *)
(* and a log is dropped together with its memtable (LogInv).  Hence the    *)
(* group reaches the log of mem_ before it reaches mem_ (GroupInv), and    *)
(* only then is it answered (StoreInv, AckInv).                            *)
(***************************************************************************)
EXTENDS DBImpl, FiniteSetTheorems, SequenceTheorems, TLAPS

Record  == [batch : Nat, seq : Nat]
LogFile == [records : Seq(SUBSET Record), synced : Nat, exists : BOOLEAN]

\* The types of the variables that the argument is about.
TypeInv ==
    /\ DOMAIN pc = Threads
    /\ writers \in Seq(Writers)
    /\ op \in [Writers -> Nat]
    /\ calls \in Seq(Call)
    /\ group \in Nat
    /\ mem \in SUBSET Record /\ imm \in SUBSET Record /\ tables \in SUBSET Record
    /\ has_imm \in BOOLEAN
    /\ last_sequence \in Nat
    /\ logs \in Seq(LogFile)
    /\ log_number \in Nat

Logging == {"log", "sync", "insert", "relock"}
Leading == {"room", "delay", "roomwait"} \cup Logging

\* Whoever is past its wait is the front of the queue; the calls of the queue
\* are distinct and unanswered; a writer that sleeps unanswered is in the queue.
QueueInv ==
    /\ \A w \in Writers : pc[w] \in Leading => Len(writers) > 0 /\ writers[1] = w
    /\ \A i \in 1 .. Len(writers) :
          /\ pc[writers[i]] \in Leading \cup {"queued"}
          /\ op[writers[i]] \in 1 .. Len(calls)
          /\ CallOf(writers[i]).status = None
    /\ \A i, j \in 1 .. Len(writers) : op[writers[i]] = op[writers[j]] => i = j
    /\ \A w \in Writers : pc[w] = "queued" =>
          /\ op[w] \in 1 .. Len(calls)
          /\ CallOf(w).status = None => \E i \in 1 .. Len(writers) : writers[i] = w

\* The group of a leader that is past MakeRoomForWrite: the first of the queue,
\* none of which asks for a sync that the leader does not do.
LeaderInv ==
    \A w \in Writers : pc[w] \in Logging =>
        /\ group \in 1 .. Len(writers)
        /\ \A i \in 1 .. group : CallOf(writers[i]).sync => CallOf(w).sync
        /\ pc[w] # "relock" => st = "ok"

\* A memtable has a log of its own, which is there until the memtable is gone.
LogInv ==
    /\ log_number >= 1
    /\ has_imm => Len(logs) = log_number + 1
    /\ ~has_imm => Len(logs) = log_number /\ imm = {}
    /\ \A i \in log_number .. Len(logs) : logs[i].exists
    /\ \A i \in 1 .. Len(logs) : logs[i].synced <= Len(logs[i].records)
    /\ \A r \in mem : Logged(r, Len(logs))
    /\ \A r \in imm : Logged(r, log_number)

\* The leader's group is in the log before it is inserted, synced if the leader
\* syncs, and in the memtable before it is answered.
GroupInv ==
    \A w \in Writers :
        /\ pc[w] \in {"sync", "insert"} \/ (pc[w] = "relock" /\ st = "ok") =>
              \A r \in GroupRecords : Logged(r, Len(logs))
        /\ pc[w] = "insert" \/ (pc[w] = "relock" /\ st = "ok") =>
              (CallOf(w).sync => \A r \in GroupRecords : Synced(r, Len(logs)))
        /\ pc[w] = "relock" /\ st = "ok" => GroupRecords \subseteq mem

Stored == mem \cup imm \cup tables

\* The one group that is in the memtable and not yet answered.
Answering == \E w \in Writers : pc[w] = "relock" /\ st = "ok"

\* What is stored was answered with ok, or is about to be; a batch is stored
\* once.
StoreInv ==
    /\ \A r \in Stored :
          \/ /\ r.batch \in 1 .. Len(calls) /\ calls[r.batch].status = "ok"
             /\ r.seq <= last_sequence
          \/ Answering /\ r \in GroupRecords
    /\ \A r, s \in Stored : r.batch = s.batch => r = s

\* A record that a crash does not take away.
Durable(r) ==
    \/ r \in tables
    \/ r \in imm /\ Synced(r, log_number)
    \/ r \in mem /\ Synced(r, Len(logs))

\* What was answered with ok is stored, and durably if a sync was asked for.
AckInv ==
    \A c \in 1 .. Len(calls) : calls[c].status = "ok" /\ ~calls[c].null =>
        \E r \in Stored : r.batch = c /\ (calls[c].sync => Durable(r))

Inv == TypeInv /\ QueueInv /\ LeaderInv /\ LogInv /\ GroupInv /\ StoreInv /\ AckInv

-----------------------------------------------------------------------------
(* Facts about sequences and about the records of a group.                 *)

\* A function on 1 .. n is a sequence.
LEMMA FunctionIsSeq ==
    ASSUME NEW S, NEW n \in Nat, NEW f \in [1 .. n -> S]
    PROVE  f \in Seq(S) /\ Len(f) = n
<1>1. f \in Seq(S)
  BY SeqDef
<1>2. DOMAIN f = 1 .. Len(f) /\ Len(f) \in Nat
  BY <1>1, LenProperties
<1> QED
  BY <1>1, <1>2

\* What is left of a sequence without its first n elements.
LEMMA DropFirst ==
    ASSUME NEW S, NEW s \in Seq(S), NEW n \in 1 .. Len(s)
    PROVE  /\ SubSeq(s, n + 1, Len(s)) \in Seq(S)
           /\ Len(SubSeq(s, n + 1, Len(s))) = Len(s) - n
           /\ \A i \in 1 .. Len(s) - n : SubSeq(s, n + 1, Len(s))[i] = s[n + i]
<1>1. Len(s) \in Nat /\ \A i \in n + 1 .. Len(s) : s[i] \in S
  OBVIOUS
<1> DEFINE t == SubSeq(s, n + 1, Len(s))
<1>2. /\ t \in Seq(S)
      /\ Len(t) = IF n + 1 <= Len(s) THEN Len(s) - (n + 1) + 1 ELSE 0
      /\ \A i \in 1 .. Len(s) - (n + 1) + 1 : t[i] = s[(n + 1) + i - 1]
  BY <1>1, SubSeqProperties
<1> HIDE DEF t
<1>3. Len(t) = Len(s) - n
  BY <1>1, <1>2
<1>4. ASSUME NEW i \in 1 .. Len(s) - n PROVE t[i] = s[n + i]
  <2>1. i \in 1 .. Len(s) - (n + 1) + 1 /\ (n + 1) + i - 1 = n + i
    BY <1>1
  <2> QED
    BY <1>2, <2>1
<1> QED
  BY <1>2, <1>3, <1>4 DEF t

\* The members of a group are finitely many, and none has a number above their
\* count.
LEMMA MembersFinite ==
    ASSUME group \in Nat
    PROVE  /\ Cardinality(Members) \in Nat
           /\ \A i \in Members : /\ Cardinality({j \in Members : j <= i}) \in Nat
                                 /\ Cardinality({j \in Members : j <= i}) <= Cardinality(Members)
<1>1. Members \subseteq 1 .. group
  BY DEF Members
<1>2. IsFiniteSet(1 .. group)
  BY FS_Interval
<1>3. IsFiniteSet(Members)
  BY <1>1, <1>2, FS_Subset
<1>4. Cardinality(Members) \in Nat
  BY <1>3, FS_CardinalityType
<1>5. ASSUME NEW i \in Members
      PROVE  /\ Cardinality({j \in Members : j <= i}) \in Nat
             /\ Cardinality({j \in Members : j <= i}) <= Cardinality(Members)
  <2> DEFINE T == {j \in Members : j <= i}
  <2>1. T \in SUBSET Members
    OBVIOUS
  <2>2. IsFiniteSet(T) /\ Cardinality(T) <= Cardinality(Members)
    BY <1>3, <2>1, FS_Subset
  <2> QED
    BY <2>2, FS_CardinalityType
<1> QED
  BY <1>4, <1>5

\* A record of the group belongs to one of its writers.
LEMMA GroupRecordsType ==
    ASSUME TypeInv, group \in 1 .. Len(writers)
    PROVE  /\ GroupRecords \in SUBSET Record
           /\ \A r \in GroupRecords : \E i \in 1 .. group :
                 /\ r.batch = op[writers[i]] /\ i \in Members
                 /\ r.seq <= last_sequence + Cardinality(Members)
           /\ \A i \in Members : \E r \in GroupRecords : r.batch = op[writers[i]]
<1> DEFINE rec(i) == [batch |-> op[writers[i]],
                      seq   |-> last_sequence + Cardinality({j \in Members : j <= i})]
<1>1. Members \subseteq 1 .. group
  BY DEF Members
<1>2. \A i \in 1 .. group : writers[i] \in Writers /\ op[writers[i]] \in Nat
  BY DEF TypeInv
<1>3. \A i \in Members : rec(i) \in Record /\ rec(i).seq <= last_sequence + Cardinality(Members)
                            /\ rec(i).batch = op[writers[i]]
  <2>1. group \in Nat /\ last_sequence \in Nat
    BY DEF TypeInv
  <2>2. TAKE i \in Members
  <2>3. /\ Cardinality({j \in Members : j <= i}) \in Nat
        /\ Cardinality({j \in Members : j <= i}) <= Cardinality(Members)
        /\ Cardinality(Members) \in Nat
    BY <2>1, MembersFinite
  <2> HIDE DEF Members
  <2> QED
    BY <1>1, <1>2, <2>1, <2>3 DEF Record
<1>4. GroupRecords = {rec(i) : i \in Members}
  BY DEF GroupRecords
<1> HIDE DEF rec
<1> QED
  BY <1>1, <1>3, <1>4

-----------------------------------------------------------------------------
(* The initial state.                                                      *)

LEMMA InitInv == Init => Inv
<1> SUFFICES ASSUME Init PROVE Inv
  OBVIOUS
<1> USE DEF Init
<1>1. logs = <<NewLog>> /\ Len(logs) = 1 /\ logs[1] = NewLog
  OBVIOUS
<1>2. NewLog \in LogFile
  BY DEF NewLog, LogFile
<1>3. TypeInv
  <2>1. logs \in Seq(LogFile)
    BY <1>2
  <2>2. DOMAIN pc = Threads
    OBVIOUS
  <2>3. writers \in Seq(Writers) /\ calls \in Seq(Call)
    BY EmptySeq
  <2>4. op \in [Writers -> Nat]
    OBVIOUS
  <2> QED
    BY <2>1, <2>2, <2>3, <2>4 DEF TypeInv
<1>4. QueueInv /\ LeaderInv /\ GroupInv
  BY DEF QueueInv, LeaderInv, GroupInv, Leading, Logging, Threads
<1>5. LogInv
  BY <1>1 DEF LogInv, NewLog
<1>6. StoreInv /\ AckInv
  BY DEF StoreInv, AckInv, Stored
<1> QED
  BY <1>3, <1>4, <1>5, <1>6 DEF Inv

-----------------------------------------------------------------------------
(* Steps that only move a thread.                                          *)

Outside == {"room", "delay", "roomwait"}
InQueue == Leading \cup {"queued"}

CoreUnchanged == UNCHANGED <<writers, op, calls, group, st, mem, imm, has_imm, last_sequence,
                             logs, log_number, tables>>

\* What a thread may do to the queue without changing it: move in
\* MakeRoomForWrite or outside Write, come to the front, or take its answer.
MoveOK(w) ==
    \/ pc'[w] = pc[w]
    \/ pc[w] \in Outside /\ pc'[w] \in Outside
    \/ pc[w] \notin InQueue /\ pc'[w] \notin InQueue
    \/ pc[w] = "queued" /\ pc'[w] = "room" /\ Len(writers) > 0 /\ writers[1] = w
    \/ pc[w] = "queued" /\ pc'[w] \notin InQueue /\ CallOf(w).status # None

LEMMA QueueMove ==
    ASSUME TypeInv, QueueInv, UNCHANGED <<writers, op, calls>>, \A w \in Writers : MoveOK(w)
    PROVE  QueueInv'
<1> USE DEF TypeInv, InQueue, Outside, Leading, Logging, MoveOK
<1>1. \A w \in Writers : pc'[w] \in Leading => Len(writers) > 0 /\ writers[1] = w
  BY DEF QueueInv
<1>2. \A i \in 1 .. Len(writers) :
          /\ pc'[writers[i]] \in Leading \cup {"queued"}
          /\ op[writers[i]] \in 1 .. Len(calls)
          /\ CallOf(writers[i]).status = None
  <2>1. TAKE i \in 1 .. Len(writers)
  <2>2. writers[i] \in Writers
    OBVIOUS
  <2> QED
    BY <2>2 DEF QueueInv
<1>3. \A w \in Writers : pc'[w] = "queued" =>
          /\ op[w] \in 1 .. Len(calls)
          /\ CallOf(w).status = None => \E i \in 1 .. Len(writers) : writers[i] = w
  BY DEF QueueInv
<1>4. \A w \in Writers : CallOf(w)' = CallOf(w)
  BY DEF CallOf
<1>5. \A i \in 1 .. Len(writers) : CallOf(writers[i])' = CallOf(writers[i])
  BY DEF CallOf
<1> QED
  BY <1>1, <1>2, <1>3, <1>4, <1>5 DEF QueueInv

LEMMA PcStep ==
    ASSUME Inv, CoreUnchanged, DOMAIN pc' = Threads, \A w \in Writers : MoveOK(w)
    PROVE  Inv'
<1> USE DEF CoreUnchanged
<1>1. QueueInv'
  BY QueueMove DEF Inv
<1>2. \A w \in Writers : pc'[w] = pc[w] \/ (pc[w] \notin Logging /\ pc'[w] \notin Logging)
  BY DEF MoveOK, InQueue, Outside, Leading, Logging
<1>3. TypeInv'
  BY DEF Inv, TypeInv
<1>4. GroupRecords' = GroupRecords
  BY DEF GroupRecords, Members, CallOf
<1>5. LeaderInv'
  BY <1>2 DEF Inv, LeaderInv, CallOf, Logging
<1>6. LogInv'
  BY DEF Inv, LogInv, Logged
<1>7. GroupInv'
  BY <1>2, <1>4 DEF Inv, GroupInv, Logging, Logged, Synced, CallOf
<1>8. Answering' = Answering
  BY <1>2 DEF Answering, Logging
<1>9. StoreInv'
  BY <1>4, <1>8 DEF Inv, StoreInv, Stored
<1>10. AckInv'
  BY DEF Inv, AckInv, Stored, Durable, Synced
<1> QED
  BY <1>1, <1>3, <1>5, <1>6, <1>7, <1>9, <1>10 DEF Inv

\* One thread moves.
LEMMA GotoStep ==
    ASSUME Inv, CoreUnchanged, NEW t \in Threads, NEW where, Goto(t, where),
           t \in Writers =>
               \/ pc[t] \in Outside /\ where \in Outside
               \/ pc[t] \notin InQueue /\ where \notin InQueue
               \/ pc[t] = "queued" /\ where = "room" /\ Len(writers) > 0 /\ writers[1] = t
               \/ pc[t] = "queued" /\ where \notin InQueue /\ CallOf(t).status # None
    PROVE  Inv'
<1>1. DOMAIN pc = Threads
  BY DEF Inv, TypeInv
<1>2. DOMAIN pc' = Threads /\ pc'[t] = where /\ \A u \in Threads \ {t} : pc'[u] = pc[u]
  BY <1>1 DEF Goto
<1>3. \A w \in Writers : w \in Threads
  BY DEF Threads
<1>4. \A w \in Writers : MoveOK(w)
  BY <1>2, <1>3 DEF MoveOK
<1> QED
  BY <1>2, <1>4, PcStep

LEMMA SameStep ==
    ASSUME Inv, CoreUnchanged, pc' = pc
    PROVE  Inv'
<1>1. DOMAIN pc' = Threads /\ \A w \in Writers : MoveOK(w)
  BY DEF Inv, TypeInv, MoveOK
<1> QED
  BY <1>1, PcStep

LEMMA WakeStep ==
    ASSUME Inv, NEW w \in Writers, Wake(w)
    PROVE  Inv'
<1>1. w \in Threads
  BY DEF Threads
<1>2. CoreUnchanged
  BY DEF Wake, CoreUnchanged, memVars, diskVars
<1>3. CASE CallOf(w).status # None
  <2>1. Goto(w, Returned(CallOf(w).null, CallOf(w).status)) /\ pc[w] = "queued"
    BY <1>3 DEF Wake
  <2>2. Returned(CallOf(w).null, CallOf(w).status) \notin InQueue
    BY DEF Returned, InQueue, Leading, Logging
  <2> QED
    BY <1>1, <1>2, <1>3, <2>1, <2>2, GotoStep
<1>4. CASE CallOf(w).status = None /\ Head(writers) = w
  <2>1. Goto(w, "room") /\ pc[w] = "queued"
    BY <1>4 DEF Wake, Lead
  <2>2. Len(writers) > 0 /\ writers[1] = w
    <3>1. \E i \in 1 .. Len(writers) : writers[i] = w
      BY <1>4, <2>1 DEF Inv, QueueInv
    <3>2. writers \in Seq(Writers) /\ Len(writers) > 0
      BY <3>1 DEF Inv, TypeInv
    <3>3. Head(writers) = writers[1]
      BY <3>2
    <3> QED
      BY <1>4, <3>2, <3>3
  <2> QED
    BY <1>1, <1>2, <2>1, <2>2, GotoStep
<1>5. CASE CallOf(w).status = None /\ Head(writers) # w
  BY <1>2, <1>5, SameStep DEF Wake
<1> QED
  BY <1>3, <1>4, <1>5

\* The branches of MakeRoomForWrite that let go of the mutex, and the return.
LEMMA RoomMoveStep ==
    ASSUME Inv, NEW w \in Writers, RoomDelay(w) \/ RoomWait(w) \/ RoomAgain(w)
    PROVE  Inv'
<1>1. w \in Threads
  BY DEF Threads
<1>2. CoreUnchanged
  BY DEF RoomDelay, RoomWait, RoomAgain, RoomVarsUnchanged, CoreUnchanged, queueVars, memVars, diskVars
<1>3. pc[w] \in Outside
  BY DEF RoomDelay, RoomWait, RoomAgain, RoomElse, InRoom, Outside
<1>4. \E where \in Outside : Goto(w, where)
  BY DEF RoomDelay, RoomWait, RoomAgain, Outside
<1> QED
  BY <1>1, <1>2, <1>3, <1>4, GotoStep

\* Threads outside Write: TEST_CompactMemTable behind its Write, manual
\* compactions, the destructor.
LEMMA OtherThreadStep ==
    ASSUME Inv,
           \/ \E w \in Writers : CompactMemWait(w)
           \/ \E m \in Manuals : CompactRange(m) \/ ManualLoop(m)
           \/ Close \/ CloseWait
    PROVE  Inv'
<1> USE DEF queueVars, memVars, diskVars, Threads
<1>1. ASSUME NEW w \in Writers, CompactMemWait(w) PROVE Inv'
  <2>1. CoreUnchanged
    BY <1>1 DEF CompactMemWait, CoreUnchanged
  <2>2. CASE has_imm /\ ~bg_error
    BY <1>1, <2>1, <2>2, SameStep DEF CompactMemWait
  <2>3. CASE ~(has_imm /\ ~bg_error)
    <3>1. Goto(w, "idle") /\ pc[w] = "compactmem"
      BY <1>1, <2>3 DEF CompactMemWait
    <3>2. pc[w] \notin InQueue /\ "idle" \notin InQueue
      BY <3>1 DEF InQueue, Leading, Logging
    <3> QED
      BY <2>1, <3>1, <3>2, GotoStep
  <2> QED
    BY <2>2, <2>3
<1>2. ASSUME NEW m \in Manuals, CompactRange(m) \/ ManualLoop(m) PROVE Inv'
  <2>1. m \in Threads /\ m \notin Writers
    BY ThreadAssumption
  <2>2. CoreUnchanged
    BY <1>2 DEF CompactRange, ManualLoop, CoreUnchanged
  <2>3. (pc' = pc) \/ \E where : Goto(m, where)
    BY <1>2 DEF CompactRange, ManualLoop
  <2> QED
    BY <2>1, <2>2, <2>3, GotoStep, SameStep
<1>3. ASSUME Close \/ CloseWait PROVE Inv'
  <2>1. Closer \in Threads /\ Closer \notin Writers
    BY ThreadAssumption DEF Closer
  <2>2. CoreUnchanged
    BY <1>3 DEF Close, CloseWait, CoreUnchanged
  <2>3. (pc' = pc) \/ \E where : Goto(Closer, where)
    BY <1>3 DEF Close, CloseWait
  <2> QED
    BY <2>1, <2>2, <2>3, GotoStep, SameStep
<1> QED
  BY <1>1, <1>2, <1>3

-----------------------------------------------------------------------------
(* The background thread.                                                  *)

\* The steps that change no file and no memtable.
LEMMA BackgroundQuietStep ==
    ASSUME Inv,
           \/ BackgroundSkips \/ BackgroundStarts \/ MergeFlushes \/ FlushFails
           \/ FlushBuilt \/ MergeWritten \/ MergeFails
    PROVE  Inv'
<1>1. CoreUnchanged /\ pc' = pc
  BY DEF BackgroundSkips, BackgroundStarts, MergeFlushes, FlushFails, FlushBuilt, MergeWritten,
         MergeFails, BgUnchanged, CoreUnchanged, queueVars, diskVars
<1> QED
  BY <1>1, SameStep

\* DeleteObsoleteFiles leaves the contents of the logs alone, and the logs that
\* the version needs in place.
LEMMA ObsoleteFiles ==
    ASSUME TypeInv, NEW n \in Nat, logs' = DeleteObsoleteFiles(n)
    PROVE  /\ logs' \in Seq(LogFile) /\ Len(logs') = Len(logs)
           /\ \A i \in 1 .. Len(logs) :
                 /\ logs'[i].records = logs[i].records /\ logs'[i].synced = logs[i].synced
                 /\ logs[i].exists /\ i >= n => logs'[i].exists
<1>1. CASE bg_error
  BY <1>1 DEF DeleteObsoleteFiles, TypeInv
<1>2. CASE ~bg_error
  <2> DEFINE f == [i \in 1 .. Len(logs) |-> [logs[i] EXCEPT !.exists = @ /\ i >= n]]
  <2>1. logs' = f /\ Len(logs) \in Nat
    BY <1>2, LenProperties DEF DeleteObsoleteFiles, TypeInv
  <2>2. \A i \in 1 .. Len(logs) : logs[i] \in LogFile
    BY DEF TypeInv
  <2>3. \A i \in 1 .. Len(logs) :
          /\ f[i] \in LogFile
          /\ f[i].records = logs[i].records /\ f[i].synced = logs[i].synced
          /\ logs[i].exists /\ i >= n => f[i].exists
    BY <2>2 DEF LogFile
  <2>4. f \in [1 .. Len(logs) -> LogFile]
    BY <2>3
  <2>5. f \in Seq(LogFile) /\ Len(f) = Len(logs)
    BY <2>1, <2>4, FunctionIsSeq
  <2> HIDE DEF f
  <2> QED
    BY <2>1, <2>3, <2>5
<1> QED
  BY <1>1, <1>2

\* The queue, its group and the current log's contents are as they were.
LEMMA QueueSame ==
    ASSUME Inv, UNCHANGED <<pc, queueVars, mem, last_sequence>>,
           Len(logs') = Len(logs),
           \A i \in 1 .. Len(logs) :
              logs'[i].records = logs[i].records /\ logs'[i].synced = logs[i].synced
    PROVE  QueueInv' /\ LeaderInv' /\ GroupInv' /\ GroupRecords' = GroupRecords
<1> USE DEF queueVars
<1>1. GroupRecords' = GroupRecords
  BY DEF GroupRecords, Members, CallOf
<1>2. QueueInv' /\ LeaderInv'
  BY DEF Inv, QueueInv, LeaderInv, CallOf
<1>3. Len(logs) \in 1 .. Len(logs)
  BY DEF Inv, TypeInv, LogInv
<1>4. \A r : (Logged(r, Len(logs))' <=> Logged(r, Len(logs))) /\ (Synced(r, Len(logs))' <=> Synced(r, Len(logs)))
  BY <1>3 DEF Logged, Synced
<1>5. GroupInv'
  BY <1>1, <1>4 DEF Inv, GroupInv, CallOf
<1> QED
  BY <1>1, <1>2, <1>5

LEMMA MergeAppliedStep ==
    ASSUME Inv, MergeApplied
    PROVE  Inv'
<1>1. UNCHANGED <<pc, queueVars, mem, last_sequence, imm, has_imm, tables, log_number>>
      /\ logs' = DeleteObsoleteFiles(log_number)
  BY DEF MergeApplied, BgUnchanged
<1>2. /\ logs' \in Seq(LogFile) /\ Len(logs') = Len(logs)
      /\ \A i \in 1 .. Len(logs) :
            /\ logs'[i].records = logs[i].records /\ logs'[i].synced = logs[i].synced
            /\ logs[i].exists /\ i >= log_number => logs'[i].exists
  BY <1>1, ObsoleteFiles DEF Inv, TypeInv
<1>3. QueueInv' /\ LeaderInv' /\ GroupInv' /\ GroupRecords' = GroupRecords
  BY <1>1, <1>2, QueueSame
<1>4. TypeInv'
  BY <1>1, <1>2 DEF Inv, TypeInv, queueVars
<1>5. Len(logs) \in 1 .. Len(logs) /\ (imm # {} => log_number \in 1 .. Len(logs))
      /\ log_number \in 1 .. Len(logs)
  BY DEF Inv, TypeInv, LogInv
<1>6. \A r : \A i \in 1 .. Len(logs) : (Logged(r, i)' <=> Logged(r, i)) /\ (Synced(r, i)' <=> Synced(r, i))
  BY <1>2 DEF Logged, Synced
<1>7. LogInv'
  <2>1. \A i \in log_number .. Len(logs) : logs'[i].exists
    BY <1>2, <1>5 DEF Inv, LogInv, TypeInv
  <2>2. \A i \in 1 .. Len(logs') : logs'[i].synced <= Len(logs'[i].records)
    BY <1>2 DEF Inv, LogInv
  <2>3. (\A r \in mem : Logged(r, Len(logs)))' /\ (\A r \in imm : Logged(r, log_number))'
    BY <1>1, <1>2, <1>5, <1>6 DEF Inv, LogInv, Logged
  <2> QED
    BY <1>1, <1>2, <2>1, <2>2, <2>3 DEF Inv, LogInv
<1>8. StoreInv'
  BY <1>1, <1>3 DEF Inv, StoreInv, Stored, Answering, queueVars
<1>9. AckInv'
  <2>1. \A r \in Stored : Durable(r) => Durable(r)'
    BY <1>1, <1>2, <1>5, <1>6 DEF Durable, Synced
  <2> QED
    BY <1>1, <2>1 DEF Inv, AckInv, Stored, queueVars
<1> QED
  BY <1>3, <1>4, <1>7, <1>8, <1>9 DEF Inv

\* A flush moves imm_ into a table and its log out of recovery's sight.
LEMMA FlushAppliedStep ==
    ASSUME Inv, FlushApplied
    PROVE  Inv'
<1>1. /\ UNCHANGED <<pc, queueVars, mem, last_sequence>>
      /\ tables' = tables \cup imm /\ imm' = {} /\ has_imm' = FALSE
      /\ log_number' = Len(logs) /\ logs' = DeleteObsoleteFiles(Len(logs))
  BY DEF FlushApplied, BgUnchanged, Current
<1>2. Len(logs) \in 1 .. Len(logs) /\ Len(logs) \in Nat /\ log_number <= Len(logs)
  BY DEF Inv, TypeInv, LogInv
<1>3. /\ logs' \in Seq(LogFile) /\ Len(logs') = Len(logs)
      /\ \A i \in 1 .. Len(logs) :
            /\ logs'[i].records = logs[i].records /\ logs'[i].synced = logs[i].synced
            /\ logs[i].exists /\ i >= Len(logs) => logs'[i].exists
  BY <1>1, <1>2, ObsoleteFiles DEF Inv
<1>4. QueueInv' /\ LeaderInv' /\ GroupInv' /\ GroupRecords' = GroupRecords
  BY <1>1, <1>3, QueueSame
<1>5. TypeInv'
  BY <1>1, <1>2, <1>3 DEF Inv, TypeInv, queueVars
<1>6. \A r : \A i \in 1 .. Len(logs) : (Logged(r, i)' <=> Logged(r, i)) /\ (Synced(r, i)' <=> Synced(r, i))
  BY <1>3 DEF Logged, Synced
<1>7. LogInv'
  <2>1. logs'[Len(logs)].exists
    <3>1. log_number \in Nat
      BY DEF Inv, TypeInv
    <3>2. logs[Len(logs)].exists
      BY <1>2, <3>1 DEF Inv, LogInv
    <3> QED
      BY <1>2, <1>3, <3>2
  <2>2. \A i \in 1 .. Len(logs') : logs'[i].synced <= Len(logs'[i].records)
    BY <1>3 DEF Inv, LogInv
  <2>3. (\A r \in mem : Logged(r, Len(logs)))'
    BY <1>1, <1>2, <1>3, <1>6 DEF Inv, LogInv, Logged
  <2>4. \A i \in log_number' .. Len(logs') : logs'[i].exists
    BY <1>1, <1>2, <1>3, <2>1
  <2> QED
    BY <1>1, <1>2, <1>3, <2>2, <2>3, <2>4 DEF LogInv
<1>8. Stored' = Stored
  BY <1>1 DEF Stored
<1>9. StoreInv'
  BY <1>1, <1>4, <1>8 DEF Inv, StoreInv, Answering, queueVars
<1>10. AckInv'
  <2>1. \A r \in Stored : Durable(r) => Durable(r)'
    BY <1>1, <1>2, <1>3, <1>6 DEF Durable, Synced
  <2> QED
    BY <1>1, <1>8, <2>1 DEF Inv, AckInv, queueVars
<1> QED
  BY <1>4, <1>5, <1>7, <1>9, <1>10 DEF Inv

-----------------------------------------------------------------------------
(* The leader.                                                             *)

\* Two leaders are one.
LEMMA OneLeader ==
    ASSUME QueueInv, NEW w \in Writers, pc[w] \in Leading, NEW v \in Writers, pc[v] \in Leading
    PROVE  v = w /\ writers[1] = w /\ Len(writers) > 0
BY DEF QueueInv

\* A leader in MakeRoomForWrite is alone: nobody is logging.
LEMMA NobodyLogs ==
    ASSUME Inv, NEW w \in Writers, pc[w] \in Outside
    PROVE  /\ \A v \in Writers : pc[v] \notin Logging
           /\ ~Answering
           /\ writers[1] = w /\ Len(writers) > 0
<1>1. pc[w] \in Leading /\ pc[w] \notin Logging
  BY DEF Outside, Leading, Logging
<1>2. \A v \in Writers : pc[v] \in Logging => pc[v] \in Leading
  BY DEF Leading
<1>3. \A v \in Writers : pc[v] \notin Logging
  BY <1>1, <1>2, OneLeader DEF Inv
<1> QED
  BY <1>1, <1>3, OneLeader DEF Inv, Answering, Logging

LEMMA RoomSwitchStep ==
    ASSUME Inv, NEW w \in Writers, RoomSwitch(w)
    PROVE  Inv'
<1>1. /\ UNCHANGED <<pc, queueVars, last_sequence, log_number, tables>>
      /\ logs' = Append(logs, NewLog) /\ imm' = mem /\ mem' = {} /\ has_imm' = TRUE
      /\ ~has_imm
  BY DEF RoomSwitch, Switching
<1>2. pc[w] \in Outside
  BY DEF RoomSwitch, Switching, RoomElse, InRoom, Outside
<1>3. (\A v \in Writers : pc[v] \notin Logging) /\ ~Answering
  BY <1>2, NobodyLogs
<1>4. NewLog \in LogFile
  BY DEF NewLog, LogFile
<1>5. /\ logs' \in Seq(LogFile) /\ Len(logs') = Len(logs) + 1 /\ logs'[Len(logs) + 1] = NewLog
      /\ \A i \in 1 .. Len(logs) : logs'[i] = logs[i]
      /\ Len(logs) = log_number /\ log_number \in 1 .. Len(logs) /\ imm = {}
  BY <1>1, <1>4 DEF Inv, TypeInv, LogInv
<1>6. TypeInv'
  BY <1>1, <1>5 DEF Inv, TypeInv, queueVars
<1>7. QueueInv'
  BY <1>1 DEF Inv, QueueInv, CallOf, queueVars
<1>8. LeaderInv' /\ GroupInv' /\ ~Answering'
  BY <1>1, <1>3 DEF LeaderInv, GroupInv, Logging, Answering, queueVars
<1>9. LogInv'
  <2>1. (\A i \in log_number .. Len(logs) : logs[i].exists)'
    BY <1>1, <1>5 DEF Inv, LogInv, TypeInv, NewLog
  <2>2. (\A i \in 1 .. Len(logs) : logs[i].synced <= Len(logs[i].records))'
    <3>1. NewLog.synced = 0 /\ Len(NewLog.records) = 0
      BY DEF NewLog
    <3>2. Len(logs) \in Nat
      BY DEF Inv, TypeInv
    <3> QED
      BY <1>5, <3>1, <3>2 DEF Inv, LogInv
  <2>3. (\A r \in imm : Logged(r, log_number))'
    BY <1>1, <1>5 DEF Inv, LogInv, Logged
  <2> QED
    BY <1>1, <1>5, <2>1, <2>2, <2>3 DEF Inv, LogInv
<1>10. Stored' = Stored
  BY <1>1, <1>5 DEF Stored
<1>11. StoreInv'
  BY <1>1, <1>3, <1>10 DEF Inv, StoreInv, queueVars
<1>12. AckInv'
  <2>1. \A r \in Stored : Durable(r) => Durable(r)'
    BY <1>1, <1>5 DEF Durable, Synced
  <2> QED
    BY <1>1, <1>10, <2>1 DEF Inv, AckInv, queueVars
<1> QED
  BY <1>6, <1>7, <1>8, <1>9, <1>11, <1>12 DEF Inv

\* What a new call changes: the ends of the queue and of the list of calls.
LEMMA WriteFacts ==
    ASSUME Inv, NEW w \in Writers, Write(w)
    PROVE  /\ TypeInv'
           /\ Len(calls') = Len(calls) + 1 /\ (\A c \in 1 .. Len(calls) : calls'[c] = calls[c])
           /\ calls'[Len(calls) + 1].status = None
           /\ Len(writers') = Len(writers) + 1 /\ writers'[Len(writers) + 1] = w
           /\ \A i \in 1 .. Len(writers) :
                 writers'[i] = writers[i] /\ writers[i] \in Writers \ {w}
           /\ op'[w] = Len(calls) + 1 /\ (\A v \in Writers \ {w} : op'[v] = op[v])
           /\ pc[w] = "idle" /\ pc'[w] = IF Len(writers) = 0 THEN "room" ELSE "queued"
           /\ \A v \in Writers \ {w} : pc'[v] = pc[v]
           /\ UNCHANGED <<group, st, mem, imm, has_imm, last_sequence, logs, log_number, tables>>
<1>1. PICK kind \in Kinds[w] :
          /\ calls' = Append(calls, [null |-> kind.null, sync |-> kind.sync,
                                     size |-> kind.size, status |-> None])
          /\ op' = [op EXCEPT ![w] = Len(calls) + 1]
          /\ writers' = Append(writers, w)
          /\ IF AtFront THEN Goto(w, "room") ELSE Goto(w, "queued")
  BY DEF Write, Lead
<1>2. /\ pc[w] = "idle"
      /\ UNCHANGED <<group, st, mem, imm, has_imm, last_sequence, logs, log_number, tables>>
  BY DEF Write, memVars, diskVars
<1> DEFINE new == [null |-> kind.null, sync |-> kind.sync, size |-> kind.size, status |-> None]
<1>3. new \in Call
  <2>1. kind \in [null : BOOLEAN, sync : BOOLEAN, size : Nat]
    BY KindAssumption
  <2> QED
    BY <2>1 DEF Call, None
<1>4. new.status = None
  OBVIOUS
<1>5. /\ calls' \in Seq(Call) /\ Len(calls') = Len(calls) + 1
      /\ (\A c \in 1 .. Len(calls) : calls'[c] = calls[c]) /\ calls'[Len(calls) + 1] = new
  <2> HIDE DEF new
  <2> QED
    BY <1>1, <1>3 DEF new, Inv, TypeInv
<1>6. /\ writers' \in Seq(Writers) /\ Len(writers') = Len(writers) + 1
      /\ writers'[Len(writers) + 1] = w
      /\ \A i \in 1 .. Len(writers) : writers'[i] = writers[i] /\ writers[i] \in Writers
  BY <1>1 DEF Inv, TypeInv
<1>7. op' \in [Writers -> Nat] /\ op'[w] = Len(calls) + 1 /\ \A v \in Writers \ {w} : op'[v] = op[v]
  BY <1>1 DEF Inv, TypeInv
<1>8. \A i \in 1 .. Len(writers) : writers[i] # w
  BY <1>2 DEF Inv, QueueInv, Leading, Logging
<1>9. AtFront <=> Len(writers) = 0
  BY EmptySeq DEF AtFront, Inv, TypeInv
<1>10. \E where : Goto(w, where)
  BY <1>1
<1>11. DOMAIN pc' = Threads /\ \A v \in Writers \ {w} : pc'[v] = pc[v]
  BY <1>10 DEF Goto, Inv, TypeInv, Threads
<1>12. pc'[w] = IF Len(writers) = 0 THEN "room" ELSE "queued"
  BY <1>1, <1>9 DEF Goto, Inv, TypeInv, Threads
<1>13. TypeInv'
  BY <1>2, <1>5, <1>6, <1>7, <1>11 DEF Inv, TypeInv
<1> HIDE DEF new
<1> QED
  BY <1>2, <1>4, <1>5, <1>6, <1>7, <1>8, <1>11, <1>12, <1>13

LEMMA WriteStep ==
    ASSUME Inv, NEW w \in Writers, Write(w)
    PROVE  Inv'
<1>1. /\ TypeInv'
      /\ Len(calls') = Len(calls) + 1 /\ (\A c \in 1 .. Len(calls) : calls'[c] = calls[c])
      /\ calls'[Len(calls) + 1].status = None
      /\ Len(writers') = Len(writers) + 1 /\ writers'[Len(writers) + 1] = w
      /\ \A i \in 1 .. Len(writers) :
            writers'[i] = writers[i] /\ writers[i] \in Writers \ {w}
      /\ op'[w] = Len(calls) + 1 /\ (\A v \in Writers \ {w} : op'[v] = op[v])
      /\ pc[w] = "idle" /\ pc'[w] = IF Len(writers) = 0 THEN "room" ELSE "queued"
      /\ \A v \in Writers \ {w} : pc'[v] = pc[v]
      /\ UNCHANGED <<group, st, mem, imm, has_imm, last_sequence, logs, log_number, tables>>
  BY WriteFacts
<1>2. Len(writers) \in Nat /\ Len(calls) \in Nat
  BY DEF Inv, TypeInv
<1>3. \A i \in 1 .. Len(writers) :
         /\ op'[writers'[i]] = op[writers[i]] /\ op[writers[i]] \in 1 .. Len(calls)
         /\ CallOf(writers[i])' = CallOf(writers[i])
  BY <1>1 DEF Inv, QueueInv, CallOf
<1>4. \A v \in Writers : pc'[v] \in Logging => pc[v] = pc'[v] /\ v # w
  BY <1>1 DEF Logging
<1>5. QueueInv'
  <2>1. \A v \in Writers : pc'[v] \in Leading => Len(writers') > 0 /\ writers'[1] = v
    <3>1. TAKE v \in Writers
    <3>2. CASE v = w
      BY <1>1, <1>2, <3>2 DEF Leading, Logging
    <3>3. CASE v # w
      BY <1>1, <1>2, <3>3 DEF Inv, QueueInv
    <3> QED
      BY <3>2, <3>3
  <2>2. \A i \in 1 .. Len(writers') :
          /\ pc'[writers'[i]] \in Leading \cup {"queued"}
          /\ op'[writers'[i]] \in 1 .. Len(calls')
          /\ calls'[op'[writers'[i]]].status = None
    <3>1. TAKE i \in 1 .. Len(writers')
    <3>2. CASE i = Len(writers) + 1
      BY <1>1, <1>2, <3>2 DEF Leading
    <3>3. CASE i \in 1 .. Len(writers)
      BY <1>1, <1>2, <1>3, <3>3 DEF Inv, QueueInv, CallOf
    <3> QED
      BY <1>1, <1>2, <3>2, <3>3
  <2>3. \A i, j \in 1 .. Len(writers') : op'[writers'[i]] = op'[writers'[j]] => i = j
    <3>1. \A i \in 1 .. Len(writers') : i = Len(writers) + 1 \/ i \in 1 .. Len(writers)
      BY <1>1, <1>2
    <3>2. op'[writers'[Len(writers) + 1]] = Len(calls) + 1
      BY <1>1
    <3>3. \A i \in 1 .. Len(writers) : op'[writers'[i]] # Len(calls) + 1
      BY <1>2, <1>3
    <3>4. \A i, j \in 1 .. Len(writers) : op'[writers'[i]] = op'[writers'[j]] => i = j
      BY <1>3 DEF Inv, QueueInv
    <3> QED
      BY <3>1, <3>2, <3>3, <3>4
  <2>4. \A v \in Writers : pc'[v] = "queued" =>
          /\ op'[v] \in 1 .. Len(calls')
          /\ calls'[op'[v]].status = None => \E i \in 1 .. Len(writers') : writers'[i] = v
    <3>1. TAKE v \in Writers
    <3>2. CASE v = w
      BY <1>1, <1>2, <3>2
    <3>3. CASE v # w
      <4>1. HAVE pc'[v] = "queued"
      <4>2. pc[v] = "queued" /\ op'[v] = op[v]
        BY <1>1, <3>3, <4>1
      <4>3. op[v] \in 1 .. Len(calls)
        BY <4>2 DEF Inv, QueueInv
      <4>4. CallOf(v).status = None => \E i \in 1 .. Len(writers) : writers[i] = v
        BY <4>2 DEF Inv, QueueInv
      <4> QED
        BY <1>1, <1>2, <4>2, <4>3, <4>4 DEF CallOf
    <3> QED
      BY <3>2, <3>3
  <2> QED
    BY <2>1, <2>2, <2>3, <2>4 DEF QueueInv, CallOf
<1>6. ASSUME NEW v \in Writers, pc[v] \in Logging
      PROVE  GroupRecords' = GroupRecords /\ group \in 1 .. Len(writers)
  <2>1. group \in 1 .. Len(writers) /\ group' = group
    BY <1>1, <1>6 DEF Inv, LeaderInv
  <2>2. \A i \in 1 .. group : /\ op'[writers'[i]] = op[writers[i]]
                              /\ calls'[op'[writers'[i]]] = calls[op[writers[i]]]
    BY <1>1, <1>2, <1>3, <2>1
  <2>3. Members' = Members
    BY <2>1, <2>2 DEF Members, CallOf
  <2>4. Members \subseteq 1 .. group
    BY DEF Members
  <2>5. \A i \in Members : op'[writers'[i]] = op[writers[i]]
    BY <2>2, <2>4
  <2> DEFINE rank(i) == Cardinality({j \in Members : j <= i})
             rec(i) == [batch |-> op[writers[i]], seq |-> last_sequence + rank(i)]
             rec2(i) == [batch |-> op'[writers'[i]], seq |-> last_sequence + rank(i)]
  <2>6. GroupRecords = {rec(i) : i \in Members}
    BY DEF GroupRecords
  <2>7. GroupRecords' = {rec2(i) : i \in Members}
    <3>1. last_sequence' = last_sequence
      BY <1>1
    <3> QED
      BY <2>3, <3>1, Zenon DEF GroupRecords
  <2>8. \A i \in Members : rec2(i) = rec(i)
    BY <2>5
  <2> HIDE DEF rec, rec2
  <2> QED
    BY <2>1, <2>6, <2>7, <2>8
<1>7. LeaderInv'
  <2>1. SUFFICES ASSUME NEW v \in Writers, pc'[v] \in Logging
                 PROVE  /\ group \in 1 .. Len(writers')
                        /\ \A i \in 1 .. group : calls'[op'[writers'[i]]].sync => calls'[op'[v]].sync
                        /\ pc'[v] # "relock" => st = "ok"
    BY <1>1 DEF LeaderInv, CallOf
  <2>2. pc[v] = pc'[v] /\ v # w /\ pc[v] \in Leading
    BY <1>4, <2>1 DEF Leading
  <2>3. writers[1] = v /\ Len(writers) > 0
    BY <2>2 DEF Inv, QueueInv
  <2>4. calls'[op'[v]] = calls[op[v]]
    BY <1>1, <1>2, <1>3, <2>3
  <2>5. \A i \in 1 .. group : calls'[op'[writers'[i]]] = calls[op[writers[i]]]
    BY <1>1, <1>2, <1>3, <1>6, <2>1, <2>2
  <2>6. pc[v] \in Logging
    BY <2>1, <2>2
  <2>7. /\ group \in 1 .. Len(writers)
        /\ \A i \in 1 .. group : calls[op[writers[i]]].sync => calls[op[v]].sync
        /\ pc[v] # "relock" => st = "ok"
    BY <2>6 DEF Inv, LeaderInv, CallOf
  <2>8. group \in 1 .. Len(writers')
    BY <1>1, <1>2, <2>7
  <2>9. \A i \in 1 .. group : calls'[op'[writers'[i]]].sync => calls'[op'[v]].sync
    BY <2>4, <2>5, <2>7
  <2> QED
    BY <2>2, <2>7, <2>8, <2>9
<1>8. LogInv'
  BY <1>1 DEF Inv, LogInv, Logged
<1>9. GroupInv'
  <2>1. SUFFICES ASSUME NEW v \in Writers, pc'[v] \in Logging
                 PROVE  GroupInv!(v)'
    BY DEF GroupInv, Logging
  <2>2. pc[v] = pc'[v] /\ v # w /\ pc[v] \in Leading
    BY <1>4, <2>1 DEF Leading
  <2>3. writers[1] = v /\ Len(writers) > 0
    BY <2>2 DEF Inv, QueueInv
  <2>4. CallOf(v)' = CallOf(v)
    BY <1>1, <1>2, <1>3, <2>3, SMTT(60) DEF CallOf
  <2>5. GroupRecords' = GroupRecords
    BY <1>6, <2>1, <2>2
  <2> QED
    BY <1>1, <2>2, <2>4, <2>5 DEF Inv, GroupInv, Logged, Synced
<1>10. (Answering => Answering' /\ GroupRecords' = GroupRecords)
  BY <1>1, <1>6 DEF Answering, Logging
<1>11. StoreInv'
  <2>1. \A r \in Stored' :
          \/ /\ r.batch \in 1 .. Len(calls') /\ calls'[r.batch].status = "ok"
             /\ r.seq <= last_sequence'
          \/ Answering' /\ r \in GroupRecords'
    BY <1>1, <1>2, <1>10 DEF Inv, StoreInv, Stored
  <2> QED
    BY <1>1, <2>1 DEF Inv, StoreInv, Stored
<1>12. AckInv'
  <2>1. \A c \in 1 .. Len(calls') : calls'[c].status = "ok" => c \in 1 .. Len(calls)
    BY <1>1, <1>2 DEF None
  <2> QED
    BY <1>1, <1>2, <2>1 DEF Inv, AckInv, Stored, Durable, Synced
<1> QED
  BY <1>1, <1>5, <1>7, <1>8, <1>9, <1>11, <1>12 DEF Inv

\* What Dequeue does: the first n writers leave the queue with their answer, and
\* the leader leaves Write.
LEMMA DequeueFacts ==
    ASSUME Inv, NEW w \in Writers, pc[w] \in Leading, NEW n \in 1 .. Len(writers),
           NEW status \in {"ok", "error"}, Dequeue(w, n, status), op' = op
    PROVE  /\ writers' \in Seq(Writers) /\ calls' \in Seq(Call) /\ DOMAIN pc' = Threads
           /\ Len(calls') = Len(calls)
           /\ \A c \in 1 .. Len(calls) :
                 /\ calls'[c].null = calls[c].null /\ calls'[c].sync = calls[c].sync
                 /\ calls'[c].status = IF \E i \in 1 .. n : op[writers[i]] = c
                                       THEN status ELSE calls[c].status
           /\ QueueInv'
           /\ (\A v \in Writers : pc'[v] \notin Logging) /\ ~Answering'
<1>1. writers[1] = w /\ Len(writers) \in Nat /\ Len(calls) \in Nat
  BY DEF Inv, TypeInv, QueueInv
<1>2. /\ writers' = SubSeq(writers, n + 1, Len(writers))
      /\ calls' = [c \in DOMAIN calls |->
              IF \E v \in {writers[i] : i \in 1 .. n} : op[v] = c
              THEN [calls[c] EXCEPT !.status = status] ELSE calls[c]]
      /\ Goto(w, Returned(CallOf(w).null, status))
  BY DEF Dequeue
<1>3. /\ writers' \in Seq(Writers) /\ Len(writers') = Len(writers) - n
      /\ \A i \in 1 .. Len(writers) - n : writers'[i] = writers[n + i]
  <2>1. writers \in Seq(Writers)
    BY DEF Inv, TypeInv
  <2> QED
    BY <1>2, <2>1, DropFirst
<1> DEFINE popped(c) == \E i \in 1 .. n : op[writers[i]] = c
           hit(c) == \E v \in {writers[i] : i \in 1 .. n} : op[v] = c
<1>4. \A c : hit(c) <=> popped(c)
  OBVIOUS
<1>5. calls' = [c \in 1 .. Len(calls) |->
                   IF hit(c) THEN [calls[c] EXCEPT !.status = status] ELSE calls[c]]
  <2>1. DOMAIN calls = 1 .. Len(calls)
    BY LenProperties DEF Inv, TypeInv
  <2> QED
    BY <1>2, <2>1, Zenon
<1> HIDE DEF popped, hit
<1>6. \A c \in 1 .. Len(calls) :
         /\ calls'[c] \in Call
         /\ calls'[c].null = calls[c].null /\ calls'[c].sync = calls[c].sync
         /\ calls'[c].status = IF popped(c) THEN status ELSE calls[c].status
  <2>1. \A c \in 1 .. Len(calls) : calls[c] \in Call
    BY DEF Inv, TypeInv
  <2> QED
    BY <1>4, <1>5, <2>1 DEF Call
<1>7. calls' \in Seq(Call) /\ Len(calls') = Len(calls)
  <2>1. calls' \in [1 .. Len(calls) -> Call]
    BY <1>5, <1>6
  <2> QED
    BY <1>1, <2>1, FunctionIsSeq
<1>8. /\ DOMAIN pc' = Threads /\ pc'[w] \in {"idle", "compactmem"}
      /\ \A v \in Writers \ {w} : pc'[v] = pc[v]
  BY <1>2 DEF Goto, Returned, Inv, TypeInv, Threads
<1>9. \A v \in Writers : pc'[v] \notin Leading
  BY <1>8, OneLeader DEF Inv, Leading, Logging
<1>10. \A i \in 1 .. Len(writers) : writers[i] \in Writers
  BY DEF Inv, TypeInv
<1>11. \A i \in 1 .. Len(writers) - n :
          /\ n + i \in 1 .. Len(writers) /\ n + i # 1 /\ writers'[i] = writers[n + i]
          /\ ~popped(op[writers[n + i]])
  <2>1. TAKE i \in 1 .. Len(writers) - n
  <2>2. n + i \in 1 .. Len(writers) /\ n + i > n /\ n + i # 1
    BY <1>1
  <2>3. \A j \in 1 .. n : j \in 1 .. Len(writers) /\ j # n + i
    BY <1>1, <2>2
  <2>4. ~popped(op[writers[n + i]])
    BY <2>2, <2>3 DEF popped, Inv, QueueInv
  <2> QED
    BY <1>3, <2>2, <2>4
<1>12. QueueInv'
  <2>1. \A i \in 1 .. Len(writers') :
          /\ pc'[writers'[i]] \in Leading \cup {"queued"}
          /\ op'[writers'[i]] \in 1 .. Len(calls')
          /\ calls'[op'[writers'[i]]].status = None
    <3>1. TAKE i \in 1 .. Len(writers')
    <3>2. n + i \in 1 .. Len(writers) /\ n + i # 1 /\ writers'[i] = writers[n + i]
          /\ ~popped(op[writers[n + i]])
      BY <1>3, <1>11
    <3>3. /\ pc[writers[n + i]] \in Leading \cup {"queued"}
          /\ op[writers[n + i]] \in 1 .. Len(calls) /\ calls[op[writers[n + i]]].status = None
      BY <3>2 DEF Inv, QueueInv, CallOf
    <3>4. writers[n + i] # w
      BY <1>1, <3>2 DEF Inv, QueueInv
    <3> QED
      BY <1>6, <1>7, <1>8, <1>10, <3>2, <3>3, <3>4
  <2>2. \A i, j \in 1 .. Len(writers') : op'[writers'[i]] = op'[writers'[j]] => i = j
    <3>1. TAKE i, j \in 1 .. Len(writers')
    <3>2. HAVE op'[writers'[i]] = op'[writers'[j]]
    <3>3. op[writers[n + i]] = op[writers[n + j]] /\ n + i \in 1 .. Len(writers)
          /\ n + j \in 1 .. Len(writers)
      BY <1>3, <1>11, <3>2
    <3>4. n + i = n + j
      BY <3>3 DEF Inv, QueueInv
    <3> QED
      BY <1>1, <1>3, <3>4
  <2>3. \A v \in Writers : pc'[v] = "queued" =>
          /\ op'[v] \in 1 .. Len(calls')
          /\ calls'[op'[v]].status = None => \E i \in 1 .. Len(writers') : writers'[i] = v
    <3>1. SUFFICES ASSUME NEW v \in Writers, pc'[v] = "queued"
                   PROVE  /\ op'[v] \in 1 .. Len(calls')
                          /\ calls'[op'[v]].status = None =>
                                \E i \in 1 .. Len(writers') : writers'[i] = v
      OBVIOUS
    <3>2. v # w /\ pc[v] = "queued"
      BY <1>8, <3>1
    <3>3. op[v] \in 1 .. Len(calls)
      BY <3>2 DEF Inv, QueueInv
    <3>4. SUFFICES ASSUME calls'[op[v]].status = None
                   PROVE  \E i \in 1 .. Len(writers') : writers'[i] = v
      BY <1>7, <3>3
    <3>5. ~popped(op[v]) /\ calls[op[v]].status = None
      BY <1>6, <3>3, <3>4 DEF None
    <3>6. PICK k \in 1 .. Len(writers) : writers[k] = v
      BY <3>2, <3>5 DEF Inv, QueueInv, CallOf
    <3>7. k \notin 1 .. n
      BY <3>5, <3>6 DEF popped
    <3>8. k - n \in 1 .. Len(writers) - n /\ n + (k - n) = k
      BY <1>1, <3>7
    <3>9. writers'[k - n] = v
      BY <1>3, <3>6, <3>8
    <3> QED
      BY <1>3, <3>8, <3>9
  <2> QED
    BY <1>9, <2>1, <2>2, <2>3 DEF QueueInv, CallOf
<1>13. (\A v \in Writers : pc'[v] \notin Logging) /\ ~Answering'
  BY <1>9 DEF Leading, Logging, Answering
<1> QED
  BY <1>3, <1>6, <1>7, <1>8, <1>12, <1>13 DEF popped

\* A leader that stays a leader leaves the queue as it is.
LEMMA LeaderMove ==
    ASSUME TypeInv, QueueInv, UNCHANGED <<writers, op, calls>>,
           \A v \in Writers : pc'[v] = pc[v] \/ (pc[v] \in Leading /\ pc'[v] \in Leading)
    PROVE  QueueInv'
<1>1. \A v \in Writers : /\ pc'[v] \in Leading <=> pc[v] \in Leading
                         /\ pc'[v] = "queued" <=> pc[v] = "queued"
  BY DEF Leading, Logging
<1>2. \A i \in 1 .. Len(writers) : writers[i] \in Writers
  BY DEF TypeInv
<1>3. \A i \in 1 .. Len(writers) : pc'[writers[i]] \in Leading \cup {"queued"}
  BY <1>1, <1>2 DEF QueueInv
<1> QED
  BY <1>1, <1>3 DEF QueueInv, CallOf

\* Answers to calls that store nothing: what is stored and what was answered
\* with ok stay as they were.
LEMMA AnswerStep ==
    ASSUME Inv, NEW w \in Writers, pc[w] \in Leading, NEW n \in 1 .. Len(writers),
           NEW status \in {"ok", "error"}, Dequeue(w, n, status), ~Answering,
           status = "ok" => n = 1 /\ CallOf(w).null,
           UNCHANGED <<op, mem, imm, has_imm, logs, log_number, tables>>,
           group' \in Nat, last_sequence' \in Nat, last_sequence' >= last_sequence
    PROVE  Inv'
<1>1. /\ writers' \in Seq(Writers) /\ calls' \in Seq(Call) /\ DOMAIN pc' = Threads
      /\ Len(calls') = Len(calls)
      /\ \A c \in 1 .. Len(calls) :
            /\ calls'[c].null = calls[c].null /\ calls'[c].sync = calls[c].sync
            /\ calls'[c].status = IF \E i \in 1 .. n : op[writers[i]] = c
                                  THEN status ELSE calls[c].status
      /\ QueueInv'
      /\ (\A v \in Writers : pc'[v] \notin Logging) /\ ~Answering'
  BY DequeueFacts
<1>2. TypeInv'
  BY <1>1 DEF Inv, TypeInv
<1>3. LeaderInv' /\ GroupInv'
  BY <1>1 DEF LeaderInv, GroupInv, Logging
<1>4. LogInv'
  BY DEF Inv, LogInv, Logged
<1>5. \A i \in 1 .. n : i \in 1 .. Len(writers) /\ calls[op[writers[i]]].status = None
  BY DEF Inv, TypeInv, QueueInv, CallOf
<1>6. \A c \in 1 .. Len(calls) : calls[c].status = "ok" => calls'[c].status = "ok"
  BY <1>1, <1>5 DEF None
<1>7. Stored' = Stored
  BY DEF Stored
<1>8. StoreInv'
  <2>1. ASSUME NEW r \in Stored
        PROVE  /\ r.batch \in 1 .. Len(calls') /\ calls'[r.batch].status = "ok"
               /\ r.seq <= last_sequence'
    <3>1. /\ r.batch \in 1 .. Len(calls) /\ calls[r.batch].status = "ok"
          /\ r.seq <= last_sequence /\ r.seq \in Nat
      BY DEF Inv, StoreInv, TypeInv, Stored, Record
    <3> QED
      BY <1>1, <1>6, <3>1, SMTT(60) DEF Inv, TypeInv
  <2> QED
    BY <1>7, <2>1 DEF Inv, StoreInv
<1>9. AckInv'
  <2>1. ASSUME NEW c \in 1 .. Len(calls), calls'[c].status = "ok", ~calls'[c].null
        PROVE  calls[c].status = "ok"
    <3>1. CASE \E i \in 1 .. n : op[writers[i]] = c
      <4>1. status = "ok" /\ n = 1 /\ CallOf(w).null
        BY <1>1, <2>1, <3>1
      <4>2. writers[1] = w
        BY DEF Inv, QueueInv
      <4>3. c = op[w]
        BY <3>1, <4>1, <4>2
      <4> QED
        BY <1>1, <2>1, <4>1, <4>3 DEF CallOf
    <3>2. CASE ~\E i \in 1 .. n : op[writers[i]] = c
      BY <1>1, <2>1, <3>2
    <3> QED
      BY <3>1, <3>2
  <2>2. \A r : Durable(r)' <=> Durable(r)
    BY DEF Durable, Synced
  <2> QED
    BY <1>1, <1>7, <2>1, <2>2 DEF Inv, AckInv
<1> QED
  BY <1>1, <1>2, <1>3, <1>4, <1>8, <1>9 DEF Inv

\* MakeRoomForWrite fails.
LEMMA RoomFailsStep ==
    ASSUME Inv, NEW w \in Writers, RoomError(w) \/ RoomSwitchFails(w)
    PROVE  Inv'
<1>1. pc[w] \in Outside
  BY DEF RoomError, RoomSwitchFails, Switching, RoomElse, InRoom, Outside
<1>2. ~Answering /\ Len(writers) > 0 /\ pc[w] \in Leading
  BY <1>1, NobodyLogs DEF Outside, Leading
<1>3. Dequeue(w, 1, "error")
      /\ UNCHANGED <<op, mem, imm, has_imm, logs, log_number, tables, group, last_sequence>>
  BY DEF RoomError, RoomSwitchFails, RoomVarsUnchanged, memVars, diskVars
<1>4. 1 \in 1 .. Len(writers) /\ group' \in Nat /\ last_sequence' \in Nat
      /\ last_sequence' >= last_sequence
  BY <1>2, <1>3 DEF Inv, TypeInv
<1> QED
  BY <1>2, <1>3, <1>4, AnswerStep

LEMMA RoomFoundStep ==
    ASSUME Inv, NEW w \in Writers, RoomFound(w)
    PROVE  Inv'
<1>1. pc[w] \in Outside
  BY DEF RoomFound, RoomElse, InRoom, Outside
<1>2. /\ ~Answering /\ Len(writers) > 0 /\ writers[1] = w /\ pc[w] \in Leading
      /\ \A v \in Writers : pc[v] \notin Logging
  BY <1>1, NobodyLogs DEF Outside, Leading
<1>3. UNCHANGED <<op, mem, imm, has_imm, logs, log_number, tables, last_sequence>>
  BY DEF RoomFound, RoomVarsUnchanged, memVars, diskVars
<1>4. CASE CallOf(w).null
  <2>1. Dequeue(w, 1, "ok") /\ group' = group
    BY <1>4 DEF RoomFound
  <2>2. 1 \in 1 .. Len(writers) /\ group' \in Nat /\ last_sequence' \in Nat
        /\ last_sequence' >= last_sequence
    BY <1>2, <1>3, <2>1 DEF Inv, TypeInv
  <2> QED
    BY <1>2, <1>3, <1>4, <2>1, <2>2, AnswerStep
<1>5. CASE ~CallOf(w).null
  <2>1. /\ group' \in BuildBatchGroup /\ st' = "ok" /\ Goto(w, "log")
        /\ UNCHANGED <<writers, calls>>
    BY <1>5 DEF RoomFound
  <2>2. /\ group' \in 1 .. Len(writers)
        /\ \A i \in 2 .. group' : CallOf(writers[i]).sync => CallOf(writers[1]).sync
    BY <2>1 DEF BuildBatchGroup
  <2>3. \A i \in 1 .. group' : CallOf(writers[i]).sync => CallOf(w).sync
    BY <1>2, <2>2 DEF Inv, TypeInv
  <2>4. /\ DOMAIN pc' = Threads /\ pc'[w] = "log"
        /\ \A v \in Writers \ {w} : pc'[v] = pc[v]
    BY <2>1 DEF Goto, Inv, TypeInv, Threads
  <2>5. TypeInv'
    BY <1>3, <2>1, <2>2, <2>4 DEF Inv, TypeInv
  <2>6. QueueInv'
    <3>1. \A v \in Writers : pc'[v] = pc[v] \/ (pc[v] \in Leading /\ pc'[v] \in Leading)
      BY <1>2, <2>4 DEF Leading, Logging
    <3> QED
      BY <1>3, <2>1, <3>1, LeaderMove DEF Inv
  <2>7. LeaderInv'
    BY <1>2, <1>3, <2>1, <2>2, <2>3, <2>4 DEF LeaderInv, CallOf
  <2>8. LogInv'
    BY <1>3 DEF Inv, LogInv, Logged
  <2>9. GroupInv' /\ ~Answering'
    BY <1>2, <2>4 DEF GroupInv, Answering, Logging
  <2>10. Stored' = Stored /\ \A r : Durable(r)' <=> Durable(r)
    BY <1>3 DEF Stored, Durable, Synced
  <2>11. StoreInv'
    BY <1>2, <1>3, <2>1, <2>10 DEF Inv, StoreInv
  <2>12. AckInv'
    BY <2>1, <2>10 DEF Inv, AckInv
  <2> QED
    BY <2>5, <2>6, <2>7, <2>8, <2>9, <2>11, <2>12 DEF Inv
<1> QED
  BY <1>4, <1>5

-----------------------------------------------------------------------------
(* The leader logs, syncs and inserts its group.                           *)

\* The leader moves and the current log gains records or a longer synced part.
LEMMA LogStep ==
    ASSUME Inv, NEW w \in Writers, pc[w] \in {"log", "sync"},
           NEW where \in {"sync", "insert", "relock"}, Goto(w, where),
           st' = "ok" => where # "relock",
           UNCHANGED <<writers, op, calls, group, mem, imm, has_imm, last_sequence,
                       log_number, tables>>,
           logs' \in Seq(LogFile), Len(logs') = Len(logs),
           \A i \in 1 .. Len(logs) :
              /\ logs'[i].exists = logs[i].exists
              /\ logs'[i].synced <= Len(logs'[i].records)
              /\ logs[i].synced <= logs'[i].synced
              /\ Len(logs[i].records) <= Len(logs'[i].records)
              /\ \A j \in 1 .. Len(logs[i].records) : logs'[i].records[j] = logs[i].records[j]
    PROVE  /\ TypeInv' /\ QueueInv' /\ LogInv' /\ StoreInv' /\ AckInv'
           /\ GroupRecords' = GroupRecords
           /\ pc'[w] = where /\ \A v \in Writers \ {w} : pc'[v] = pc[v] /\ pc[v] \notin Logging
<1>1. pc[w] \in Leading /\ where \in Leading /\ pc[w] # "relock"
  BY DEF Leading, Logging
<1>2. /\ DOMAIN pc' = Threads /\ pc'[w] = where
      /\ \A v \in Writers \ {w} : pc'[v] = pc[v]
  BY DEF Goto, Inv, TypeInv, Threads
<1>3. \A v \in Writers \ {w} : pc[v] \notin Logging
  BY <1>1, OneLeader DEF Inv, Leading
<1>4. ~Answering /\ ~Answering'
  BY <1>1, <1>2, <1>3 DEF Answering, Logging
<1>5. TypeInv'
  BY <1>2 DEF Inv, TypeInv
<1>6. QueueInv'
  BY <1>1, <1>2, LeaderMove DEF Inv
<1>7. GroupRecords' = GroupRecords
  BY DEF GroupRecords, Members, CallOf
<1>8. \A i \in 1 .. Len(logs) : logs[i] \in LogFile /\ logs'[i] \in LogFile
  BY DEF Inv, TypeInv
<1>9. \A i \in 1 .. Len(logs) : \A r :
         /\ (\E j \in 1 .. Len(logs[i].records) : r \in logs[i].records[j])
              => \E j \in 1 .. Len(logs'[i].records) : r \in logs'[i].records[j]
         /\ (\E j \in 1 .. logs[i].synced : r \in logs[i].records[j])
              => \E j \in 1 .. logs'[i].synced : r \in logs'[i].records[j]
  <2>1. TAKE i \in 1 .. Len(logs)
  <2>2. /\ Len(logs[i].records) \in Nat /\ Len(logs'[i].records) \in Nat
        /\ logs[i].synced \in Nat /\ logs'[i].synced \in Nat
    BY <1>8 DEF LogFile
  <2>3. logs[i].synced <= Len(logs[i].records)
    BY DEF Inv, LogInv
  <2>4. ASSUME NEW r, NEW j \in 1 .. Len(logs[i].records), r \in logs[i].records[j]
        PROVE  j \in 1 .. Len(logs'[i].records) /\ r \in logs'[i].records[j]
    BY <2>2, <2>4
  <2>5. ASSUME NEW r, NEW j \in 1 .. logs[i].synced, r \in logs[i].records[j]
        PROVE  j \in 1 .. logs'[i].synced /\ r \in logs'[i].records[j]
    BY <2>2, <2>3, <2>5, SMTT(60)
  <2> QED
    BY <2>4, <2>5
<1>10. Len(logs) \in 1 .. Len(logs) /\ log_number \in 1 .. Len(logs)
  BY DEF Inv, TypeInv, LogInv
<1>11. LogInv'
  <2>1. (\A i \in log_number .. Len(logs) : logs[i].exists)'
    <3>1. log_number \in Nat /\ log_number >= 1 /\ Len(logs) \in Nat
      BY DEF Inv, LogInv, TypeInv
    <3>2. \A i \in log_number .. Len(logs) : i \in 1 .. Len(logs)
      BY <3>1
    <3>3. \A i \in log_number .. Len(logs) : logs[i].exists
      BY DEF Inv, LogInv
    <3>4. \A i \in log_number .. Len(logs) : logs'[i].exists
      BY <3>2, <3>3
    <3> QED
      BY <3>4
  <2>2. (\A r \in mem : Logged(r, Len(logs)))' /\ (\A r \in imm : Logged(r, log_number))'
    BY <1>9, <1>10 DEF Inv, LogInv, Logged
  <2> QED
    BY <2>1, <2>2 DEF Inv, LogInv
<1>12. Stored' = Stored /\ \A r : Durable(r) => Durable(r)'
  BY <1>9, <1>10 DEF Stored, Durable, Synced
<1>13. StoreInv'
  BY <1>4, <1>12 DEF Inv, StoreInv
<1>14. AckInv'
  BY <1>12 DEF Inv, AckInv
<1> QED
  BY <1>2, <1>3, <1>5, <1>6, <1>7, <1>11, <1>13, <1>14

LEMMA AddRecordStep ==
    ASSUME Inv, NEW w \in Writers, AddRecord(w)
    PROVE  Inv'
<1>1. /\ pc[w] = "log" /\ pc[w] \in Logging
      /\ UNCHANGED <<writers, op, calls, group, mem, imm, has_imm, last_sequence,
                     log_number, tables>>
  BY DEF AddRecord, memVars, Logging
<1>2. PICK ok \in BOOLEAN :
         /\ st' = IF ok THEN "ok" ELSE "error"
         /\ Goto(w, IF ~ok THEN "relock" ELSE IF CallOf(w).sync THEN "sync" ELSE "insert")
         /\ \/ logs' = [logs EXCEPT ![Len(logs)].records = Append(@, GroupRecords)]
            \/ ~ok /\ UNCHANGED logs
  BY DEF AddRecord, Current
<1> DEFINE n == Len(logs)
           where == IF ~ok THEN "relock" ELSE IF CallOf(w).sync THEN "sync" ELSE "insert"
<1>3. group \in 1 .. Len(writers) /\ \A i \in 1 .. group : CallOf(writers[i]).sync => CallOf(w).sync
  BY <1>1 DEF Inv, LeaderInv
<1>4. GroupRecords \in SUBSET Record
  BY <1>3, GroupRecordsType DEF Inv
<1>5. n \in 1 .. n /\ logs \in Seq(LogFile) /\ \A i \in 1 .. n : logs[i] \in LogFile
  BY DEF Inv, TypeInv, LogInv
<1>6. CASE logs' = [logs EXCEPT ![n].records = Append(@, GroupRecords)]
  <2> DEFINE new == [logs[n] EXCEPT !.records = Append(@, GroupRecords)]
  <2>1. logs[n].records \in Seq(SUBSET Record)
    BY <1>5 DEF LogFile
  <2>2. /\ Append(logs[n].records, GroupRecords) \in Seq(SUBSET Record)
        /\ Len(Append(logs[n].records, GroupRecords)) = Len(logs[n].records) + 1
        /\ \A j \in 1 .. Len(logs[n].records) :
              Append(logs[n].records, GroupRecords)[j] = logs[n].records[j]
        /\ Append(logs[n].records, GroupRecords)[Len(logs[n].records) + 1] = GroupRecords
    BY <1>4, <2>1
  <2>3. /\ new \in LogFile /\ new.exists = logs[n].exists /\ new.synced = logs[n].synced
        /\ new.records = Append(logs[n].records, GroupRecords)
    BY <1>5, <2>2 DEF LogFile
  <2>4. logs' = [logs EXCEPT ![n] = new]
    BY <1>6
  <2>5. /\ logs' \in Seq(LogFile) /\ Len(logs') = n
        /\ \A i \in 1 .. n : logs'[i] = IF i = n THEN new ELSE logs[i]
    <3> HIDE DEF new
    <3> QED
      BY <1>5, <2>3, <2>4, ExceptSeq
  <2>6. \A i \in 1 .. n :
              /\ logs'[i].exists = logs[i].exists
              /\ logs'[i].synced <= Len(logs'[i].records)
              /\ logs[i].synced <= logs'[i].synced
              /\ Len(logs[i].records) <= Len(logs'[i].records)
              /\ \A j \in 1 .. Len(logs[i].records) : logs'[i].records[j] = logs[i].records[j]
    <3> HIDE DEF new
    <3>1. TAKE i \in 1 .. n
    <3>2. /\ logs[i].synced \in Nat /\ Len(logs[i].records) \in Nat
          /\ logs[i].synced <= Len(logs[i].records)
      BY <1>5 DEF LogFile, Inv, LogInv
    <3> QED
      BY <2>2, <2>3, <2>5, <3>2, SMTT(60)
  <2>7. /\ TypeInv' /\ QueueInv' /\ LogInv' /\ StoreInv' /\ AckInv'
        /\ GroupRecords' = GroupRecords
        /\ pc'[w] = where /\ \A v \in Writers \ {w} : pc'[v] = pc[v] /\ pc[v] \notin Logging
    <3>1. where \in {"sync", "insert", "relock"} /\ (st' = "ok" => where # "relock")
          /\ Goto(w, where)
      BY <1>2
    <3> HIDE DEF where
    <3> QED
      BY <1>1, <2>5, <2>6, <3>1, LogStep
  <2>8. LeaderInv'
    BY <1>1, <1>2, <1>3, <2>7 DEF LeaderInv, CallOf
  <2>9. \A r \in GroupRecords : r \in logs'[n].records[Len(logs[n].records) + 1]
    <3> HIDE DEF new
    <3> QED
      BY <1>5, <2>2, <2>3, <2>5
  <2>10. \A r \in GroupRecords : Logged(r, n)'
    <3>1. Len(logs[n].records) + 1 \in 1 .. Len(logs'[n].records)
      <4> HIDE DEF new
      <4> QED
        BY <1>5, <2>1, <2>2, <2>3, <2>5
    <3> QED
      BY <2>5, <2>9, <3>1 DEF Logged
  <2>11. GroupInv'
    <3>1. pc'[w] # "insert" \/ ~CallOf(w)'.sync
      BY <1>1, <2>7 DEF CallOf
    <3>2. ~(pc'[w] = "relock" /\ st' = "ok")
      BY <1>2, <2>7
    <3> QED
      BY <1>1, <2>7, <2>10, <3>1, <3>2 DEF GroupInv, Logging
  <2> QED
    BY <2>7, <2>8, <2>11 DEF Inv
<1>7. CASE ~ok /\ UNCHANGED logs
  <2>1. \A i \in 1 .. n :
              /\ logs'[i].exists = logs[i].exists
              /\ logs'[i].synced <= Len(logs'[i].records)
              /\ logs[i].synced <= logs'[i].synced
              /\ Len(logs[i].records) <= Len(logs'[i].records)
              /\ \A j \in 1 .. Len(logs[i].records) : logs'[i].records[j] = logs[i].records[j]
    BY <1>5, <1>7 DEF LogFile, Inv, LogInv
  <2>2. Goto(w, "relock") /\ st' = "error"
    BY <1>2, <1>7
  <2>3. /\ TypeInv' /\ QueueInv' /\ LogInv' /\ StoreInv' /\ AckInv'
        /\ pc'[w] = "relock" /\ \A v \in Writers \ {w} : pc'[v] = pc[v] /\ pc[v] \notin Logging
    BY <1>1, <1>5, <1>7, <2>1, <2>2, LogStep
  <2>4. LeaderInv'
    BY <1>1, <1>3, <2>3 DEF LeaderInv, CallOf
  <2>5. GroupInv'
    BY <2>2, <2>3 DEF GroupInv, Logging
  <2> QED
    BY <2>3, <2>4, <2>5 DEF Inv
<1> QED
  BY <1>2, <1>6, <1>7

LEMMA SyncStep ==
    ASSUME Inv, NEW w \in Writers, Sync(w)
    PROVE  Inv'
<1>1. /\ pc[w] = "sync" /\ pc[w] \in Logging
      /\ UNCHANGED <<writers, op, calls, group, mem, imm, has_imm, last_sequence,
                     log_number, tables>>
  BY DEF Sync, memVars, Logging
<1> DEFINE n == Len(logs)
<1>2. n \in 1 .. n /\ logs \in Seq(LogFile) /\ \A i \in 1 .. n : logs[i] \in LogFile
  BY DEF Inv, TypeInv, LogInv
<1>3. /\ group \in 1 .. Len(writers) /\ st = "ok"
      /\ \A i \in 1 .. group : CallOf(writers[i]).sync => CallOf(w).sync
  BY <1>1 DEF Inv, LeaderInv
<1>4. \A r \in GroupRecords : Logged(r, n)
  BY <1>1 DEF Inv, GroupInv
<1>5. CASE /\ logs' = [logs EXCEPT ![n].synced = Len(logs[n].records)]
           /\ Goto(w, "insert") /\ st' = st
  <2> DEFINE new == [logs[n] EXCEPT !.synced = Len(logs[n].records)]
  <2>1. /\ new \in LogFile /\ new.exists = logs[n].exists
        /\ new.records = logs[n].records /\ new.synced = Len(logs[n].records)
    BY <1>2, SMTT(60) DEF LogFile
  <2>2. logs' = [logs EXCEPT ![n] = new]
    BY <1>5
  <2> HIDE DEF new
  <2>3. /\ logs' \in Seq(LogFile) /\ Len(logs') = n
        /\ \A i \in 1 .. n : logs'[i] = IF i = n THEN new ELSE logs[i]
    BY <1>2, <2>1, <2>2, ExceptSeq
  <2>4. \A i \in 1 .. n :
              /\ logs'[i].exists = logs[i].exists
              /\ logs'[i].synced <= Len(logs'[i].records)
              /\ logs[i].synced <= logs'[i].synced
              /\ Len(logs[i].records) <= Len(logs'[i].records)
              /\ \A j \in 1 .. Len(logs[i].records) : logs'[i].records[j] = logs[i].records[j]
    <3>1. TAKE i \in 1 .. n
    <3>2. /\ logs[i].synced \in Nat /\ Len(logs[i].records) \in Nat
          /\ logs[i].synced <= Len(logs[i].records)
      BY <1>2 DEF LogFile, Inv, LogInv
    <3> QED
      BY <2>1, <2>3, <3>2
  <2>5. /\ TypeInv' /\ QueueInv' /\ LogInv' /\ StoreInv' /\ AckInv'
        /\ GroupRecords' = GroupRecords
        /\ pc'[w] = "insert" /\ \A v \in Writers \ {w} : pc'[v] = pc[v] /\ pc[v] \notin Logging
    BY <1>1, <1>5, <2>3, <2>4, LogStep
  <2>6. LeaderInv'
    BY <1>1, <1>3, <1>5, <2>5 DEF LeaderInv, CallOf
  <2>7. \A r \in GroupRecords : (Logged(r, n) /\ Synced(r, n))'
    BY <1>2, <1>4, <2>1, <2>3 DEF Logged, Synced
  <2>8. GroupInv'
    BY <2>5, <2>7 DEF GroupInv, Logging
  <2> QED
    BY <2>5, <2>6, <2>8 DEF Inv
<1>6. CASE st' = "sync_error" /\ Goto(w, "relock") /\ UNCHANGED logs
  <2>1. \A i \in 1 .. n :
              /\ logs'[i].exists = logs[i].exists
              /\ logs'[i].synced <= Len(logs'[i].records)
              /\ logs[i].synced <= logs'[i].synced
              /\ Len(logs[i].records) <= Len(logs'[i].records)
              /\ \A j \in 1 .. Len(logs[i].records) : logs'[i].records[j] = logs[i].records[j]
    BY <1>2, <1>6 DEF LogFile, Inv, LogInv
  <2>2. /\ TypeInv' /\ QueueInv' /\ LogInv' /\ StoreInv' /\ AckInv'
        /\ pc'[w] = "relock" /\ \A v \in Writers \ {w} : pc'[v] = pc[v] /\ pc[v] \notin Logging
    BY <1>1, <1>2, <1>6, <2>1, LogStep
  <2>3. LeaderInv'
    BY <1>1, <1>3, <2>2 DEF LeaderInv, CallOf
  <2>4. GroupInv'
    BY <1>6, <2>2 DEF GroupInv, Logging
  <2> QED
    BY <2>2, <2>3, <2>4 DEF Inv
<1> QED
  BY <1>5, <1>6 DEF Sync, Current

\* The group enters the memtable: its calls are unanswered, so none of its
\* batches is stored yet, and no two of its records have the same batch.
LEMMA InsertIntoStep ==
    ASSUME Inv, NEW w \in Writers, InsertInto(w)
    PROVE  Inv'
<1>1. /\ pc[w] = "insert" /\ pc[w] \in Logging /\ pc[w] \in Leading
      /\ Goto(w, "relock") /\ mem' = mem \cup GroupRecords
      /\ UNCHANGED <<writers, op, calls, group, st, imm, has_imm, last_sequence, logs,
                     log_number, tables>>
  BY DEF InsertInto, Logging, Leading, queueVars, diskVars
<1>2. /\ group \in 1 .. Len(writers) /\ st = "ok"
      /\ \A i \in 1 .. group : CallOf(writers[i]).sync => CallOf(w).sync
  BY <1>1 DEF Inv, LeaderInv
<1>3. /\ GroupRecords \in SUBSET Record
      /\ \A r \in GroupRecords : \E i \in 1 .. group :
            r.batch = op[writers[i]] /\ i \in Members
            /\ r.seq <= last_sequence + Cardinality(Members)
      /\ \A i \in Members : \E r \in GroupRecords : r.batch = op[writers[i]]
  BY <1>2, GroupRecordsType DEF Inv
<1>4. /\ DOMAIN pc' = Threads /\ pc'[w] = "relock"
      /\ \A v \in Writers \ {w} : pc'[v] = pc[v]
  BY <1>1 DEF Goto, Inv, TypeInv, Threads
<1>5. \A v \in Writers \ {w} : pc[v] \notin Logging
  BY <1>1, OneLeader DEF Inv, Leading
<1>6. ~Answering /\ Answering'
  BY <1>1, <1>2, <1>4, <1>5 DEF Answering, Logging
<1>7. TypeInv'
  BY <1>1, <1>3, <1>4 DEF Inv, TypeInv
<1>8. QueueInv'
  <2>1. "relock" \in Leading
    BY DEF Leading, Logging
  <2> QED
    BY <1>1, <1>4, <2>1, LeaderMove DEF Inv
<1>9. LeaderInv'
  BY <1>1, <1>2, <1>4, <1>5 DEF LeaderInv, CallOf
<1>10. GroupRecords' = GroupRecords
  BY <1>1 DEF GroupRecords, Members, CallOf
<1>11. \A r \in GroupRecords : /\ Logged(r, Len(logs))
                               /\ CallOf(w).sync => Synced(r, Len(logs))
  BY <1>1 DEF Inv, GroupInv
<1>12. LogInv'
  BY <1>1, <1>11 DEF Inv, LogInv, Logged
<1>13. GroupInv'
  BY <1>1, <1>4, <1>5, <1>10, <1>11 DEF GroupInv, Logging, Logged, Synced, CallOf
<1>14. Stored' = Stored \cup GroupRecords
  BY <1>1 DEF Stored
<1>15. StoreInv'
  <2>1. \A r \in Stored : /\ r.batch \in 1 .. Len(calls) /\ calls[r.batch].status = "ok"
                          /\ r.seq <= last_sequence
    BY <1>6 DEF Inv, StoreInv
  <2>2. \A r \in GroupRecords : calls[r.batch].status = None
    <3>1. \A i \in 1 .. group : calls[op[writers[i]]].status = None
      BY <1>2 DEF Inv, TypeInv, QueueInv, CallOf
    <3> QED
      BY <1>3, <3>1
  <2>3. \A r, s \in GroupRecords : r.batch = s.batch => r = s
    <3> DEFINE rec(i) == [batch |-> op[writers[i]],
                          seq |-> last_sequence + Cardinality({j \in Members : j <= i})]
    <3>1. GroupRecords = {rec(i) : i \in Members}
      BY DEF GroupRecords
    <3>2. \A i \in Members : rec(i).batch = op[writers[i]] /\ i \in 1 .. Len(writers)
      BY <1>2 DEF Members, Inv, TypeInv
    <3> HIDE DEF rec
    <3> QED
      BY <3>1, <3>2 DEF Inv, QueueInv
  <2>4. \A r, s \in Stored' : r.batch = s.batch => r = s
    BY <1>14, <2>1, <2>2, <2>3 DEF Inv, StoreInv, None
  <2> QED
    BY <1>1, <1>6, <1>10, <1>14, <2>1, <2>4 DEF StoreInv
<1>16. AckInv'
  <2>1. \A r : Durable(r) => Durable(r)'
    BY <1>1 DEF Durable, Synced
  <2> QED
    BY <1>1, <1>14, <2>1 DEF Inv, AckInv
<1> QED
  BY <1>7, <1>8, <1>9, <1>12, <1>13, <1>15, <1>16 DEF Inv

\* The answer: what the group stored is now acknowledged.
LEMMA RelockStep ==
    ASSUME Inv, NEW w \in Writers, Relock(w)
    PROVE  Inv'
<1> DEFINE status == IF st = "ok" THEN "ok" ELSE "error"
<1>1. /\ pc[w] = "relock" /\ pc[w] \in Logging /\ pc[w] \in Leading
      /\ last_sequence' = last_sequence + Cardinality(Members)
      /\ Dequeue(w, group, status) /\ status \in {"ok", "error"}
      /\ UNCHANGED <<op, group, mem, imm, has_imm, logs, log_number, tables>>
  BY DEF Relock, Publish, Logging, Leading, diskVars
<1>2. /\ group \in 1 .. Len(writers)
      /\ \A i \in 1 .. group : CallOf(writers[i]).sync => CallOf(w).sync
  BY <1>1 DEF Inv, LeaderInv
<1>3. /\ GroupRecords \in SUBSET Record
      /\ \A r \in GroupRecords : \E i \in 1 .. group :
            r.batch = op[writers[i]] /\ i \in Members
            /\ r.seq <= last_sequence + Cardinality(Members)
      /\ \A i \in Members : \E r \in GroupRecords : r.batch = op[writers[i]]
  BY <1>2, GroupRecordsType DEF Inv
<1>4. /\ Cardinality(Members) \in Nat /\ last_sequence \in Nat /\ group' \in Nat
      /\ last_sequence' \in Nat /\ last_sequence' >= last_sequence
  BY <1>1, MembersFinite DEF Inv, TypeInv
<1>5. CASE st # "ok"
  <2>1. ~Answering /\ status = "error"
    BY <1>5 DEF Answering
  <2> HIDE DEF status
  <2> QED
    BY <1>1, <1>2, <1>4, <2>1, AnswerStep
<1>6. CASE st = "ok"
  <2>1. status = "ok" /\ GroupRecords \subseteq mem
    BY <1>1, <1>6 DEF Inv, GroupInv
  <2>2. /\ writers' \in Seq(Writers) /\ calls' \in Seq(Call) /\ DOMAIN pc' = Threads
        /\ Len(calls') = Len(calls)
        /\ \A c \in 1 .. Len(calls) :
              /\ calls'[c].null = calls[c].null /\ calls'[c].sync = calls[c].sync
              /\ calls'[c].status = IF \E i \in 1 .. group : op[writers[i]] = c
                                    THEN "ok" ELSE calls[c].status
        /\ QueueInv'
        /\ (\A v \in Writers : pc'[v] \notin Logging) /\ ~Answering'
    <3> HIDE DEF status
    <3> QED
      BY <1>1, <1>2, <2>1, DequeueFacts
  <2>3. TypeInv'
    BY <1>1, <1>4, <2>2 DEF Inv, TypeInv
  <2>4. LeaderInv' /\ GroupInv'
    BY <2>2 DEF LeaderInv, GroupInv, Logging
  <2>5. LogInv'
    BY <1>1 DEF Inv, LogInv, Logged
  <2>6. \A i \in 1 .. group :
           i \in 1 .. Len(writers) /\ op[writers[i]] \in 1 .. Len(calls)
    BY <1>2 DEF Inv, TypeInv, QueueInv
  <2>7. Stored' = Stored /\ \A r : Durable(r)' <=> Durable(r)
    BY <1>1 DEF Stored, Durable, Synced
  <2>8. StoreInv'
    <3>1. ASSUME NEW r \in Stored
          PROVE  /\ r.batch \in 1 .. Len(calls') /\ calls'[r.batch].status = "ok"
                 /\ r.seq <= last_sequence'
      <4>1. CASE /\ r.batch \in 1 .. Len(calls) /\ calls[r.batch].status = "ok"
                 /\ r.seq <= last_sequence
        <5>1. r.seq \in Nat
          BY DEF Inv, TypeInv, Stored, Record
        <5> QED
          BY <1>4, <2>2, <4>1, <5>1
      <4>2. CASE r \in GroupRecords
        BY <1>1, <1>3, <2>2, <2>6, <4>2
      <4> QED
        BY <4>1, <4>2 DEF Inv, StoreInv
    <3> QED
      BY <2>7, <3>1 DEF Inv, StoreInv
  <2>9. AckInv'
    <3>1. SUFFICES ASSUME NEW c \in 1 .. Len(calls), calls'[c].status = "ok", ~calls'[c].null
                   PROVE  \E r \in Stored : r.batch = c /\ (calls[c].sync => Durable(r))
      BY <2>2, <2>7 DEF AckInv
    <3>2. CASE \E i \in 1 .. group : op[writers[i]] = c
      <4>1. PICK i \in 1 .. group : op[writers[i]] = c
        BY <3>2
      <4>2. i \in Members
        BY <2>2, <3>1, <4>1 DEF Members, CallOf
      <4>3. PICK r \in GroupRecords : r.batch = c
        BY <1>3, <4>1, <4>2
      <4>4. r \in mem /\ r \in Stored
        BY <2>1, <4>3 DEF Stored
      <4>5. calls[c].sync => CallOf(w).sync
        BY <1>2, <4>1 DEF CallOf
      <4>6. CallOf(w).sync => Synced(r, Len(logs))
        BY <1>1, <1>6, <4>3 DEF Inv, GroupInv
      <4> QED
        BY <4>3, <4>4, <4>5, <4>6 DEF Durable
    <3>3. CASE ~\E i \in 1 .. group : op[writers[i]] = c
      BY <2>2, <3>1, <3>3 DEF Inv, AckInv
    <3> QED
      BY <3>2, <3>3
  <2> QED
    BY <2>2, <2>3, <2>4, <2>5, <2>8, <2>9 DEF Inv
<1> QED
  BY <1>5, <1>6

-----------------------------------------------------------------------------
(* The results.                                                            *)

LEMMA NextInv == Inv /\ [Next]_vars => Inv'
<1> SUFFICES ASSUME Inv, [Next]_vars PROVE Inv'
  OBVIOUS
<1>1. ASSUME NEW w \in Writers, Write(w) \/ Proceed(w) PROVE Inv'
  BY <1>1, WriteStep, WakeStep, RoomMoveStep, RoomFailsStep, RoomFoundStep, RoomSwitchStep,
     AddRecordStep, SyncStep, InsertIntoStep, RelockStep, OtherThreadStep
     DEF Proceed, MakeRoomForWrite
<1>2. ASSUME Background PROVE Inv'
  BY <1>2, BackgroundQuietStep, FlushAppliedStep, MergeAppliedStep DEF Background
<1>3. ASSUME NEW m \in Manuals, CompactRange(m) \/ ManualLoop(m) PROVE Inv'
  BY <1>3, OtherThreadStep
<1>4. ASSUME Close \/ CloseWait PROVE Inv'
  BY <1>4, OtherThreadStep
<1>5. CASE UNCHANGED vars
  <2>1. CoreUnchanged /\ pc' = pc
    BY <1>5 DEF vars, CoreUnchanged, queueVars, memVars, diskVars
  <2> QED
    BY <2>1, SameStep
<1> QED
  BY <1>1, <1>2, <1>3, <1>4, <1>5 DEF Next

LEMMA InvHolds == Spec => []Inv
<1> QED
  BY InitInv, NextInv, PTL DEF Spec

\* A batch is in the log of its memtable before it is in the memtable, and in a
\* log that recovery reads until the memtable is a table: MakeRoomForWrite
\* switches log_ and mem_ together, CompactMemTable drops them together.
THEOREM WriteAheadHolds == Spec => []WriteAhead
<1>1. Inv => WriteAhead
  <2> SUFFICES ASSUME Inv PROVE WriteAhead
    OBVIOUS
  <2>1. log_number \in 1 .. Len(logs) /\ Len(logs) \in log_number .. Len(logs)
    BY DEF Inv, TypeInv, LogInv
  <2>2. log_number \in log_number .. Len(logs)
    BY <2>1 DEF Inv, TypeInv
  <2>3. \A r \in mem : Logged(r, Len(logs))
    BY DEF Inv, LogInv
  <2>4. \A r \in imm : Logged(r, log_number)
    BY DEF Inv, LogInv
  <2>5. logs[Len(logs)].exists /\ logs[log_number].exists
    BY <2>1, <2>2 DEF Inv, LogInv
  <2> QED
    BY <2>1, <2>2, <2>3, <2>4, <2>5 DEF WriteAhead, Replayed, Current
<1> QED
  BY <1>1, InvHolds, PTL

\* A sync write that was answered with ok survives a crash at any moment: it is
\* in a table or in the synced part of a log that recovery reads.
THEOREM SyncedSurviveHolds == Spec => []SyncedSurvive
<1>1. Inv => SyncedSurvive
  <2> SUFFICES ASSUME Inv PROVE SyncedSurvive
    OBVIOUS
  <2>1. /\ log_number \in log_number .. Len(logs) /\ Len(logs) \in log_number .. Len(logs)
        /\ logs[Len(logs)].exists /\ logs[log_number].exists
    BY DEF Inv, TypeInv, LogInv
  <2>2. SUFFICES ASSUME NEW c \in 1 .. Len(calls),
                        calls[c].status = "ok", calls[c].sync, ~calls[c].null
                 PROVE  \/ \E r \in tables : r.batch = c
                        \/ \E i \in log_number .. Len(logs) : \E j \in 1 .. logs[i].synced :
                              logs[i].exists /\ \E r \in logs[i].records[j] : r.batch = c
    <3>1. DOMAIN calls = 1 .. Len(calls)
      BY DEF Inv, TypeInv
    <3> QED
      BY <3>1 DEF SyncedSurvive, Current
  <2>3. PICK r \in Stored : r.batch = c /\ Durable(r)
    BY <2>2 DEF Inv, AckInv
  <2> QED
    BY <2>1, <2>3 DEF Durable, Synced
<1> QED
  BY <1>1, InvHolds, PTL

\* A write that was answered with ok is stored exactly once, at a sequence number
\* that readers see.
THEOREM AckedVisibleHolds == Spec => []AckedVisible
<1>1. Inv => AckedVisible
  <2> SUFFICES ASSUME Inv PROVE AckedVisible
    OBVIOUS
  <2>1. SUFFICES ASSUME NEW c \in 1 .. Len(calls), calls[c].status = "ok", ~calls[c].null
                 PROVE  /\ Cardinality({r \in Stored : r.batch = c}) = 1
                        /\ \A r \in Stored : r.batch = c => r.seq <= last_sequence
    <3>1. DOMAIN calls = 1 .. Len(calls)
      BY DEF Inv, TypeInv
    <3> QED
      BY <3>1 DEF AckedVisible, Stored
  <2>2. PICK s \in Stored : s.batch = c
    BY <2>1 DEF Inv, AckInv
  <2>3. {r \in Stored : r.batch = c} = {s}
    BY <2>2 DEF Inv, StoreInv
  <2>4. Cardinality({s}) = 1
    BY FS_Singleton
  <2>5. ASSUME NEW r \in Stored, r.batch = c
        PROVE  r.seq <= last_sequence
    <3>1. CASE Answering /\ r \in GroupRecords
      <4>1. PICK w \in Writers : pc[w] = "relock"
        BY <3>1 DEF Answering
      <4>2. group \in 1 .. Len(writers)
        BY <4>1 DEF Inv, LeaderInv, Logging
      <4>3. PICK i \in 1 .. group : r.batch = op[writers[i]]
        BY <3>1, <4>2, GroupRecordsType DEF Inv
      <4>4. calls[op[writers[i]]].status = None
        BY <4>2, <4>3 DEF Inv, TypeInv, QueueInv, CallOf
      <4> QED
        BY <2>1, <2>5, <4>3, <4>4 DEF None
    <3> QED
      BY <3>1 DEF Inv, StoreInv
  <2> QED
    BY <2>3, <2>4, <2>5
<1> QED
  BY <1>1, InvHolds, PTL

\* Once there is a background error, no write is answered with ok any more, but
\* for the group of a leader that was past MakeRoomForWrite by then.
THEOREM ErrorStopsWritesHolds == Spec => ErrorStopsWrites
<1> DEFINE Stops == bg_error /\ (\A w \in Writers : pc[w] \notin {"log", "sync", "insert", "relock"})
                        => Acked' = Acked
<1>1. ASSUME Inv, [Next]_vars, bg_error,
             \A w \in Writers : pc[w] \notin {"log", "sync", "insert", "relock"}
      PROVE  Acked' = Acked
  <2>1. CASE calls' = calls
    BY <2>1 DEF Acked
  <2>2. ASSUME NEW w \in Writers, Write(w) PROVE Acked' = Acked
    <3>1. /\ Len(calls') = Len(calls) + 1 /\ (\A c \in 1 .. Len(calls) : calls'[c] = calls[c])
          /\ calls'[Len(calls) + 1].status = None /\ TypeInv'
      BY <1>1, <2>2, WriteFacts
    <3>2. DOMAIN calls = 1 .. Len(calls) /\ DOMAIN calls' = 1 .. Len(calls') /\ Len(calls) \in Nat
      BY <1>1, <3>1 DEF Inv, TypeInv
    <3> QED
      BY <3>1, <3>2 DEF Acked, None
  <2>3. ASSUME NEW w \in Writers, RoomError(w) PROVE Acked' = Acked
    <3>1. Dequeue(w, 1, "error") /\ op' = op /\ pc[w] \in Outside
      BY <2>3 DEF RoomError, RoomVarsUnchanged, InRoom, Outside
    <3>2. pc[w] \in Leading /\ 1 \in 1 .. Len(writers)
      BY <1>1, <3>1, NobodyLogs DEF Outside, Leading, Inv, TypeInv
    <3>3. /\ Len(calls') = Len(calls) /\ calls' \in Seq(Call)
          /\ \A c \in 1 .. Len(calls) :
                calls'[c].status = IF \E i \in 1 .. 1 : op[writers[i]] = c
                                   THEN "error" ELSE calls[c].status
      BY <1>1, <3>1, <3>2, DequeueFacts
    <3>4. \A i \in 1 .. 1 : calls[op[writers[i]]].status = None
      BY <1>1, <3>2 DEF Inv, QueueInv, CallOf
    <3>5. DOMAIN calls = 1 .. Len(calls) /\ DOMAIN calls' = 1 .. Len(calls')
      BY <1>1, <3>3 DEF Inv, TypeInv
    <3> QED
      BY <3>3, <3>4, <3>5 DEF Acked, None
  <2>4. ASSUME NEW w \in Writers, Proceed(w), ~RoomError(w) PROVE calls' = calls
    <3>1. ~RoomElse(w)
      BY <1>1 DEF RoomElse
    <3>2. ~RoomFound(w) /\ ~RoomSwitchFails(w) /\ ~Relock(w)
      BY <1>1, <3>1 DEF RoomFound, RoomSwitchFails, Switching, Relock
    <3> QED
      BY <2>4, <3>2 DEF Proceed, MakeRoomForWrite, Wake, RoomDelay, RoomWait, RoomSwitch, RoomAgain,
         AddRecord, Sync, InsertInto, CompactMemWait, queueVars
  <2>5. ASSUME Background PROVE calls' = calls
    BY <2>5 DEF Background, BackgroundSkips, BackgroundStarts, MergeFlushes, FlushFails, FlushBuilt,
       FlushApplied, MergeWritten, MergeFails, MergeApplied, BgUnchanged, queueVars
  <2>6. ASSUME NEW m \in Manuals, CompactRange(m) \/ ManualLoop(m) PROVE calls' = calls
    BY <2>6 DEF CompactRange, ManualLoop, queueVars
  <2>7. ASSUME Close \/ CloseWait \/ UNCHANGED vars PROVE calls' = calls
    BY <2>7 DEF Close, CloseWait, vars, queueVars
  <2> QED
    BY <1>1, <2>1, <2>2, <2>3, <2>4, <2>5, <2>6, <2>7 DEF Next
<1>2. Inv /\ [Next]_vars => [Stops]_vars
  BY <1>1
<1> QED
  BY <1>2, InvHolds, PTL DEF Spec, ErrorStopsWrites
=============================================================================
