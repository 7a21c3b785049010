------------------------------- MODULE DBImpl -------------------------------
(***************************************************************************)
(* The threads of DBImpl (db/db_impl.cc): callers of Write that queue up   *)
(* and let the first of them log a whole group, the background thread that *)
(* flushes memtables and merges files, callers of TEST_CompactRange, and   *)
(* the destructor.  They share mutex_, one condition variable per writer   *)
(* and bg_cv_.                                                             *)
(*                                                                         *)
(* A section under mutex_ is one step, except in MakeRoomForWrite, whose   *)
(* loop takes one step per iteration and keeps the mutex.  A thread that   *)
(* waits takes no step before it is signalled.  A batch is its number and  *)
(* takes one sequence number; sizes count units of 128 KB.  What the       *)
(* tables hold, and what a merge does to it, is module LSM.                *)
(***************************************************************************)
EXTENDS Integers, Sequences, FiniteSets

CONSTANTS
    Writers,            \* threads that call Write
    Manuals,            \* threads that call TEST_CompactRange once
    Kinds,              \* [Writers -> the calls a thread makes]: no batch?, sync?, size
    MemCapacity,        \* options_.write_buffer_size, in batches
    CompactionTrigger,  \* config::kL0_CompactionTrigger
    SlowdownTrigger,    \* config::kL0_SlowdownWritesTrigger
    StopTrigger,        \* config::kL0_StopWritesTrigger
    Faults,             \* the operations that may fail
    MaxCalls,           \* bound: number of calls of Write
    MaxPasses           \* bound: merges that a manual compaction needs

ASSUME KindAssumption ==
    \A w \in Writers : Kinds[w] \subseteq [null : BOOLEAN, sync : BOOLEAN, size : Nat]
ASSUME ThreadAssumption ==
    /\ Writers \cap Manuals = {}
    /\ "closer" \notin Writers \cup Manuals
ASSUME FaultAssumption == Faults \subseteq {"log", "sync", "newfile", "flush", "merge"}
ASSUME TriggerAssumption ==
    /\ CompactionTrigger \in Nat /\ SlowdownTrigger \in Nat /\ StopTrigger \in Nat
    /\ 0 < CompactionTrigger /\ CompactionTrigger <= SlowdownTrigger
    /\ SlowdownTrigger <= StopTrigger

None   == "none"
Closer == "closer"                    \* the thread that deletes the DB
Threads == Writers \cup Manuals \cup {Closer}

VARIABLES
    mutex,           \* who keeps mutex_ between two steps, or None
    pc,              \* [Threads -> where the thread is]
    writers,         \* writers_, the queue
    op,              \* [Writers -> number of the thread's call]
    calls,           \* calls of Write: batch or NULL, sync, size, status
    cv,              \* writers that wait for their own condition variable
    bg_cv,           \* threads that wait for bg_cv_
    allow_delay, force,   \* locals of the running MakeRoomForWrite
    group, st,       \* locals of the leader: size of its group, status
    mem, imm, has_imm,    \* sets of logged batches; has_imm: imm_ # NULL
    logs,            \* log files: records (sets of batches), length of the synced prefix, existence
    log_number,      \* versions_->LogNumber(): earlier logs are obsolete
    tables,          \* batches in table files of the current version
    l0,              \* number of level-0 files
    last_sequence,
    bg_error, shutting_down, bg_scheduled,
    bg,              \* the background thread: step, manual request, nested flush
    manual,          \* manual_compaction_
    left,            \* [Manuals -> files left in the range; -1 when m->done]
    crashed          \* the process dereferenced NULL

queueVars == <<writers, op, calls, cv, group, st>>
roomVars  == <<allow_delay, force>>
diskVars  == <<logs, log_number, tables, l0>>
memVars   == <<mem, imm, has_imm, last_sequence>>
bgVars    == <<bg_scheduled, bg, manual, left, crashed>>
vars == <<mutex, pc, queueVars, bg_cv, roomVars, memVars, diskVars, bg_error,
          shutting_down, bgVars>>

Call == [null : BOOLEAN, sync : BOOLEAN, size : Nat, status : {None, "ok", "error"}]
CallOf(w) == calls[op[w]]
Current == Len(logs)                  \* logfile_number_
IdleBg  == [at |-> "idle", for |-> None, nested |-> FALSE]
NewLog  == [records |-> <<>>, synced |-> 0, exists |-> TRUE]

Init ==
    /\ mutex = None
    /\ pc = [t \in Threads |-> "idle"]
    /\ writers = <<>> /\ op = [w \in Writers |-> 0] /\ calls = <<>> /\ cv = {}
    /\ group = 0 /\ st = "ok"
    /\ bg_cv = {}
    /\ allow_delay = FALSE /\ force = FALSE
    /\ mem = {} /\ imm = {} /\ has_imm = FALSE /\ last_sequence = 0
    /\ logs = <<NewLog>> /\ log_number = 1 /\ tables = {} /\ l0 = 0
    /\ bg_error = FALSE /\ shutting_down = FALSE
    /\ bg_scheduled = FALSE /\ bg = IdleBg
    /\ manual = None /\ left = [m \in Manuals |-> 0]
    /\ crashed = FALSE

-----------------------------------------------------------------------------
(* The writer queue.                                                       *)

\* mutex_ can be taken, and the process is alive.
Free == mutex = None /\ ~crashed

Goto(t, where) == pc' = [pc EXCEPT ![t] = where]

\* The thread has reached the front of the queue and keeps the mutex for
\* MakeRoomForWrite.
Lead(w, null) ==
    /\ mutex' = w
    /\ Goto(w, "room")
    /\ force' = null /\ allow_delay' = ~null

\* A writer that is pushed now is the front of the queue.
AtFront == writers = <<>>

\* DBImpl::Write, up to the first wait or the front of the queue.
Write(w) ==
    /\ Free /\ pc[w] = "idle" /\ ~shutting_down
    /\ Len(calls) < MaxCalls
    /\ \E kind \in Kinds[w] :
          /\ calls' = Append(calls, [null |-> kind.null, sync |-> kind.sync,
                                     size |-> kind.size, status |-> None])
          /\ op' = [op EXCEPT ![w] = Len(calls) + 1]
          /\ writers' = Append(writers, w)
          /\ IF AtFront
             THEN Lead(w, kind.null) /\ UNCHANGED cv
             ELSE Goto(w, "queued") /\ cv' = cv \cup {w} /\ UNCHANGED <<mutex, roomVars>>
    /\ UNCHANGED <<group, st, bg_cv, memVars, diskVars, bg_error, shutting_down, bgVars>>

\* A call of Write has returned: TEST_CompactMemTable then waits for imm_.
Returned(null, status) == IF null /\ status = "ok" THEN "compactmem" ELSE "idle"

\* w.cv.Wait() returns.
Wake(w) ==
    /\ Free /\ pc[w] = "queued" /\ w \notin cv
    /\ IF CallOf(w).status # None
       THEN /\ Goto(w, Returned(CallOf(w).null, CallOf(w).status))
            /\ UNCHANGED <<mutex, cv, roomVars>>
       ELSE IF Head(writers) = w
       THEN Lead(w, CallOf(w).null) /\ UNCHANGED cv
       ELSE cv' = cv \cup {w} /\ UNCHANGED <<mutex, pc, roomVars>>
    /\ UNCHANGED <<writers, op, calls, group, st, bg_cv, memVars, diskVars, bg_error,
                   shutting_down, bgVars>>

\* Mutant: only the members of the group are woken, not the next leader.
DequeueWithoutNext(w, n, status) ==
    LET popped == {writers[i] : i \in 1 .. n}
    IN  /\ writers' = SubSeq(writers, n + 1, Len(writers))
        /\ calls' = [c \in DOMAIN calls |->
              IF \E v \in popped : op[v] = c THEN [calls[c] EXCEPT !.status = status] ELSE calls[c]]
        /\ cv' = cv \ popped
        /\ Goto(w, Returned(CallOf(w).null, status))
\* The leader w answers the first n writers and wakes the next leader.
Dequeue(w, n, status) ==
    LET popped == {writers[i] : i \in 1 .. n}
        next   == IF n < Len(writers) THEN {writers[n + 1]} ELSE {}
    IN  /\ writers' = SubSeq(writers, n + 1, Len(writers))
        /\ calls' = [c \in DOMAIN calls |->
              IF \E v \in popped : op[v] = c THEN [calls[c] EXCEPT !.status = status] ELSE calls[c]]
        /\ cv' = cv \ (popped \cup next)
        /\ Goto(w, Returned(CallOf(w).null, status))

\* ByteSize of the batches of the first n writers.
GroupSize(n) ==
    LET size[i \in 0 .. n] == IF i = 0 THEN 0
          ELSE size[i - 1] + (IF CallOf(writers[i]).null THEN 0 ELSE CallOf(writers[i]).size)
    IN  size[n]

\* Mutant: a sync write joins the group of a leader that does not sync.
BuildBatchGroupAnySync ==
    LET max_size == IF GroupSize(1) <= 1 THEN GroupSize(1) + 1 ELSE 8
        stops(i) == ~CallOf(writers[i]).null /\ GroupSize(i) > max_size
    IN  {n \in 1 .. Len(writers) :
            (\A i \in 2 .. n : ~stops(i)) /\ (n < Len(writers) => stops(n + 1))}
\* BuildBatchGroup: how many writers the leader's group has (the only element
\* of this set).  It ends before a sync write that the leader would not sync, and
\* before the batch that makes it too big: 128 KB more than a small first batch,
\* else 1 MB.
BuildBatchGroup ==
    LET max_size == IF GroupSize(1) <= 1 THEN GroupSize(1) + 1 ELSE 8
        stops(i) == \/ CallOf(writers[i]).sync /\ ~CallOf(writers[1]).sync
                    \/ ~CallOf(writers[i]).null /\ GroupSize(i) > max_size
    IN  {n \in 1 .. Len(writers) :
            (\A i \in 2 .. n : ~stops(i)) /\ (n < Len(writers) => stops(n + 1))}

\* The places in the queue of the group's batches.
Members == {i \in 1 .. group : ~CallOf(writers[i]).null}

\* What the group writes: its batches, numbered in the order of the queue.
GroupRecords ==
    {[batch |-> op[writers[i]],
      seq   |-> last_sequence + Cardinality({j \in Members : j <= i})] : i \in Members}

-----------------------------------------------------------------------------
(* Scheduling of the background thread.                                    *)

NeedsWork == has_imm \/ manual # None \/ l0 >= CompactionTrigger

\* PosixEnv::Schedule queues BGWork for the background thread, of which there is
\* one: an item waits while bg_scheduled holds and the thread is idle.
\* PosixEnv::BGThread takes the item once the mutex of the database is free.
Schedule == bg_scheduled' = TRUE
BGThread == Free /\ bg_scheduled /\ bg.at = "idle"

\* MaybeScheduleCompaction, evaluated in the state that the step leads to.
MaybeScheduleCompaction ==
    IF ~bg_scheduled /\ ~shutting_down /\ ~bg_error' /\ NeedsWork'
    THEN Schedule ELSE UNCHANGED bg_scheduled

-----------------------------------------------------------------------------
(* MakeRoomForWrite, one action per branch of its loop.                    *)

InRoom(w) == mutex = w /\ pc[w] = "room"

RoomVarsUnchanged == UNCHANGED <<op, memVars, diskVars, bg_error, shutting_down, bgVars>>

RoomError(w) ==
    /\ InRoom(w) /\ bg_error
    /\ Dequeue(w, 1, "error") /\ mutex' = None
    /\ UNCHANGED <<group, st, bg_cv, roomVars>> /\ RoomVarsUnchanged

RoomDelay(w) ==
    /\ InRoom(w) /\ ~bg_error
    /\ allow_delay /\ l0 >= SlowdownTrigger
    /\ allow_delay' = FALSE /\ mutex' = None /\ Goto(w, "delay")
    /\ UNCHANGED <<writers, calls, cv, group, st, bg_cv, force>> /\ RoomVarsUnchanged

\* Mutant: a background error is not looked at.
RoomElseAfterError(w) == InRoom(w) /\ ~(allow_delay /\ l0 >= SlowdownTrigger)
\* The branches behind the first two.
RoomElse(w) == InRoom(w) /\ ~bg_error /\ ~(allow_delay /\ l0 >= SlowdownTrigger)
HasRoom == ~force /\ Cardinality(mem) <= MemCapacity

\* There is room: a NULL batch is done, any other leads a group to the log.
RoomFound(w) ==
    /\ RoomElse(w) /\ HasRoom
    /\ mutex' = None
    /\ IF CallOf(w).null
       THEN Dequeue(w, 1, "ok") /\ UNCHANGED <<group, st>>
       ELSE /\ group' \in BuildBatchGroup /\ st' = "ok" /\ Goto(w, "log")
            /\ UNCHANGED <<writers, calls, cv>>
    /\ UNCHANGED <<bg_cv, roomVars>> /\ RoomVarsUnchanged

RoomWait(w) ==
    /\ RoomElse(w) /\ ~HasRoom
    /\ has_imm \/ l0 >= StopTrigger
    /\ mutex' = None /\ Goto(w, "roomwait") /\ bg_cv' = bg_cv \cup {w}
    /\ UNCHANGED <<writers, calls, cv, group, st, roomVars>> /\ RoomVarsUnchanged

\* Mutant: the memtable is switched although imm_ is still being flushed.
SwitchingOverImm(w) == RoomElse(w) /\ ~HasRoom /\ l0 < StopTrigger
Switching(w) == RoomElse(w) /\ ~HasRoom /\ ~has_imm /\ l0 < StopTrigger

\* A new log and a new memtable.
RoomSwitch(w) ==
    /\ Switching(w)
    /\ logs' = Append(logs, NewLog)
    /\ imm' = mem /\ has_imm' = TRUE /\ mem' = {}
    /\ force' = FALSE
    /\ UNCHANGED <<manual, l0, bg_error>>
    /\ MaybeScheduleCompaction
    /\ UNCHANGED <<mutex, pc, queueVars, bg_cv, allow_delay, last_sequence, log_number,
                   tables, shutting_down, bg, left, crashed>>

RoomSwitchFails(w) ==
    /\ Switching(w) /\ "newfile" \in Faults
    /\ Dequeue(w, 1, "error") /\ mutex' = None
    /\ UNCHANGED <<group, st, bg_cv, roomVars>> /\ RoomVarsUnchanged

\* SleepForMicroseconds or bg_cv_.Wait returns: back to the loop.
RoomAgain(w) ==
    /\ Free /\ w \notin bg_cv
    /\ pc[w] \in {"delay", "roomwait"}
    /\ mutex' = w /\ Goto(w, "room")
    /\ UNCHANGED <<queueVars, bg_cv, roomVars, memVars, diskVars, bg_error, shutting_down, bgVars>>

MakeRoomForWrite(w) ==
    RoomError(w) \/ RoomDelay(w) \/ RoomFound(w) \/ RoomWait(w) \/ RoomSwitch(w)
        \/ RoomSwitchFails(w) \/ RoomAgain(w)

-----------------------------------------------------------------------------
(* The leader logs and applies its group without the mutex.                *)

\* log_->AddRecord, one record for the whole group: a failed write may have reached the file all the same.
AddRecord(w) ==
    /\ ~crashed /\ pc[w] = "log"
    /\ \E ok \in {TRUE} \cup (IF "log" \in Faults THEN {FALSE} ELSE {}) :
          /\ st' = IF ok THEN "ok" ELSE "error"
          /\ Goto(w, IF ~ok THEN "relock" ELSE IF CallOf(w).sync THEN "sync" ELSE "insert")
          /\ \/ logs' = [logs EXCEPT ![Current].records = Append(@, GroupRecords)]
             \/ ~ok /\ UNCHANGED logs
    /\ UNCHANGED <<mutex, writers, op, calls, cv, group, bg_cv, roomVars, memVars, log_number,
                   tables, l0, bg_error, shutting_down, bgVars>>

Sync(w) ==
    /\ ~crashed /\ pc[w] = "sync"
    /\ \/ /\ logs' = [logs EXCEPT ![Current].synced = Len(logs[Current].records)]
          /\ Goto(w, "insert") /\ UNCHANGED st
       \/ /\ "sync" \in Faults
          /\ st' = "sync_error" /\ Goto(w, "relock") /\ UNCHANGED logs
    /\ UNCHANGED <<mutex, writers, op, calls, cv, group, bg_cv, roomVars, memVars, log_number,
                   tables, l0, bg_error, shutting_down, bgVars>>

InsertInto(w) ==
    /\ ~crashed /\ pc[w] = "insert"
    /\ mem' = mem \cup GroupRecords
    /\ Goto(w, "relock")
    /\ UNCHANGED <<mutex, queueVars, bg_cv, roomVars, imm, has_imm, last_sequence, diskVars,
                   bg_error, shutting_down, bgVars>>

\* versions_->SetLastSequence.
Publish == last_sequence' = last_sequence + Cardinality(Members)

\* The leader takes the mutex back, records an error of Sync and answers.
Relock(w) ==
    /\ Free /\ pc[w] = "relock"
    /\ bg_error' = (bg_error \/ st = "sync_error")
    /\ bg_cv' = IF st = "sync_error" /\ ~bg_error THEN {} ELSE bg_cv
    /\ Publish
    /\ Dequeue(w, group, IF st = "ok" THEN "ok" ELSE "error")
    /\ UNCHANGED <<mutex, op, group, st, roomVars, mem, imm, has_imm, diskVars, shutting_down, bgVars>>

\* TEST_CompactMemTable behind its Write: wait until imm_ is flushed.
CompactMemWait(w) ==
    /\ Free /\ pc[w] = "compactmem" /\ w \notin bg_cv
    /\ IF has_imm /\ ~bg_error
       THEN bg_cv' = bg_cv \cup {w} /\ UNCHANGED pc
       ELSE Goto(w, "idle") /\ UNCHANGED bg_cv
    /\ UNCHANGED <<mutex, queueVars, roomVars, memVars, diskVars, bg_error, shutting_down, bgVars>>

-----------------------------------------------------------------------------
(* The background thread.                                                  *)

SignalAll == bg_cv' = {}
BgUnchanged == UNCHANGED <<mutex, pc, queueVars, roomVars, mem, last_sequence, shutting_down>>

\* The end of BackgroundCall, in the state that the step leads to.
BackgroundReturns ==
    /\ bg' = IdleBg
    /\ bg_scheduled' = (~shutting_down /\ ~bg_error' /\ NeedsWork')
    /\ SignalAll

\* BackgroundCall takes the mutex; there is nothing to do.
BackgroundSkips ==
    /\ BGThread
    /\ \/ shutting_down \/ bg_error
       \/ ~NeedsWork
       \/ ~has_imm /\ manual # None /\ left[manual] = 0
    /\ IF ~shutting_down /\ ~bg_error /\ manual # None /\ ~has_imm
       THEN left' = [left EXCEPT ![manual] = -1] /\ manual' = None
       ELSE UNCHANGED <<left, manual>>
    /\ UNCHANGED <<imm, has_imm, diskVars, bg_error, crashed>>
    /\ BackgroundReturns /\ BgUnchanged

\* BackgroundCall chooses its work and lets go of the mutex: WriteLevel0Table,
\* DoCompactionWork, or the LogAndApply of a trivial move.
BackgroundStarts ==
    /\ BGThread
    /\ ~shutting_down /\ ~bg_error
    /\ IF has_imm THEN bg' = [IdleBg EXCEPT !.at = "build"]
       ELSE \/ manual # None /\ left[manual] > 0 /\ bg' = [IdleBg EXCEPT !.at = "merge", !.for = manual]
            \/ /\ manual = None /\ l0 >= CompactionTrigger
               /\ \E at \in {"merge", "applymerge"} : bg' = [IdleBg EXCEPT !.at = at]
    /\ UNCHANGED <<bg_cv, imm, has_imm, diskVars, bg_error, bg_scheduled, manual, left, crashed>>
    /\ BgUnchanged

\* DoCompactionWork interrupts its merge for an immutable memtable.
MergeFlushes ==
    /\ Free /\ bg.at = "merge" /\ has_imm /\ ~shutting_down
    /\ bg' = [bg EXCEPT !.at = "build", !.nested = TRUE]
    /\ UNCHANGED <<bg_cv, imm, has_imm, diskVars, bg_error, bg_scheduled, manual, left, crashed>>
    /\ BgUnchanged

\* Where the background thread goes when CompactMemTable returns.
FlushReturns ==
    IF bg.nested
    THEN bg' = [bg EXCEPT !.at = "merge", !.nested = FALSE] /\ SignalAll /\ UNCHANGED bg_scheduled
    ELSE BackgroundReturns

\* WriteLevel0Table or LogAndApply fails, or the DB is being deleted.
FlushFails ==
    /\ Free /\ bg.at \in {"build", "applyflush"}
    /\ "flush" \in Faults \/ (bg.at = "build" /\ shutting_down)
    /\ bg_error' = TRUE
    /\ UNCHANGED <<imm, has_imm, diskVars, manual, left, crashed>>
    /\ FlushReturns /\ BgUnchanged

\* CompactMemTable has its table; LogAndApply lets go of the mutex.
FlushBuilt ==
    /\ Free /\ bg.at = "build" /\ ~shutting_down
    /\ bg' = [bg EXCEPT !.at = "applyflush"]
    /\ UNCHANGED <<bg_cv, imm, has_imm, diskVars, bg_error, bg_scheduled, manual, left, crashed>>
    /\ BgUnchanged

\* Mutant: the log that the version needs is deleted with the earlier ones.
DeleteObsoleteFilesEarly(number) ==
    [i \in DOMAIN logs |-> [logs[i] EXCEPT !.exists = @ /\ i > number]]
\* DeleteObsoleteFiles: which logs it leaves, unless there was an error.
DeleteObsoleteFiles(number) ==
    IF bg_error THEN logs
    ELSE [i \in DOMAIN logs |-> [logs[i] EXCEPT !.exists = @ /\ i >= number]]

\* The new version is installed: imm_ is a table, its log is obsolete.
FlushApplied ==
    /\ Free /\ bg.at = "applyflush"
    /\ tables' = tables \cup imm
    /\ l0' \in IF imm = {} THEN {l0} ELSE {l0, l0 + 1}
    /\ log_number' = Current
    /\ imm' = {} /\ has_imm' = FALSE
    /\ logs' = DeleteObsoleteFiles(Current)
    /\ UNCHANGED <<bg_error, manual, left, crashed>>
    /\ FlushReturns /\ BgUnchanged

\* The merge is written; InstallCompactionResults lets go of the mutex.
MergeWritten ==
    /\ Free /\ bg.at = "merge" /\ ~shutting_down
    /\ bg' = [bg EXCEPT !.at = "applymerge"]
    /\ UNCHANGED <<bg_cv, imm, has_imm, diskVars, bg_error, bg_scheduled, manual, left, crashed>>
    /\ BgUnchanged

\* The end of BackgroundCompaction reads manual_compaction_ again: the request
\* may be gone.
ManualEnds(ok) ==
    IF bg.for = None THEN UNCHANGED <<manual, left, crashed>>
    ELSE IF manual = None THEN crashed' = TRUE /\ UNCHANGED <<manual, left>>
    ELSE /\ left' = [left EXCEPT ![manual] = IF ok THEN @ - 1 ELSE -1]
         /\ manual' = None
         /\ UNCHANGED crashed

MergeFails ==
    /\ Free /\ bg.at \in {"merge", "applymerge"}
    /\ "merge" \in Faults \/ (bg.at = "merge" /\ shutting_down)
    /\ bg_error' = TRUE
    /\ ManualEnds(FALSE)
    /\ UNCHANGED <<imm, has_imm, diskVars>>
    /\ BackgroundReturns /\ BgUnchanged

\* A merge that was picked takes files off level 0, a manual one may.
Level0AfterMerge == IF bg.for = None THEN 0 .. l0 - 1 ELSE 0 .. l0

MergeApplied ==
    /\ Free /\ bg.at = "applymerge"
    /\ l0' \in Level0AfterMerge
    /\ logs' = DeleteObsoleteFiles(log_number)
    /\ ManualEnds(TRUE)
    /\ UNCHANGED <<imm, has_imm, tables, log_number, bg_error>>
    /\ BackgroundReturns /\ BgUnchanged

Background ==
    \/ BackgroundSkips \/ BackgroundStarts
    \/ MergeFlushes \/ FlushFails \/ FlushBuilt \/ FlushApplied
    \/ MergeWritten \/ MergeFails \/ MergeApplied

-----------------------------------------------------------------------------
(* Manual compactions and the destructor.                                  *)

CompactRange(m) ==
    /\ Free /\ pc[m] = "idle" /\ ~shutting_down
    /\ Goto(m, "manual")
    /\ \E n \in 0 .. MaxPasses : left' = [left EXCEPT ![m] = n]
    /\ UNCHANGED <<mutex, queueVars, bg_cv, roomVars, memVars, diskVars, bg_error, shutting_down,
                   bg_scheduled, bg, manual, crashed>>

\* The loop of TEST_CompactRange until its next wait, or its end.
ManualLoop(m) ==
    /\ Free /\ pc[m] = "manual" /\ m \notin bg_cv
    /\ UNCHANGED <<has_imm, l0, bg_error>>
    /\ IF left[m] # -1 /\ ~shutting_down /\ ~bg_error
       THEN /\ IF manual = None THEN manual' = m /\ MaybeScheduleCompaction
                                ELSE UNCHANGED <<manual, bg_scheduled>>
            /\ bg_cv' = bg_cv \cup {m}
            /\ UNCHANGED pc
       ELSE /\ manual' = IF manual = m THEN None ELSE manual
            /\ Goto(m, "returned")
            /\ UNCHANGED <<bg_cv, bg_scheduled>>
    /\ UNCHANGED <<mutex, queueVars, roomVars, mem, imm, last_sequence, logs, log_number, tables,
                   shutting_down, bg, left, crashed>>

\* ~DBImpl, called when no other call is running.
Close ==
    /\ Free /\ pc[Closer] = "idle"
    /\ \A t \in Threads \ {Closer} : pc[t] \in {"idle", "returned"}
    /\ shutting_down' = TRUE
    /\ Goto(Closer, "close")
    /\ UNCHANGED <<mutex, queueVars, bg_cv, roomVars, memVars, diskVars, bg_error, bgVars>>

CloseWait ==
    /\ Free /\ pc[Closer] = "close" /\ Closer \notin bg_cv
    /\ IF bg_scheduled THEN bg_cv' = bg_cv \cup {Closer} /\ UNCHANGED pc
                       ELSE Goto(Closer, "closed") /\ UNCHANGED bg_cv
    /\ UNCHANGED <<mutex, queueVars, roomVars, memVars, diskVars, bg_error, shutting_down, bgVars>>

-----------------------------------------------------------------------------
\* The steps of a call of Write that has begun.
Proceed(w) ==
    \/ Wake(w) \/ MakeRoomForWrite(w)
    \/ AddRecord(w) \/ Sync(w) \/ InsertInto(w) \/ Relock(w)
    \/ CompactMemWait(w)

Next ==
    \/ \E w \in Writers : Write(w) \/ Proceed(w)
    \/ Background
    \/ \E m \in Manuals : CompactRange(m) \/ ManualLoop(m)
    \/ Close \/ CloseWait

Spec == Init /\ [][Next]_vars

\* Something that a running call or the background thread can do is done, and
\* a merge, which has finitely many entries, does not interrupt itself for ever.
Progress ==
    \/ \E w \in Writers : Proceed(w)
    \/ Background
    \/ \E m \in Manuals : ManualLoop(m)
    \/ CloseWait
Fairness == WF_vars(Progress) /\ SF_vars(MergeWritten \/ MergeFails)
FairSpec == Spec /\ Fairness

-----------------------------------------------------------------------------

Resting == {"idle", "returned", "closed"}

\* What a log holds, and what of it survives a crash.
Logged(r, i) == \E j \in 1 .. Len(logs[i].records) : r \in logs[i].records[j]
Synced(r, i) == \E j \in 1 .. logs[i].synced : r \in logs[i].records[j]

\* What recovery finds: the records of the logs that are not obsolete.
Replayed(r) == \E i \in log_number .. Current : logs[i].exists /\ Logged(r, i)

\* A batch enters a memtable only after its log, and stays in a log that
\* recovery reads until the memtable is a table (MakeRoomForWrite switches log
\* and memtable, CompactMemTable drops the "Earlier logs no longer needed").
WriteAhead ==
    /\ \A r \in mem \cup imm : Replayed(r)
    /\ \A r \in mem : Logged(r, Current)

\* A write with options.sync that was answered with ok survives a crash at any
\* moment: it is in a table or in the synced part of a log that recovery reads.
SyncedSurvive ==
    \A c \in DOMAIN calls : calls[c].status = "ok" /\ calls[c].sync /\ ~calls[c].null =>
        \/ \E r \in tables : r.batch = c
        \/ \E i \in log_number .. Current : \E j \in 1 .. logs[i].synced :
              logs[i].exists /\ \E r \in logs[i].records[j] : r.batch = c

\* A write that was answered with ok is visible to every later reader, once: in
\* the memtable, the immutable one or a table, at a published sequence number.
AckedVisible ==
    \A c \in DOMAIN calls : calls[c].status = "ok" /\ ~calls[c].null =>
        /\ Cardinality({r \in mem \cup imm \cup tables : r.batch = c}) = 1
        /\ \A r \in mem \cup imm \cup tables : r.batch = c => r.seq <= last_sequence

Acked == {c \in DOMAIN calls : calls[c].status = "ok"}

\* "So we force the DB into a mode where all future writes fail" (Write): once
\* there is a background error, only a leader that had already passed
\* MakeRoomForWrite may still answer with ok.
ErrorStopsWrites ==
    [][bg_error /\ (\A w \in Writers : pc[w] \notin {"log", "sync", "insert", "relock"})
          => Acked' = Acked]_vars

\* Every call of Write, TEST_CompactMemTable and TEST_CompactRange returns, and
\* so does the destructor (there are finitely many calls, so a moment comes when
\* none is running): nobody waits for a signal that was lost or that nobody will
\* send, whichever operations fail.
Quiet == \A t \in Threads : pc[t] \in Resting
CallsReturn == ~Quiet ~> (Quiet \/ crashed)
=============================================================================
