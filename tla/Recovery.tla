------------------------------ MODULE Recovery ------------------------------
(***************************************************************************)
(* Opening a database, what a running one leaves on disk, and repairing    *)
(* it: DB::Open and DBImpl::Recover (db/db_impl.cc), VersionSet::Recover   *)
(* and LogAndApply (db/version_set.cc), RepairDB (db/repair.cc), over the  *)
(* files of module Files.  The machine may crash between any two steps, in *)
(* Open and in RepairDB as well.                                           *)
(*                                                                         *)
(* A log record is a batch, whose updates have a key that tells the write  *)
(* (its number), the update of it and, as a history field, the number of   *)
(* the first write since its log was opened (era).  A MANIFEST record is   *)
(* an encoded VersionEdit; its files are table numbers (levels and ranges  *)
(* are those of module LSM).  Options: create_if_missing, not              *)
(* error_if_exists, not paranoid_checks.                                   *)
(***************************************************************************)
EXTENDS Files, Records

CONSTANTS
    ReuseLogs,     \* values of options_.reuse_logs when an existing database is opened
    ReuseNew,      \* and when one is created
    MemCapacity,   \* options_.write_buffer_size, in entries
    Batches,       \* bound: the batches that are written, each the types of its updates
    MaxMerges,     \* bound: compactions of tables
    MaxFaults,     \* bound: crashes, failures of a MANIFEST write and repairs (run again or not)
    MaxOpens       \* bound: calls of Open, the last one after the last fault

ASSUME ReuseAssumption == ReuseLogs \subseteq BOOLEAN /\ ReuseNew \subseteq BOOLEAN
ASSUME CapacityAssumption == MemCapacity \in Nat
ASSUME BatchesAssumption == \A i \in DOMAIN Batches : Batches[i] \in Seq({"put", "delete"})


VARIABLES
    disk,        \* the files
    pc,          \* of Open and RepairDB: "down" nothing runs, "up" the database is open
    versions,    \* VersionSet: live tables, log, next, manifest, last; desc: is descriptor_log_ open?
    db,          \* DBImpl: mem, imm, has_imm, logfile, bg_error; era: see above
    open,        \* locals of Open: reuse, logs to read, position, compactions, save, the edit's tables
    apply,       \* the running LogAndApply: step, caller, edit, does it make a MANIFEST?
    bg,          \* background thread: step, table it writes, merge inputs and output
    repair,      \* RepairDB: logs, tables, manifests, next; repair.running until it returns ok
    written,     \* history: the era of every write
    acked,       \* history: numbers of the sync writes that returned ok
    repaired,    \* history: RepairDB has been called
    unsafe,      \* history: a torn log, or a torn or unsynced MANIFEST, was reused
    count        \* for the bounds: merges, faults, and opens so far

history == <<written, acked, repaired>>
vars == <<disk, pc, versions, db, open, apply, bg, repair, history, unsafe, count>>

NoVersions == [live |-> {}, log |-> 0, next |-> 2, manifest |-> 0, last |-> 0, desc |-> FALSE]
NoDB       == [mem |-> {}, imm |-> {}, has_imm |-> FALSE, logfile |-> None, bg_error |-> FALSE, era |-> 0]
NoOpen     == [reuse |-> FALSE, logs |-> <<>>, pos |-> 0, compactions |-> 0,
               save |-> FALSE, add |-> {}, max |-> 0]
NoApply    == [at |-> "none"]
NoMerge    == [inputs |-> {}, output |-> None]
IdleBg     == [at |-> "idle", table |-> None, merge |-> NoMerge]
NoRepair   == [running |-> FALSE, logs |-> {}, tables |-> {}, manifests |-> {}, next |-> 1]

Init ==
    /\ disk = EmptyDisk /\ pc = "down"
    /\ versions = NoVersions /\ db = NoDB /\ open = NoOpen
    /\ apply = NoApply /\ bg = IdleBg /\ repair = NoRepair
    /\ written = <<>> /\ acked = {} /\ repaired = FALSE /\ unsafe = FALSE
    /\ count = [opens |-> 0, merges |-> 0, faults |-> 0]

Fault == count.faults < MaxFaults /\ count' = [count EXCEPT !.faults = @ + 1]

Comparator == 0
\* What LogAndApply fills in: the numbers, and prev_log_number, which is 0.
Edit(add, del, log, next, last) ==
    [NoEdit EXCEPT !.add = add, !.del = del, !.log = log, !.prev_log = 0,
                   !.next = next, !.last = last]
\* NewDB, and WriteDescriptor of RepairDB with the tables it found.
FirstEdit(add, next, last) ==
    [NoEdit EXCEPT !.comparator = Comparator, !.log = 0, !.next = next, !.last = last, !.add = add]
\* WriteSnapshot: the files of the current version.
Snapshot(live) == [NoEdit EXCEPT !.comparator = Comparator, !.add = live]

Entries(numbers) == UNION {Range(ReadAll(FileAt(disk, TableFileName(n)))) : n \in numbers}
LastOf(entries)  == Max({0} \cup {e.seq : e \in entries})

-----------------------------------------------------------------------------
(* DB::Open.                                                               *)

\* LockFile, then is there a CURRENT?  If not NewDB writes MANIFEST-000001 and
\* closes it without a sync.
OpenStart ==
    /\ pc = "down" /\ ~repair.running
    /\ count.opens < MaxOpens - 1 \/ (count.opens < MaxOpens /\ count.faults = MaxFaults)
    /\ count' = [count EXCEPT !.opens = @ + 1]
    /\ \E reuse \in IF FileExists(disk, CurrentFileName) THEN ReuseLogs ELSE ReuseNew :
          open' = [NoOpen EXCEPT !.reuse = reuse]
    /\ versions' = NoVersions /\ db' = NoDB
    /\ IF FileExists(disk, CurrentFileName)
       THEN pc' = "recover" /\ UNCHANGED disk
       ELSE /\ disk' = NewWritableFile(disk, DescriptorFileName(1), <<EncodeTo(FirstEdit({}, 2, 0))>>)
            /\ pc' = "newdb"
    /\ UNCHANGED <<apply, bg, repair, history, unsafe>>

\* NewDB: SetCurrentFile.
NewDBTemp ==
    /\ pc = "newdb" /\ pc' = "newdb_rename"
    /\ disk' = SetCurrentTemp(disk, 1)
    /\ UNCHANGED <<versions, db, open, apply, bg, repair, history, count, unsafe>>

NewDBRename ==
    /\ pc = "newdb_rename" /\ pc' = "recover"
    /\ disk' = SetCurrentRename(disk, 1)
    /\ UNCHANGED <<versions, db, open, apply, bg, repair, history, count, unsafe>>

\* The records of a MANIFEST applied in order by VersionSet::Builder; a field
\* that a record does not set keeps its value.
Replay(records) ==
    LET Or(new, old) == IF new = None THEN old ELSE new
        Step(v, r) == LET e == DecodeFrom(r)
                      IN  [v EXCEPT !.add = (@ \ e.del) \cup e.add, !.log = Or(e.log, @),
                                    !.prev_log = Or(e.prev_log, @), !.next = Or(e.next, @),
                                    !.last = Or(e.last, @)]
    IN  FoldLeft(Step, NoEdit, records)

\* Mutant: only the log that the MANIFEST names is read.
LogsNamed(min_log) == SetToSeq({n \in Numbers(disk, "log") : n = min_log})
\* DBImpl::Recover: the logs that are newer than the MANIFEST's, in order.
LogsToRecover(min_log) ==
    SetToSortSeq({n \in Numbers(disk, "log") : n >= min_log}, <)

\* AddLiveFiles: expected files, whatever the type of the file that has the number.
MissingFiles(live) == live \ UNION {Numbers(disk, type) : type \in {"log", "manifest", "table", "temp"}}

DirtyTail(f) == f.synced < Len(f.data) \/ f.tear # -1

\* VersionSet::Recover and the first half of DBImpl::Recover; both only read.
VersionSetRecover ==
    LET current == FileAt(disk, CurrentFileName).data
        manifest == DescriptorFileName(current[1])
        v == Replay(ReadAll(FileAt(disk, manifest)))
    IN  /\ pc = "recover"
        /\ IF \/ ReadAll(FileAt(disk, CurrentFileName)) = <<>>
              \/ ~FileExists(disk, manifest)
           THEN pc' = "failed" /\ UNCHANGED <<versions, open, unsafe>>
           ELSE IF Damaged(FileAt(disk, manifest)) \/ None \in {v.log, v.next, v.last}
           THEN pc' = "failed" /\ UNCHANGED <<versions, open, unsafe>>
           ELSE /\ versions' = [live |-> v.add, log |-> v.log, next |-> v.next + 1, last |-> v.last,
                                manifest |-> IF open.reuse THEN current[1] ELSE v.next,
                                desc |-> open.reuse]
                /\ open' = [open EXCEPT !.save = ~open.reuse, !.logs = LogsToRecover(v.log)]
                /\ unsafe' = (unsafe \/ (open.reuse /\ DirtyTail(FileAt(disk, manifest))))
                /\ pc' = IF MissingFiles(v.add) = {} THEN "logs" ELSE "failed"
        /\ UNCHANGED <<disk, db, apply, bg, repair, history, count>>

\* Mutant: the record for which the memtable is created is not inserted.
LogRecordsAfterFirst ==
    LET all == ReadAll(FileAt(disk, LogFileName(Head(open.logs))))
    IN  SubSeq(all, 2, Len(all))
LogRecords == ReadAll(FileAt(disk, LogFileName(Head(open.logs))))

\* WriteLevel0Table of a recovered memtable: BuildTable syncs the table.
WriteLevel0Table(entries) ==
    LET name == TableFileName(versions.next)
    IN  /\ disk' = WriteStringToFileSync(disk, name, SetToSeq(entries))
        /\ versions' = [versions EXCEPT !.next = @ + 1]

\* The entries of batches, and the last sequence number they account for.
Inserted(batches) == UNION {InsertInto(b) : b \in Range(batches)}
LastSequence(batches) == Max({0} \cup {b.sequence + b.count - 1 : b \in Range(batches)})

\* The batches after which the memtable has outgrown write_buffer_size.
Outgrown == {n \in open.pos + 1 .. Len(LogRecords) :
               Cardinality(Inserted(SubSeq(LogRecords, open.pos + 1, n))) > MemCapacity}

\* RecoverLogFile: the memtable is full and becomes a table.
RecoverFlush ==
    LET end   == Min(Outgrown)
        chunk == SubSeq(LogRecords, open.pos + 1, end)
    IN  /\ pc = "logs" /\ open.logs # <<>>
        /\ Outgrown # {}
        /\ WriteLevel0Table(Inserted(chunk))
        /\ open' = [open EXCEPT !.pos = end, !.compactions = @ + 1, !.save = TRUE,
                                !.add = @ \cup {versions.next},
                                !.max = Max({@, LastSequence(chunk)})]
        /\ UNCHANGED <<pc, db, apply, bg, repair, history, count, unsafe>>

MarkFileNumberUsed(v, number) == [v EXCEPT !.next = Max({@, number + 1})]

\* RecoverLogFile at the end of a log: reuse it, or write what is left to a
\* table; then MarkFileNumberUsed.
RecoverLogEnd ==
    LET number == Head(open.logs)
        tail   == SubSeq(LogRecords, open.pos + 1, Len(LogRecords))
        rest   == Inserted(tail)
        reused == open.reuse /\ Len(open.logs) = 1 /\ open.compactions = 0
        next   == [open EXCEPT !.logs = Tail(@), !.pos = 0, !.compactions = 0,
                               !.max = Max({@, LastSequence(tail)})]
    IN  /\ pc = "logs" /\ open.logs # <<>>
        /\ Outgrown = {}
        /\ IF reused \/ rest = {}
           THEN /\ db' = IF reused THEN [db EXCEPT !.mem = rest, !.logfile = number,
                                                       !.era = Len(written) + 1] ELSE db
                /\ versions' = MarkFileNumberUsed(versions, number)
                /\ open' = next
                /\ unsafe' = (unsafe \/ (reused /\ FileAt(disk, LogFileName(number)).tear # -1))
                /\ UNCHANGED disk
           ELSE /\ disk' = WriteStringToFileSync(disk, TableFileName(versions.next), SetToSeq(rest))
                /\ versions' = MarkFileNumberUsed([versions EXCEPT !.next = @ + 1], number)
                /\ open' = [next EXCEPT !.save = TRUE, !.add = @ \cup {versions.next}]
                /\ UNCHANGED <<db, unsafe>>
        /\ UNCHANGED <<pc, apply, bg, repair, history, count>>

SetLastSequence(v, max) == [v EXCEPT !.last = Max({@, max})]

\* VersionSet::LogAndApply is called: the edit gets the numbers of now.
CallApply(caller, v, add, del, log) ==
    apply' = [at |-> "record", caller |-> caller, new |-> FALSE,
              edit |-> Edit(add, del, IF log = None THEN v.log ELSE log, v.next, v.last)]

\* The end of DBImpl::Recover and the middle of DB::Open: a new log, unless the
\* last one is reused, and LogAndApply if there is anything to save.
OpenLog ==
    LET v == SetLastSequence(versions, open.max)
        w == [v EXCEPT !.next = @ + 1]
        fresh == db.logfile = None
    IN  /\ pc = "logs" /\ open.logs = <<>>
        /\ versions' = IF fresh THEN w ELSE v
        /\ disk' = IF fresh THEN NewWritableFile(disk, LogFileName(v.next), <<>>) ELSE disk
        /\ db' = IF fresh THEN [db EXCEPT !.logfile = v.next, !.era = Len(written) + 1] ELSE db
        /\ IF open.save
           THEN pc' = "apply" /\ CallApply("open", versions', open.add, {}, db'.logfile)
           ELSE pc' = "clean" /\ UNCHANGED apply
        /\ UNCHANGED <<open, bg, repair, history, count, unsafe>>

-----------------------------------------------------------------------------
(* VersionSet::LogAndApply.                                                *)

Manifest == DescriptorFileName(versions.manifest)

\* WriteSnapshot if the MANIFEST is new, and AddRecord.
ApplyRecord ==
    /\ apply.at = "record"
    /\ IF versions.desc
       THEN disk' = AppendTo(disk, Manifest, <<EncodeTo(apply.edit)>>)
       ELSE disk' = NewWritableFile(disk, Manifest,
                       <<EncodeTo(Snapshot(versions.live)), EncodeTo(apply.edit)>>)
    /\ apply' = [apply EXCEPT !.at = "sync", !.new = ~versions.desc]
    /\ versions' = [versions EXCEPT !.desc = TRUE]
    /\ UNCHANGED <<pc, db, open, bg, repair, history, count, unsafe>>

\* CleanupCompaction: pending_outputs_ forgets the outputs.
CleanupCompaction == bg' = [bg EXCEPT !.at = "clean", !.merge = NoMerge]

\* AppendVersion, and what the caller does with the new version.
Install ==
    /\ versions' = [versions EXCEPT !.live = (@ \ apply.edit.del) \cup apply.edit.add,
                                    !.log = apply.edit.log]
    /\ apply' = NoApply
    /\ CASE apply.caller = "open"  -> pc' = "clean" /\ UNCHANGED <<db, bg>>
         [] apply.caller = "flush" -> /\ db' = [db EXCEPT !.imm = {}, !.has_imm = FALSE]
                                      /\ bg' = [bg EXCEPT !.at = "clean", !.table = None]
                                      /\ UNCHANGED pc
         [] apply.caller = "merge" -> /\ CleanupCompaction
                                      /\ UNCHANGED <<pc, db>>

\* Mutant: the MANIFEST is not synced.
SyncNothing == disk
\* descriptor_file_->Sync().
SyncManifest == Sync(disk, Manifest)

ApplySync ==
    /\ apply.at = "sync"
    /\ disk' = SyncManifest
    /\ IF apply.new
       THEN apply' = [apply EXCEPT !.at = "temp"] /\ UNCHANGED <<versions, pc, db, bg>>
       ELSE Install
    /\ UNCHANGED <<open, repair, history, count, unsafe>>

ApplyTemp ==
    /\ apply.at = "temp" /\ apply' = [apply EXCEPT !.at = "rename"]
    /\ disk' = SetCurrentTemp(disk, versions.manifest)
    /\ UNCHANGED <<pc, versions, db, open, bg, repair, history, count, unsafe>>

ApplyRename ==
    /\ apply.at = "rename"
    /\ disk' = SetCurrentRename(disk, versions.manifest)
    /\ Install
    /\ UNCHANGED <<open, repair, history, count, unsafe>>

\* AddRecord, Sync or SetCurrentFile fails (a record that was added stays in the
\* file).  A new MANIFEST is deleted and Open returns the error; an old one
\* stays open and RecordBackgroundError stops the database.
ApplyFails ==
    /\ apply.at \in {"record", "sync", "temp", "rename"}
    /\ Fault
    /\ disk' = IF apply.at = "record" \/ ~apply.new THEN disk
               ELSE LET d == IF apply.at = "rename"
                             THEN DeleteFile(disk, TempFileName(versions.manifest)) ELSE disk
                    IN  DeleteFile(d, Manifest)
    /\ apply' = NoApply
    /\ CASE apply.caller = "open"  -> /\ pc' = "down" /\ versions' = NoVersions
                                      /\ db' = NoDB /\ open' = NoOpen /\ UNCHANGED bg
         [] apply.caller = "flush" -> /\ db' = [db EXCEPT !.bg_error = TRUE]
                                      /\ bg' = [bg EXCEPT !.at = "idle", !.table = None]
                                      /\ UNCHANGED <<pc, versions, open>>
         [] apply.caller = "merge" -> /\ db' = [db EXCEPT !.bg_error = TRUE]
                                      /\ CleanupCompaction
                                      /\ UNCHANGED <<pc, versions, open>>
    /\ UNCHANGED <<repair, history, unsafe>>

-----------------------------------------------------------------------------
(* DBImpl::DeleteObsoleteFiles.                                            *)

Live == versions.live \cup ({bg.table, bg.merge.output} \ {None})

Keep(name) ==
    \/ db.bg_error
    \/ CASE name.type = "log"      -> name.number >= versions.log
         [] name.type = "manifest" -> name.number >= versions.manifest
         [] name.type \in {"table", "temp"} -> name.number \in Live
         [] OTHER -> TRUE

\* The files go one by one in the order of the directory, so a crash may keep
\* some of them; then Open or the compaction is over.
DeleteObsoleteFiles ==
    /\ pc = "clean" \/ bg.at = "clean"
    /\ disk' = FoldSeq(LAMBDA name, d : DeleteFile(d, name), disk,
                       SetToSeq({name \in GetChildren(disk) : ~Keep(name)}))
    /\ pc' = "up" /\ bg' = [bg EXCEPT !.at = "idle"] /\ open' = NoOpen
    /\ UNCHANGED <<versions, db, apply, repair, history, count, unsafe>>

-----------------------------------------------------------------------------
(* The open database.                                                      *)

\* After the last Open it is only looked at.
Busy == pc = "up" /\ count.opens < MaxOpens

\* Mutant: Append forgets to add up the counts.
JoinUncounted(id) ==
    LET Key(i) == [id |-> id, part |-> i, era |-> db.era]
        One(i) == IF Batches[id][i] = "put" THEN BatchPut(EmptyBatch, Key(i), id)
                                            ELSE BatchDelete(EmptyBatch, Key(i))
    IN  FoldLeft(LAMBDA b, i : [b EXCEPT !.rep = @ \o One(i).rep], One(1),
                 [i \in 1 .. Len(Batches[id]) - 1 |-> i + 1])
\* BuildBatchGroup: the updates of the group, one batch each, joined.
Join(id) ==
    LET Key(i) == [id |-> id, part |-> i, era |-> db.era]
        One(i) == IF Batches[id][i] = "put" THEN BatchPut(EmptyBatch, Key(i), id)
                                            ELSE BatchDelete(EmptyBatch, Key(i))
    IN  FoldLeft(LAMBDA b, i : BatchAppend(b, One(i)), EmptyBatch,
                 [i \in DOMAIN Batches[id] |-> i])

\* DBImpl::Write of one group: the log record, the sync if asked for, the memtable.
Write(sync) ==
    LET name  == LogFileName(db.logfile)
        id    == Len(written) + 1
        batch == SetSequence(Join(id), versions.last + 1)
        d     == AppendTo(disk, name, <<batch>>)
    IN  /\ Busy /\ ~db.bg_error
        /\ id <= Len(Batches)
        /\ Cardinality(db.mem) <= MemCapacity
        /\ disk' = IF sync THEN Sync(d, name) ELSE d
        /\ db' = [db EXCEPT !.mem = @ \cup InsertInto(batch)]
        /\ versions' = [versions EXCEPT !.last = @ + batch.count]
        /\ written' = Append(written, db.era)
        /\ acked' = IF sync THEN acked \cup {id} ELSE acked
        /\ UNCHANGED <<pc, open, apply, bg, repair, repaired, count, unsafe>>

\* MakeRoomForWrite, with a full memtable or forced by TEST_CompactMemTable: a new
\* log, the old one is closed without a sync.
SwitchMemTable ==
    /\ Busy /\ ~db.bg_error /\ bg.at # "clean"
    /\ db.mem # {} /\ ~db.has_imm
    /\ disk' = NewWritableFile(disk, LogFileName(versions.next), <<>>)
    /\ db' = [db EXCEPT !.imm = db.mem, !.has_imm = TRUE, !.mem = {}, !.logfile = versions.next,
                        !.era = Len(written) + 1]
    /\ versions' = [versions EXCEPT !.next = @ + 1]
    /\ UNCHANGED <<pc, open, apply, bg, repair, history, count, unsafe>>

Merging == bg.merge # NoMerge

\* CompactMemTable, by itself or inside a running merge: the table is created.
FlushStart ==
    /\ Busy /\ bg.at = "idle" /\ db.has_imm
    /\ Merging \/ ~db.bg_error
    /\ disk' = NewWritableFile(disk, TableFileName(versions.next), <<>>)
    /\ bg' = [bg EXCEPT !.at = "build", !.table = versions.next]
    /\ versions' = [versions EXCEPT !.next = @ + 1]
    /\ UNCHANGED <<pc, db, open, apply, repair, history, count, unsafe>>

\* Earlier logs no longer needed.
FlushLog == db.logfile

\* BuildTable has written and synced the table.
FlushBuilt ==
    /\ bg.at = "build" /\ bg' = [bg EXCEPT !.at = "apply", !.table = None]
    /\ disk' = Sync(AppendTo(disk, TableFileName(bg.table), SetToSeq(db.imm)), TableFileName(bg.table))
    /\ CallApply("flush", versions, {bg.table}, {}, FlushLog)
    /\ UNCHANGED <<pc, versions, db, open, repair, history, count, unsafe>>

\* DoCompactionWork starts, with its output table.
MergeStart ==
    /\ Busy /\ bg.at = "idle" /\ ~Merging /\ ~db.has_imm /\ ~db.bg_error
    /\ Cardinality(versions.live) >= 2
    /\ count.merges < MaxMerges /\ count' = [count EXCEPT !.merges = @ + 1]
    /\ disk' = NewWritableFile(disk, TableFileName(versions.next), <<>>)
    /\ bg' = [bg EXCEPT !.merge = [inputs |-> versions.live, output |-> versions.next]]
    /\ versions' = [versions EXCEPT !.next = @ + 1]
    /\ UNCHANGED <<pc, db, open, apply, repair, history, unsafe>>

\* The output is written and synced; InstallCompactionResults.
MergeWritten ==
    LET name == TableFileName(bg.merge.output)
    IN  /\ bg.at = "idle" /\ Merging /\ bg' = [bg EXCEPT !.at = "apply"]
        /\ disk' = Sync(AppendTo(disk, name, SetToSeq(Entries(bg.merge.inputs))), name)
        /\ CallApply("merge", versions, {bg.merge.output}, bg.merge.inputs, None)
        /\ UNCHANGED <<pc, versions, db, open, repair, history, count, unsafe>>

\* The process ends, by the destructor, which flushes no memtable, or killed.
Exit ==
    /\ pc' = "down" /\ versions' = NoVersions /\ db' = NoDB /\ open' = NoOpen
    /\ apply' = NoApply /\ bg' = IdleBg
    /\ repair' = [NoRepair EXCEPT !.running = repair.running]

Close == pc = "up" /\ Exit /\ UNCHANGED <<disk, history, unsafe, count>>

\* The machine stops; only what the file system kept is left.
Crash ==
    /\ Fault
    /\ disk' \in AfterCrash(disk)
    /\ Exit
    /\ UNCHANGED <<history, unsafe>>

-----------------------------------------------------------------------------
(* RepairDB.  A repair that was interrupted is run again before Open.      *)

\* FindFiles: next_file_number_ passes every number but a MANIFEST's.
RepairStart ==
    /\ pc \in {"down", "failed"} /\ GetChildren(disk) # {}
    /\ IF repair.running THEN UNCHANGED count ELSE Fault
    /\ pc' = "repair" /\ repaired' = TRUE
    /\ repair' = [running |-> TRUE, logs |-> Numbers(disk, "log"), tables |-> Numbers(disk, "table"),
                  manifests |-> Numbers(disk, "manifest"),
                  next |-> Max({1} \cup {name.number + 1 : name \in
                                  {x \in GetChildren(disk) : x.type # "manifest"}})]
    /\ UNCHANGED <<disk, versions, db, open, apply, bg, written, acked, unsafe>>

\* ConvertLogToTable and ArchiveFile, which moves the log out of the directory.
\* (Its reader does not verify checksums: of a log that was appended to behind a
\* torn record it may also save a part of that record, which is not modelled.)
ConvertLog(d, log, entries, number) ==
    DeleteFile(IF entries = {} THEN d
               ELSE WriteStringToFileSync(d, TableFileName(number), SetToSeq(entries)), log)

RepairLog ==
    /\ pc = "repair"
    /\ \E n \in repair.logs :
          LET entries == Inserted(ReadAll(FileAt(disk, LogFileName(n))))
          IN  /\ disk' = ConvertLog(disk, LogFileName(n), entries, repair.next)
              /\ repair' = [repair EXCEPT !.logs = @ \ {n}, !.next = @ + 1,
                               !.tables = IF entries = {} THEN @ ELSE @ \cup {repair.next}]
    /\ UNCHANGED <<pc, versions, db, open, apply, bg, history, unsafe, count>>

\* A table without a footer cannot be read.
Unfinished(n) == FileAt(disk, TableFileName(n)).data = <<>>

\* ScanTable finds an error and RepairTable saves nothing of the table: it is
\* archived, and the abandoned copy stays behind.
RepairTable ==
    /\ pc = "repair" /\ repair.logs = {}
    /\ \E n \in {t \in repair.tables : Unfinished(t)} :
          /\ disk' = DeleteFile(NewWritableFile(disk, TableFileName(repair.next), <<>>),
                                TableFileName(n))
          /\ repair' = [repair EXCEPT !.tables = @ \ {n}, !.next = @ + 1]
    /\ UNCHANGED <<pc, versions, db, open, apply, bg, history, unsafe, count>>

\* WriteDescriptor: a new MANIFEST with every table, not synced, then CURRENT.
WriteDescriptor ==
    LET edit  == EncodeTo(FirstEdit(repair.tables, repair.next, LastOf(Entries(repair.tables))))
        d     == NewWritableFile(disk, TempFileName(1), <<edit>>)
        moved == FoldSet(LAMBDA n, e : DeleteFile(e, DescriptorFileName(n)), d, repair.manifests)
    IN  /\ pc = "repair" /\ repair.logs = {}
        /\ \A n \in repair.tables : ~Unfinished(n)
        /\ disk' = RenameFile(moved, TempFileName(1), DescriptorFileName(1))
        /\ pc' = "repair_temp"
        /\ UNCHANGED <<versions, db, open, apply, bg, repair, history, count, unsafe>>

RepairTemp ==
    /\ pc = "repair_temp" /\ pc' = "repair_rename"
    /\ disk' = SetCurrentTemp(disk, 1)
    /\ UNCHANGED <<versions, db, open, apply, bg, repair, history, count, unsafe>>

RepairRename ==
    /\ pc = "repair_rename" /\ pc' = "down"
    /\ disk' = SetCurrentRename(disk, 1)
    /\ repair' = NoRepair
    /\ UNCHANGED <<versions, db, open, apply, bg, history, unsafe, count>>

-----------------------------------------------------------------------------
Next ==
    \/ OpenStart \/ NewDBTemp \/ NewDBRename \/ VersionSetRecover
    \/ RecoverFlush \/ RecoverLogEnd \/ OpenLog
    \/ ApplyRecord \/ ApplySync \/ ApplyTemp \/ ApplyRename \/ ApplyFails
    \/ DeleteObsoleteFiles
    \/ \E sync \in BOOLEAN : Write(sync)
    \/ SwitchMemTable \/ FlushStart \/ FlushBuilt \/ MergeStart \/ MergeWritten
    \/ Close \/ Crash
    \/ RepairStart \/ RepairLog \/ RepairTable \/ WriteDescriptor \/ RepairTemp \/ RepairRename

Spec == Init /\ [][Next]_vars

-----------------------------------------------------------------------------
\* What a reader of the open database can find.
Contents == db.mem \cup db.imm \cup Entries(versions.live)
Present  == {e.key.id : e \in Contents}

\* Safety: a write that was acknowledged with sync is there whenever the database
\* is open, however often the machine crashed, Open was interrupted or failed, and
\* RepairDB was run
\* (if no file with a bad tail was reused, which reuse_logs does not check).
SyncedRecovered == pc = "up" /\ ~unsafe => acked \subseteq Present

\* Safety: of each log a prefix survives: a crash never loses a write and keeps a
\* later one of the same log.
PrefixOfLog ==
    pc = "up" /\ ~unsafe => \A i, j \in DOMAIN written :
        (i < j /\ written[i] = written[j] /\ j \in Present) => i \in Present

\* RepairDB, which reads logs without their checksums, may have met one that was
\* appended to behind a torn record and saved a part of that.
Garbled == repaired /\ unsafe

\* Safety: among the writes that survive, later ones have greater sequence numbers,
\* so Open must never hand out again a number that a recovered entry has (not Garbled).
SequenceOrder ==
    pc = "up" /\ ~Garbled => \A x, y \in Contents :
        (x.key.id < y.key.id \/ (x.key.id = y.key.id /\ x.key.part < y.key.part)) => x.seq < y.seq

\* Safety: a batch is there whole or not at all (not Garbled).
BatchWhole ==
    pc = "up" /\ ~Garbled => \A e \in Contents : \A i \in DOMAIN Batches[e.key.id] :
        \E f \in Contents : f.key.id = e.key.id /\ f.key.part = i

\* Safety: a crash never makes Open fail, but for the MANIFEST-000001 that NewDB and
\* RepairDB write without a sync, or after a RepairDB the one that it archived (if no
\* file with a bad tail was reused).
OpenSucceeds ==
    pc = "failed" /\ ~unsafe =>
        LET m == DescriptorFileName(FileAt(disk, CurrentFileName).data[1])
        IN  IF ~FileExists(disk, m) THEN repaired
            ELSE m.number = 1 /\ Replay(ReadAll(FileAt(disk, m))).next = None

=============================================================================
