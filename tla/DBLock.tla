------------------------------- MODULE DBLock -------------------------------
(***************************************************************************)
(* Who may have a database open: PosixEnv::LockFile and UnlockFile with    *)
(* their table of locked names (util/env_posix.cc), as DBImpl::Recover,    *)
(* ~DBImpl and DestroyDB use them (db/db_impl.cc).                         *)
(*                                                                         *)
(* A caller is one DB object, or one call of DestroyDB, in some process.   *)
(* Each system call is a step.  A lock of fcntl belongs to a process and   *)
(* an inode, and any close of that inode by the process gives it up.       *)
(***************************************************************************)
EXTENDS Naturals

CONSTANTS
    Callers,      \* those who call DB::Open
    Destroyers,   \* those of them who call DestroyDB as well
    Processes,
    Process,      \* [Callers -> Processes]
    MaxInodes     \* bound: how many files were ever called LOCK

ASSUME CallerAssumption == Process \in [Callers -> Processes] /\ Destroyers \subseteq Callers
ASSUME InodeAssumption == MaxInodes \in Nat

Nobody == "nobody"
ASSUME NobodyAssumption == Nobody \notin Processes

VARIABLES
    pc,            \* [Callers -> where the caller is]
    destroys,      \* [Callers -> the running call is DestroyDB]
    listed,        \* [Callers -> GetChildren of DestroyDB found the database]
    fd,            \* [Callers -> the inode its descriptor refers to, or 0]
    dir,           \* the directory of the database exists
    files,         \* the database is in it
    lock_file,     \* the inode called LOCK, or 0
    inodes,        \* inodes made so far
    owner,         \* [1 .. MaxInodes -> the process with the fcntl lock, or Nobody]
    locked_files,  \* the processes whose table has the name LOCK
    disturbed      \* a lock was given up behind its holder's back

callVars == <<destroys, listed>>
diskVars == <<dir, files, lock_file, inodes>>
vars == <<pc, callVars, fd, diskVars, owner, locked_files, disturbed>>

Init ==
    /\ pc = [c \in Callers |-> "idle"]
    /\ destroys = [c \in Callers |-> FALSE] /\ listed = [c \in Callers |-> FALSE]
    /\ fd = [c \in Callers |-> 0]
    /\ dir = FALSE /\ files = FALSE /\ lock_file = 0 /\ inodes = 0
    /\ owner = [i \in 1 .. MaxInodes |-> Nobody]
    /\ locked_files = {}
    /\ disturbed = FALSE

Goto(c, where) == pc' = [pc EXCEPT ![c] = where]

-----------------------------------------------------------------------------
(* The calls.                                                              *)

\* DBImpl::Recover: CreateDir, whose error is ignored.
Open(c) ==
    /\ pc[c] = "idle"
    /\ dir' = TRUE
    /\ destroys' = [destroys EXCEPT ![c] = FALSE]
    /\ Goto(c, "lockfile")
    /\ UNCHANGED <<listed, fd, files, lock_file, inodes, owner, locked_files, disturbed>>

\* DestroyDB: GetChildren finds at least "." and "..", unless there is no
\* directory, and then the call returns.
DestroyDB(c) ==
    /\ pc[c] = "idle" /\ c \in Destroyers
    /\ dir
    /\ destroys' = [destroys EXCEPT ![c] = TRUE]
    /\ listed' = [listed EXCEPT ![c] = files]
    /\ Goto(c, "lockfile")
    /\ UNCHANGED <<fd, diskVars, owner, locked_files, disturbed>>

-----------------------------------------------------------------------------
(* LockFile.                                                               *)

\* open with O_CREAT fails without the directory.
OpenLockFile(c) ==
    /\ pc[c] = "lockfile"
    /\ IF ~dir
       THEN Goto(c, "idle") /\ UNCHANGED <<fd, lock_file, inodes>>
       ELSE /\ Goto(c, "insert")
            /\ IF lock_file = 0
               THEN /\ inodes < MaxInodes
                    /\ inodes' = inodes + 1
                    /\ lock_file' = inodes + 1
               ELSE UNCHANGED <<lock_file, inodes>>
            /\ fd' = [fd EXCEPT ![c] = lock_file']
    /\ UNCHANGED <<callVars, dir, files, owner, locked_files, disturbed>>

\* close(2): the process gives up its lock of the inode, whichever descriptor the
\* lock was taken with.  It disturbs whoever took it.
CloseFd(c) ==
    /\ fd' = [fd EXCEPT ![c] = 0]
    /\ IF owner[fd[c]] = Process[c]
       THEN owner' = [owner EXCEPT ![fd[c]] = Nobody] /\ disturbed' = TRUE
       ELSE UNCHANGED <<owner, disturbed>>

\* PosixLockTable::Insert takes a name that is not in the table.
Inserts(c) == Process[c] \notin locked_files

\* locks_.Insert, or close and "already held by process".
Insert(c) ==
    /\ pc[c] = "insert"
    /\ \/ /\ Inserts(c)
          /\ locked_files' = locked_files \cup {Process[c]}
          /\ Goto(c, "setlock")
          /\ UNCHANGED <<fd, owner, disturbed>>
       \/ /\ ~Inserts(c)
          /\ CloseFd(c)
          /\ Goto(c, "idle")
          /\ UNCHANGED locked_files
    /\ UNCHANGED <<callVars, diskVars>>

\* Mutant: the answer of fcntl is not looked at.
LockGrantedAlways(c) == TRUE
\* F_SETLK is granted unless another process has the lock.
LockGranted(c) == owner[fd[c]] \in {Nobody, Process[c]}

\* LockOrUnlock(fd, true), or close.
SetLock(c) ==
    /\ pc[c] = "setlock"
    /\ \/ /\ LockGranted(c)
          /\ owner' = [owner EXCEPT ![fd[c]] = Process[c]]
          /\ Goto(c, "locked")
          /\ UNCHANGED <<fd, disturbed>>
       \/ /\ ~LockGranted(c)
          /\ CloseFd(c)
          /\ Goto(c, "refused")
    /\ UNCHANGED <<callVars, diskVars, locked_files>>

\* The name leaves the table of a process whose F_SETLK was refused.
Refused(c) ==
    /\ pc[c] = "refused"
    /\ locked_files' = locked_files \ {Process[c]}
    /\ Goto(c, "idle")
    /\ UNCHANGED <<callVars, fd, diskVars, owner, disturbed>>

-----------------------------------------------------------------------------
(* What is done under the lock.                                            *)

\* The rest of DB::Open, which may create the database.
Recovered(c) ==
    /\ pc[c] = "locked" /\ ~destroys[c]
    /\ files' = TRUE
    /\ Goto(c, "open")
    /\ UNCHANGED <<callVars, fd, dir, lock_file, inodes, owner, locked_files, disturbed>>

\* Open fails after the lock, before or after NewDB; it deletes the DBImpl.
RecoverFails(c) ==
    /\ pc[c] = "locked" /\ ~destroys[c]
    /\ files' \in {files, TRUE}
    /\ Goto(c, "unlock")
    /\ UNCHANGED <<callVars, fd, dir, lock_file, inodes, owner, locked_files, disturbed>>

\* ~DBImpl.
Close(c) ==
    /\ pc[c] = "open"
    /\ Goto(c, "unlock")
    /\ UNCHANGED <<callVars, fd, diskVars, owner, locked_files, disturbed>>

\* Mutant: DestroyDB deletes before it has the lock.
DestroyingEarly(c) == pc[c] \in {"setlock", "locked"} /\ destroys[c]
Destroying(c) == pc[c] = "locked" /\ destroys[c]

\* DestroyDB deletes the files that it listed before it had the lock.
DeleteFiles(c) ==
    /\ Destroying(c)
    /\ files' = (files /\ ~listed[c])
    /\ Goto(c, "unlock")
    /\ UNCHANGED <<callVars, fd, dir, lock_file, inodes, owner, locked_files, disturbed>>

-----------------------------------------------------------------------------
(* UnlockFile, and the end of DestroyDB.                                   *)

\* LockOrUnlock(fd, false).
Unlock(c) ==
    /\ pc[c] = "unlock"
    /\ owner' = IF owner[fd[c]] = Process[c] THEN [owner EXCEPT ![fd[c]] = Nobody] ELSE owner
    /\ Goto(c, "remove")
    /\ UNCHANGED <<callVars, fd, diskVars, locked_files, disturbed>>

Remove(c) ==
    /\ pc[c] = "remove"
    /\ locked_files' = locked_files \ {Process[c]}
    /\ Goto(c, "close")
    /\ UNCHANGED <<callVars, fd, diskVars, owner, disturbed>>

CloseLockFile(c) ==
    /\ pc[c] = "close"
    /\ CloseFd(c)
    /\ Goto(c, IF destroys[c] THEN "deletelock" ELSE "idle")
    /\ UNCHANGED <<callVars, diskVars, locked_files>>

\* DestroyDB deletes LOCK when it has let go of it: somebody may have opened it.
DeleteLock(c) ==
    /\ pc[c] = "deletelock"
    /\ lock_file' = 0
    /\ disturbed' = (disturbed \/ \E d \in Callers : fd[d] # 0)
    /\ Goto(c, "deletedir")
    /\ UNCHANGED <<callVars, fd, dir, files, inodes, owner, locked_files>>

\* DeleteDir fails while there is something in the directory.
DeleteDir(c) ==
    /\ pc[c] = "deletedir"
    /\ dir' = (dir /\ (files \/ lock_file # 0))
    /\ Goto(c, "idle")
    /\ UNCHANGED <<callVars, fd, files, lock_file, inodes, owner, locked_files, disturbed>>

\* The process exits: "the lock will be automatically released" (env.h).
Exit(p) ==
    /\ pc' = [c \in Callers |-> IF Process[c] = p THEN "idle" ELSE pc[c]]
    /\ fd' = [c \in Callers |-> IF Process[c] = p THEN 0 ELSE fd[c]]
    /\ owner' = [i \in 1 .. MaxInodes |-> IF owner[i] = p THEN Nobody ELSE owner[i]]
    /\ locked_files' = locked_files \ {p}
    /\ UNCHANGED <<callVars, diskVars, disturbed>>

-----------------------------------------------------------------------------
LockFile(c)   == OpenLockFile(c) \/ Insert(c) \/ SetLock(c) \/ Refused(c)
UnlockFile(c) == Unlock(c) \/ Remove(c) \/ CloseLockFile(c)

Next ==
    \/ \E c \in Callers :
          \/ Open(c) \/ DestroyDB(c)
          \/ LockFile(c) \/ UnlockFile(c)
          \/ Recovered(c) \/ RecoverFails(c) \/ Close(c)
          \/ DeleteFiles(c) \/ DeleteLock(c) \/ DeleteDir(c)
    \/ \E p \in Processes : Exit(p)

Spec == Init /\ [][Next]_vars

-----------------------------------------------------------------------------

\* A caller that was told that it has the lock, and has not given it back.
Holders == {c \in Callers : pc[c] \in {"locked", "open", "unlock"}}

\* "We keep a separate set ... since fcntl(F_SETLK) does not provide any
\* protection against multiple uses from the same process": of the callers of one
\* process at most one holds the lock, whatever else they do.  Processes are kept
\* apart as long as nobody's lock was given up behind its back: by a close of
\* another descriptor in the holder's process, or by DestroyDB, which deletes LOCK
\* while somebody has it open.
LockExcludes ==
    \A c, d \in Holders : Process[c] = Process[d] \/ ~disturbed => c = d

\* DestroyDB does not take the files of a database that is open, although it has
\* listed them before it took the lock (with the same exception).
OpenKeepsFiles == ~disturbed => \A c \in Callers : pc[c] = "open" => files

\* "A database may only be opened by one process at a time" (doc/index.html).  This
\* does not hold: a refused second LockFile closes LOCK and gives the lock away.
OneProcess == \A c, d \in Callers : pc[c] = "open" /\ pc[d] = "open" => Process[c] = Process[d]
=============================================================================
