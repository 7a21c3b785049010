---------------------------- MODULE DBLockProofs ----------------------------
(***************************************************************************)
(* Proofs about DBLock, for any number of processes and callers, whoever   *)
(* of them calls DestroyDB.                                                *)
(*                                                                         *)
(* The argument.  The table of a process admits one caller at a time from  *)
(* Insert to Remove (TableInv).  Unless the lock was disturbed, every open *)
(* descriptor refers to the inode that is called LOCK, and that inode is   *)
(* locked by the process of whoever holds the lock (LockInv): so there is  *)
(* one holder, and DestroyDB deletes files only when it is that holder.    *)
(***************************************************************************)
EXTENDS DBLock, TLAPS

InTable == {"setlock", "refused", "locked", "open", "unlock", "remove"}
HasFd   == {"insert", "setlock", "locked", "open", "unlock", "remove", "close"}

TypeInv ==
    /\ DOMAIN pc = Callers
    /\ fd \in [Callers -> 0 .. MaxInodes]
    /\ lock_file \in 0 .. MaxInodes /\ inodes \in 0 .. MaxInodes
    /\ owner \in [1 .. MaxInodes -> Processes \cup {Nobody}]
    /\ files \in BOOLEAN /\ disturbed \in BOOLEAN

\* From Insert to Remove a caller has the table of its process to itself.
TableInv ==
    /\ \A c \in Callers : pc[c] \in InTable => Process[c] \in locked_files
    /\ \A c, d \in Callers :
          pc[c] \in InTable /\ pc[d] \in InTable /\ Process[c] = Process[d] => c = d

FdInv == \A c \in Callers : fd[c] # 0 <=> pc[c] \in HasFd

\* Undisturbed, there is one lock file and its holder's process has it locked.
LockInv ==
    ~disturbed => /\ \A c \in Callers : fd[c] # 0 => fd[c] = lock_file
                  /\ \A c \in Holders : owner[fd[c]] = Process[c]

Inv == TypeInv /\ TableInv /\ FdInv /\ LockInv /\ OpenKeepsFiles

\* The invariant leaves room for one holder.
LEMMA OneHolder == Inv => LockExcludes
<1> SUFFICES ASSUME Inv PROVE LockExcludes
  OBVIOUS
<1>1. \A c \in Holders : c \in Callers /\ pc[c] \in InTable /\ pc[c] \in HasFd
  BY DEF Holders, InTable, HasFd
<1>2. ASSUME NEW c \in Holders, NEW d \in Holders, Process[c] = Process[d] PROVE c = d
  BY <1>1, <1>2 DEF Inv, TableInv
<1>3. ASSUME ~disturbed, NEW c \in Holders, NEW d \in Holders PROVE c = d
  <2>1. fd[c] = lock_file /\ fd[d] = lock_file
    BY <1>1, <1>3 DEF Inv, FdInv, LockInv
  <2>2. Process[c] = Process[d]
    BY <1>3, <2>1 DEF Inv, LockInv
  <2> QED
    BY <1>2, <2>2
<1> QED
  BY <1>2, <1>3 DEF LockExcludes

LEMMA InitInv == Init => Inv
<1> SUFFICES ASSUME Init PROVE Inv
  OBVIOUS
<1> USE DEF Init
<1>1. TypeInv
  <2>1. 0 \in 0 .. MaxInodes
    BY InodeAssumption
  <2>2. DOMAIN pc = Callers
    OBVIOUS
  <2>3. fd \in [Callers -> 0 .. MaxInodes]
    BY <2>1
  <2>4. owner \in [1 .. MaxInodes -> Processes \cup {Nobody}]
    OBVIOUS
  <2> QED
    BY <2>1, <2>2, <2>3, <2>4 DEF TypeInv
<1>2. TableInv /\ FdInv
  BY DEF TableInv, FdInv, InTable, HasFd
<1>3. LockInv /\ OpenKeepsFiles
  BY DEF LockInv, OpenKeepsFiles, Holders
<1> QED
  BY <1>1, <1>2, <1>3 DEF Inv

\* The steps of one caller that leave the descriptors, the table and the lock
\* alone.
LEMMA MoveStep ==
    ASSUME Inv, NEW c \in Callers, NEW where, Goto(c, where),
           UNCHANGED <<fd, lock_file, inodes, owner, locked_files, disturbed>>,
           files' \in BOOLEAN,
           where \in HasFd <=> pc[c] \in HasFd,
           where \in InTable => pc[c] \in InTable,
           where \in {"locked", "open", "unlock"} => c \in Holders,
           ~disturbed => \A d \in Callers : pc'[d] = "open" => files'
    PROVE  Inv'
<1>1. DOMAIN pc' = Callers /\ pc'[c] = where /\ \A d \in Callers \ {c} : pc'[d] = pc[d]
  BY DEF Goto, Inv, TypeInv
<1>2. TypeInv'
  BY <1>1 DEF Inv, TypeInv
<1>3. TableInv'
  <2>1. \A d \in Callers : pc'[d] \in InTable => pc[d] \in InTable
    BY <1>1
  <2> QED
    BY <2>1 DEF Inv, TableInv
<1>4. FdInv'
  BY <1>1 DEF Inv, FdInv
<1>5. LockInv'
  <2>1. Holders' \subseteq Holders
    BY <1>1 DEF Holders
  <2> QED
    BY <2>1 DEF Inv, LockInv
<1>6. OpenKeepsFiles'
  BY DEF OpenKeepsFiles
<1> QED
  BY <1>2, <1>3, <1>4, <1>5, <1>6 DEF Inv

LEMMA CallStep ==
    ASSUME Inv, NEW c \in Callers, Open(c) \/ DestroyDB(c) \/ DeleteDir(c) \/ Close(c)
    PROVE  Inv'
<1>1. PICK where \in {"lockfile", "idle", "unlock"} :
          Goto(c, where) /\ (where = "unlock" => pc[c] = "open")
            /\ (where # "unlock" => pc[c] \in {"idle", "deletedir"})
  BY DEF Open, DestroyDB, DeleteDir, Close
<1>2. UNCHANGED <<fd, lock_file, inodes, owner, locked_files, disturbed, files>>
  BY DEF Open, DestroyDB, DeleteDir, Close, diskVars
<1>3. \A d \in Callers : pc'[d] = "open" => pc[d] = "open"
  BY <1>1 DEF Goto, Inv, TypeInv
<1>4. /\ where \in HasFd <=> pc[c] \in HasFd
      /\ where \in InTable => pc[c] \in InTable
      /\ where \in {"locked", "open", "unlock"} => c \in Holders
  BY <1>1 DEF HasFd, InTable, Holders
<1>5. files' \in BOOLEAN /\ (~disturbed => \A d \in Callers : pc'[d] = "open" => files')
  BY <1>2, <1>3 DEF Inv, TypeInv, OpenKeepsFiles
<1> QED
  BY <1>1, <1>2, <1>4, <1>5, MoveStep

\* What is done under the lock: DestroyDB, the only one to delete files, is the
\* only holder.
LEMMA HolderStep ==
    ASSUME Inv, NEW c \in Callers, Recovered(c) \/ RecoverFails(c) \/ DeleteFiles(c)
    PROVE  Inv'
<1>1. PICK where \in {"open", "unlock"} : Goto(c, where) /\ (where = "open" => files' = TRUE)
  BY DEF Recovered, RecoverFails, DeleteFiles
<1>2. /\ UNCHANGED <<fd, lock_file, inodes, owner, locked_files, disturbed>>
      /\ pc[c] = "locked" /\ c \in Holders
  BY DEF Recovered, RecoverFails, DeleteFiles, Destroying, Holders
<1>3. /\ where \in HasFd <=> pc[c] \in HasFd
      /\ where \in InTable => pc[c] \in InTable
  BY <1>1, <1>2 DEF HasFd, InTable
<1>4. files' \in BOOLEAN
  BY DEF Recovered, RecoverFails, DeleteFiles, Inv, TypeInv
<1>5. ASSUME ~disturbed, NEW d \in Callers, pc'[d] = "open" PROVE files'
  <2>1. CASE d = c
    <3>1. pc'[d] = where
      BY <1>1, <2>1 DEF Goto, Inv, TypeInv
    <3> QED
      BY <1>1, <1>5, <3>1
  <2>2. CASE d # c
    <3>1. pc[d] = "open"
      BY <1>1, <1>5, <2>2 DEF Goto, Inv, TypeInv
    <3>2. d \in Holders
      BY <3>1 DEF Holders
    <3> QED
      BY <1>2, <1>5, <2>2, <3>2, OneHolder DEF LockExcludes
  <2> QED
    BY <2>1, <2>2
<1> QED
  BY <1>1, <1>2, <1>3, <1>4, <1>5, MoveStep

LEMMA OpenLockFileStep ==
    ASSUME Inv, NEW c \in Callers, OpenLockFile(c)
    PROVE  Inv'
<1>1. pc[c] = "lockfile" /\ UNCHANGED <<files, owner, locked_files, disturbed>>
  BY DEF OpenLockFile
<1>2. CASE ~dir
  <2>1. Goto(c, "idle") /\ UNCHANGED <<fd, lock_file, inodes>>
    BY <1>2 DEF OpenLockFile
  <2>2. \A d \in Callers : pc'[d] = "open" => pc[d] = "open"
    BY <2>1 DEF Goto, Inv, TypeInv
  <2>3. files' \in BOOLEAN /\ (~disturbed => \A d \in Callers : pc'[d] = "open" => files')
    BY <1>1, <2>2 DEF Inv, TypeInv, OpenKeepsFiles
  <2>4. "idle" \notin HasFd /\ pc[c] \notin HasFd /\ "idle" \notin InTable
    BY <1>1 DEF HasFd, InTable
  <2> QED
    BY <1>1, <2>1, <2>3, <2>4, MoveStep
<1>3. CASE dir
  <2>1. /\ Goto(c, "insert") /\ fd' = [fd EXCEPT ![c] = lock_file']
        /\ IF lock_file = 0 THEN inodes < MaxInodes /\ inodes' = inodes + 1 /\ lock_file' = inodes + 1
           ELSE UNCHANGED <<lock_file, inodes>>
    BY <1>3 DEF OpenLockFile
  <2>2. lock_file' \in 1 .. MaxInodes /\ inodes' \in 0 .. MaxInodes
    BY <2>1, InodeAssumption DEF Inv, TypeInv
  <2>3. /\ DOMAIN pc' = Callers /\ pc'[c] = "insert" /\ \A d \in Callers \ {c} : pc'[d] = pc[d]
        /\ fd' \in [Callers -> 0 .. MaxInodes] /\ fd'[c] = lock_file'
        /\ \A d \in Callers \ {c} : fd'[d] = fd[d]
    BY <2>1, <2>2 DEF Goto, Inv, TypeInv
  <2>4. TypeInv'
    BY <1>1, <2>2, <2>3 DEF Inv, TypeInv
  <2>5. TableInv'
    BY <1>1, <2>3 DEF Inv, TableInv, InTable
  <2>6. FdInv'
    BY <2>2, <2>3 DEF Inv, FdInv, HasFd
  <2>7. LockInv'
    <3>1. Holders' = Holders /\ c \notin Holders
      BY <1>1, <2>3 DEF Holders
    <3>2. ASSUME ~disturbed, NEW d \in Callers, fd'[d] # 0 PROVE fd'[d] = lock_file'
      BY <1>1, <2>1, <2>3, <3>2 DEF Inv, LockInv
    <3> QED
      BY <1>1, <2>3, <3>1, <3>2 DEF Inv, LockInv, Holders
  <2>8. OpenKeepsFiles'
    BY <1>1, <2>3 DEF Inv, OpenKeepsFiles
  <2> QED
    BY <2>4, <2>5, <2>6, <2>7, <2>8 DEF Inv
<1> QED
  BY <1>2, <1>3

\* A descriptor is closed by a caller that holds no lock.
LEMMA CloseFdStep ==
    ASSUME Inv, NEW c \in Callers, CloseFd(c), pc[c] \in {"insert", "setlock", "close"},
           NEW where \in {"idle", "refused", "deletelock"}, Goto(c, where),
           where = "refused" => pc[c] = "setlock",
           UNCHANGED <<files, lock_file, inodes, locked_files>>
    PROVE  Inv'
<1>1. /\ DOMAIN pc' = Callers /\ pc'[c] = where /\ \A d \in Callers \ {c} : pc'[d] = pc[d]
      /\ fd' \in [Callers -> 0 .. MaxInodes] /\ fd'[c] = 0
      /\ \A d \in Callers \ {c} : fd'[d] = fd[d]
  BY InodeAssumption DEF Goto, CloseFd, Inv, TypeInv
<1>2. fd[c] \in 1 .. MaxInodes
  BY DEF Inv, TypeInv, FdInv, HasFd
<1>3. owner' \in [1 .. MaxInodes -> Processes \cup {Nobody}] /\ disturbed' \in BOOLEAN
      /\ (~disturbed' => ~disturbed /\ owner' = owner)
  BY <1>2 DEF CloseFd, Inv, TypeInv
<1>4. TypeInv'
  BY <1>1, <1>3 DEF Inv, TypeInv
<1>5. TableInv'
  <2>1. \A d \in Callers : pc'[d] \in InTable => pc[d] \in InTable
    BY <1>1 DEF InTable
  <2> QED
    BY <2>1 DEF Inv, TableInv
<1>6. FdInv'
  BY <1>1 DEF Inv, FdInv, HasFd
<1>7. LockInv'
  <2>1. Holders' = Holders /\ c \notin Holders
    BY <1>1 DEF Holders
  <2> QED
    BY <1>1, <1>3, <2>1 DEF Inv, LockInv, Holders
<1>8. OpenKeepsFiles'
  BY <1>1, <1>3 DEF Inv, OpenKeepsFiles
<1> QED
  BY <1>4, <1>5, <1>6, <1>7, <1>8 DEF Inv

LEMMA InsertStep ==
    ASSUME Inv, NEW c \in Callers, Insert(c)
    PROVE  Inv'
<1>1. pc[c] = "insert" /\ UNCHANGED <<files, lock_file, inodes>>
  BY DEF Insert, diskVars
<1>2. CASE Process[c] \notin locked_files
  <2>1. /\ locked_files' = locked_files \cup {Process[c]} /\ Goto(c, "setlock")
        /\ UNCHANGED <<fd, owner, disturbed>>
    BY <1>2 DEF Insert, Inserts
  <2>2. DOMAIN pc' = Callers /\ pc'[c] = "setlock" /\ \A d \in Callers \ {c} : pc'[d] = pc[d]
    BY <2>1 DEF Goto, Inv, TypeInv
  <2>3. TypeInv'
    BY <1>1, <2>1, <2>2 DEF Inv, TypeInv
  <2>4. TableInv'
    <3>1. \A d \in Callers \ {c} : pc[d] \in InTable => Process[d] # Process[c]
      BY <1>2 DEF Inv, TableInv
    <3> QED
      BY <2>1, <2>2, <3>1 DEF Inv, TableInv
  <2>5. FdInv'
    BY <1>1, <2>1, <2>2 DEF Inv, FdInv, HasFd
  <2>6. LockInv'
    <3>1. Holders' = Holders
      BY <1>1, <2>2 DEF Holders
    <3> QED
      BY <1>1, <2>1, <3>1 DEF Inv, LockInv
  <2>7. OpenKeepsFiles'
    BY <1>1, <2>1, <2>2 DEF Inv, OpenKeepsFiles
  <2> QED
    BY <2>3, <2>4, <2>5, <2>6, <2>7 DEF Inv
<1>3. CASE Process[c] \in locked_files
  <2>1. CloseFd(c) /\ Goto(c, "idle") /\ UNCHANGED locked_files
    BY <1>3 DEF Insert, Inserts
  <2> QED
    BY <1>1, <2>1, CloseFdStep
<1> QED
  BY <1>2, <1>3

\* F_SETLK is granted: then no other process holds the lock.
LEMMA SetLockStep ==
    ASSUME Inv, NEW c \in Callers, SetLock(c)
    PROVE  Inv'
<1>1. pc[c] = "setlock" /\ UNCHANGED <<files, lock_file, inodes, locked_files>>
  BY DEF SetLock, diskVars
<1>2. CASE LockGranted(c)
  <2>1. /\ owner' = [owner EXCEPT ![fd[c]] = Process[c]] /\ Goto(c, "locked")
        /\ UNCHANGED <<fd, disturbed>>
    BY <1>2 DEF SetLock
  <2>2. DOMAIN pc' = Callers /\ pc'[c] = "locked" /\ \A d \in Callers \ {c} : pc'[d] = pc[d]
    BY <2>1 DEF Goto, Inv, TypeInv
  <2>3. fd[c] \in 1 .. MaxInodes
    BY <1>1 DEF Inv, TypeInv, FdInv, HasFd
  <2>4. TypeInv'
    BY <1>1, <2>1, <2>2, CallerAssumption DEF Inv, TypeInv
  <2>5. TableInv'
    <3>1. \A d \in Callers : pc'[d] \in InTable => pc[d] \in InTable
      BY <1>1, <2>2 DEF InTable
    <3> QED
      BY <1>1, <3>1 DEF Inv, TableInv
  <2>6. FdInv'
    BY <1>1, <2>1, <2>2 DEF Inv, FdInv, HasFd
  <2>7. LockInv'
    <3>1. ASSUME ~disturbed, NEW d \in Holders PROVE d = c
      <4>1. d \in Callers /\ pc[d] \in InTable /\ pc[d] \in HasFd /\ pc[c] \in InTable
        BY <1>1 DEF Holders, InTable, HasFd
      <4>2. fd[d] = lock_file /\ fd[c] = lock_file /\ owner[fd[d]] = Process[d]
        BY <2>3, <3>1, <4>1 DEF Inv, LockInv, FdInv
      <4>3. Process[d] = Process[c]
        BY <1>2, <4>1, <4>2, CallerAssumption, NobodyAssumption DEF LockGranted
      <4> QED
        BY <4>1, <4>3 DEF Inv, TableInv
    <3>2. Holders' = Holders \cup {c}
      BY <2>2 DEF Holders
    <3>3. owner'[fd[c]] = Process[c]
      BY <2>1, <2>3 DEF Inv, TypeInv
    <3> QED
      BY <1>1, <2>1, <3>1, <3>2, <3>3 DEF Inv, LockInv
  <2>8. OpenKeepsFiles'
    BY <1>1, <2>1, <2>2 DEF Inv, OpenKeepsFiles
  <2> QED
    BY <2>4, <2>5, <2>6, <2>7, <2>8 DEF Inv
<1>3. CASE ~LockGranted(c)
  <2>1. CloseFd(c) /\ Goto(c, "refused")
    BY <1>3 DEF SetLock
  <2> QED
    BY <1>1, <2>1, CloseFdStep
<1> QED
  BY <1>2, <1>3

\* A caller leaves the table of its process, which nobody else is in.
LEMMA RemoveStep ==
    ASSUME Inv, NEW c \in Callers, Refused(c) \/ Remove(c)
    PROVE  Inv'
<1>1. PICK where \in {"idle", "close"} :
          /\ Goto(c, where)
          /\ pc[c] \in {"refused", "remove"} /\ (where = "close" <=> pc[c] = "remove")
  BY DEF Refused, Remove
<1>2. /\ locked_files' = locked_files \ {Process[c]}
      /\ UNCHANGED <<fd, files, lock_file, inodes, owner, disturbed>>
  BY DEF Refused, Remove, diskVars
<1>3. DOMAIN pc' = Callers /\ pc'[c] = where /\ \A d \in Callers \ {c} : pc'[d] = pc[d]
  BY <1>1 DEF Goto, Inv, TypeInv
<1>4. TypeInv'
  BY <1>2, <1>3 DEF Inv, TypeInv
<1>5. TableInv'
  <2>1. pc[c] \in InTable /\ where \notin InTable
    BY <1>1 DEF InTable
  <2>2. \A d \in Callers : pc'[d] \in InTable =>
           d # c /\ pc[d] \in InTable /\ Process[d] # Process[c]
    BY <1>3, <2>1 DEF Inv, TableInv
  <2> QED
    BY <1>2, <2>2 DEF Inv, TableInv
<1>6. FdInv'
  BY <1>1, <1>2, <1>3 DEF Inv, FdInv, HasFd
<1>7. LockInv'
  <2>1. Holders' = Holders
    BY <1>1, <1>3 DEF Holders
  <2> QED
    BY <1>2, <2>1 DEF Inv, LockInv
<1>8. OpenKeepsFiles'
  BY <1>2, <1>3 DEF Inv, OpenKeepsFiles
<1> QED
  BY <1>4, <1>5, <1>6, <1>7, <1>8 DEF Inv

\* The holder gives the lock back.
LEMMA UnlockStep ==
    ASSUME Inv, NEW c \in Callers, Unlock(c)
    PROVE  Inv'
<1>1. /\ pc[c] = "unlock" /\ Goto(c, "remove")
      /\ owner' = IF owner[fd[c]] = Process[c] THEN [owner EXCEPT ![fd[c]] = Nobody] ELSE owner
      /\ UNCHANGED <<fd, files, lock_file, inodes, locked_files, disturbed>>
  BY DEF Unlock, diskVars
<1>2. DOMAIN pc' = Callers /\ pc'[c] = "remove" /\ \A d \in Callers \ {c} : pc'[d] = pc[d]
  BY <1>1 DEF Goto, Inv, TypeInv
<1>3. TypeInv'
  BY <1>1, <1>2 DEF Inv, TypeInv
<1>4. TableInv'
  <2>1. \A d \in Callers : pc'[d] \in InTable => pc[d] \in InTable
    BY <1>1, <1>2 DEF InTable
  <2> QED
    BY <1>1, <2>1 DEF Inv, TableInv
<1>5. FdInv'
  BY <1>1, <1>2 DEF Inv, FdInv, HasFd
<1>6. LockInv'
  <2>1. c \in Holders
    BY <1>1 DEF Holders
  <2>2. ~disturbed => Holders' = {}
    <3>1. ASSUME ~disturbed, NEW d \in Holders' PROVE FALSE
      <4>1. d \in Holders /\ d # c
        BY <1>2, <3>1 DEF Holders
      <4> QED
        BY <2>1, <3>1, <4>1, OneHolder DEF LockExcludes
    <3> QED
      BY <3>1
  <2> QED
    BY <1>1, <2>2 DEF Inv, LockInv
<1>7. OpenKeepsFiles'
  BY <1>1, <1>2 DEF Inv, OpenKeepsFiles
<1> QED
  BY <1>3, <1>4, <1>5, <1>6, <1>7 DEF Inv

LEMMA CloseLockFileStep ==
    ASSUME Inv, NEW c \in Callers, CloseLockFile(c)
    PROVE  Inv'
<1>1. PICK where \in {"idle", "deletelock"} : Goto(c, where)
  BY DEF CloseLockFile
<1>2. CloseFd(c) /\ pc[c] = "close" /\ UNCHANGED <<files, lock_file, inodes, locked_files>>
  BY DEF CloseLockFile, diskVars
<1> QED
  BY <1>1, <1>2, CloseFdStep

\* LOCK is deleted: undisturbed, nobody had it open.
LEMMA DeleteLockStep ==
    ASSUME Inv, NEW c \in Callers, DeleteLock(c)
    PROVE  Inv'
<1>1. /\ pc[c] = "deletelock" /\ Goto(c, "deletedir") /\ lock_file' = 0
      /\ disturbed' = (disturbed \/ \E d \in Callers : fd[d] # 0)
      /\ UNCHANGED <<fd, files, inodes, owner, locked_files>>
  BY DEF DeleteLock
<1>2. DOMAIN pc' = Callers /\ pc'[c] = "deletedir" /\ \A d \in Callers \ {c} : pc'[d] = pc[d]
  BY <1>1 DEF Goto, Inv, TypeInv
<1>3. TypeInv'
  <2>1. disturbed' \in BOOLEAN
    BY <1>1
  <2> QED
    BY <1>1, <1>2, <2>1, InodeAssumption DEF Inv, TypeInv
<1>4. TableInv'
  BY <1>1, <1>2 DEF Inv, TableInv, InTable
<1>5. FdInv'
  BY <1>1, <1>2 DEF Inv, FdInv, HasFd
<1>6. ~disturbed' => ~disturbed /\ \A d \in Callers : fd[d] = 0
  BY <1>1
<1>7. LockInv'
  <2>1. \A d \in Holders' : d \in Callers /\ pc'[d] \in HasFd
    BY DEF Holders, HasFd
  <2>2. ~disturbed' => Holders' = {}
    BY <1>1, <1>5, <1>6, <2>1 DEF FdInv
  <2> QED
    BY <1>1, <1>6, <2>2 DEF LockInv
<1>8. OpenKeepsFiles'
  BY <1>1, <1>2, <1>6 DEF Inv, OpenKeepsFiles
<1> QED
  BY <1>3, <1>4, <1>5, <1>7, <1>8 DEF Inv

LEMMA ExitStep ==
    ASSUME Inv, NEW p \in Processes, Exit(p)
    PROVE  Inv'
<1>1. /\ pc' = [c \in Callers |-> IF Process[c] = p THEN "idle" ELSE pc[c]]
      /\ fd' = [c \in Callers |-> IF Process[c] = p THEN 0 ELSE fd[c]]
      /\ owner' = [i \in 1 .. MaxInodes |-> IF owner[i] = p THEN Nobody ELSE owner[i]]
      /\ locked_files' = locked_files \ {p}
      /\ UNCHANGED <<files, lock_file, inodes, disturbed>>
  BY DEF Exit, diskVars
<1>2. TypeInv'
  BY <1>1, InodeAssumption DEF Inv, TypeInv
<1>3. TableInv'
  <2>1. \A d \in Callers : pc'[d] \in InTable => pc[d] \in InTable /\ Process[d] # p
    BY <1>1 DEF InTable
  <2> QED
    BY <1>1, <2>1 DEF Inv, TableInv
<1>4. FdInv'
  BY <1>1 DEF Inv, FdInv, HasFd
<1>5. LockInv'
  <2>1. \A d \in Holders' : d \in Holders /\ Process[d] # p /\ fd'[d] = fd[d] /\ fd[d] \in 1 .. MaxInodes
    <3>1. ASSUME NEW d \in Holders' PROVE d \in Holders /\ Process[d] # p /\ fd'[d] = fd[d]
      BY <1>1, <3>1 DEF Holders
    <3>2. \A d \in Holders : fd[d] \in 1 .. MaxInodes
      BY DEF Inv, TypeInv, FdInv, HasFd, Holders
    <3> QED
      BY <3>1, <3>2
  <2>2. ASSUME ~disturbed, NEW d \in Holders' PROVE owner'[fd'[d]] = Process[d]
    BY <1>1, <2>1, <2>2 DEF Inv, LockInv
  <2>3. ASSUME ~disturbed, NEW d \in Callers, fd'[d] # 0 PROVE fd'[d] = lock_file
    BY <1>1, <2>3 DEF Inv, LockInv
  <2> QED
    BY <1>1, <2>2, <2>3 DEF LockInv
<1>6. OpenKeepsFiles'
  BY <1>1 DEF Inv, OpenKeepsFiles
<1> QED
  BY <1>2, <1>3, <1>4, <1>5, <1>6 DEF Inv

LEMMA NextInv == Inv /\ [Next]_vars => Inv'
<1> SUFFICES ASSUME Inv, [Next]_vars PROVE Inv'
  OBVIOUS
<1>1. ASSUME NEW c \in Callers,
             \/ Open(c) \/ DestroyDB(c) \/ LockFile(c) \/ UnlockFile(c)
             \/ Recovered(c) \/ RecoverFails(c) \/ Close(c)
             \/ DeleteFiles(c) \/ DeleteLock(c) \/ DeleteDir(c)
      PROVE  Inv'
  BY <1>1, CallStep, HolderStep, OpenLockFileStep, InsertStep, SetLockStep, RemoveStep, UnlockStep,
     CloseLockFileStep, DeleteLockStep DEF LockFile, UnlockFile
<1>2. ASSUME UNCHANGED vars PROVE Inv'
  BY <1>2 DEF vars, diskVars, Inv, TypeInv, TableInv, FdInv, LockInv, Holders, OpenKeepsFiles
<1> QED
  BY <1>1, <1>2, ExitStep DEF Next

LEMMA InvHolds == Spec => []Inv
<1> QED
  BY InitInv, NextInv, PTL DEF Spec

\* The table of locked names keeps the callers of a process apart, whatever
\* happens to the lock of the operating system, and the lock keeps all callers
\* apart until a close or a DestroyDB gives it up behind its holder's back: those
\* two ways are the only ones.
THEOREM LockExcludesHolds == Spec => []LockExcludes
<1> QED
  BY InvHolds, OneHolder, PTL

\* Until then DestroyDB leaves the files of an open database alone.
THEOREM OpenKeepsFilesHolds == Spec => []OpenKeepsFiles
<1>1. Inv => OpenKeepsFiles
  BY DEF Inv
<1> QED
  BY <1>1, InvHolds, PTL
=============================================================================
