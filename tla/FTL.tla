-------------------------------- MODULE FTL --------------------------------
(***************************************************************************)
(* The page-level flash translation layer: Flash/FTL.c together with the   *)
(* free-block pool of Flash/flash.c.                                       *)
(*                                                                         *)
(* A logical cluster is written out of place, at the write pointer         *)
(* <<CurrentFreeBlockID, CurrentFreePageID>>.  When the block under the    *)
(* pointer is full the FTL takes a block from the free list; when only the *)
(* reserve is left it collects garbage: it scans for a victim block,       *)
(* appends the victim to the free list, copies the victim's live pages to  *)
(* the write pointer (which may take another free block), and erases it.   *)
(*                                                                         *)
(* One step of the model is one iteration of one of the C loops.  `pc'     *)
(* tells which loop runs:                                                  *)
(*   "idle"    between two calls of WritewithFTL                           *)
(*   "read"    the cluster loop of a read request                          *)
(*   "room"    a while loop of SecureFTLWriteOneCluster that makes room,   *)
(*             before (written = FALSE) and after the cluster is written   *)
(*   "gc"      the while loop of FTLGarbageCollection                      *)
(*   "erase"   the copy loop of FTLEraseOneBlock                           *)
(*   "crashed" the process was killed by an integer division by zero       *)
(***************************************************************************)
EXTENDS Integers, Sequences, FiniteSets

CONSTANTS
    MaxBlock,        \* number of physical blocks
    MaxPage,         \* pages in a block
    LeastBlocks,     \* reserve of the free list: SetLeastBlocksInFBL(64*ChipNumber)
    BadBlocks,       \* blocks marked BAD_BLOCK when the memory is initialised
    PageToLBARatio,  \* sectors in a page
    WorkingSet,      \* bound: the requests address clusters 0..WorkingSet-1
    MaxLength        \* bound: sectors in one request

Block       == 0 .. MaxBlock - 1
Page        == 0 .. MaxPage - 1
GoodBlocks  == Block \ BadBlocks
DataBlocks  == MaxBlock - LeastBlocks - Cardinality(BadBlocks)
MaxCluster  == DataBlocks * MaxPage
Cluster     == 0 .. MaxCluster - 1

\* The first and the last block of the random order are never marked bad, the
\* reserve is 64 blocks a chip, and the pool is larger than the reserve.
ASSUME SizeAssumption ==
    /\ MaxBlock \in Nat \ {0} /\ MaxPage \in Nat \ {0}
    /\ LeastBlocks \in Nat \ {0}
    /\ BadBlocks \subseteq Block
    /\ DataBlocks \in Nat \ {0}
ASSUME RequestAssumption ==
    /\ PageToLBARatio \in Nat \ {0}
    /\ WorkingSet \in 1 .. MaxCluster
    /\ MaxLength \in Nat

FREE_PAGE    == -1
INVALID_PAGE == -2
BAD_BLOCK    == -3
FTL_POINT_TO_NULL == -1
Unmapped == [Block |-> FTL_POINT_TO_NULL, Page |-> FTL_POINT_TO_NULL]

VARIABLES
    FlashMemory,            \* [Block -> [Page -> cluster or page mark]]
    FTLTable,               \* [Cluster -> [Block, Page]]
    ValidPageCnt,           \* [Block -> number]
    InvalidPageCnt,         \* [Block -> number]
    FreeBlockList,          \* the linked list, as the sequence of its blocks
    CurrentFreeBlockID,     \* write pointer: block, or -1
    CurrentFreePageID,      \* write pointer: page
    CurrentScanningBlockID, \* static of FTLGarbageCollection: last block scanned
    InvalidPage2ValidPageDivider, \* static of FTLGarbageCollection: a 32-bit int
    pc, 
    written,                \* has FTLWriteOneCluster run for the current cluster?
    i,                      \* page index of the copy loop
    request,                \* clusters NowCluster..EndCluster are still to do
    filled                  \* InitializeFTL: logical blocks already considered

memVars  == <<FlashMemory, FTLTable, ValidPageCnt, InvalidPageCnt>>
headVars == <<CurrentFreeBlockID, CurrentFreePageID>>
scanVars == <<CurrentScanningBlockID, InvalidPage2ValidPageDivider>>
ctrlVars == <<pc, written, i, request, filled>>
vars == <<memVars, FreeBlockList, headVars, scanVars, ctrlVars>>

NoRequest == [NowCluster |-> 0, EndCluster |-> -1]

-----------------------------------------------------------------------------
(* The 32-bit divider and C's division by it.                              *)

MinInt32 == -2147483647 - 1
Double32(d) == CASE d = 1073741824 -> MinInt32
                 [] d = MinInt32   -> 0
                 [] OTHER          -> 2 * d
\* Mutant: the ratio ignores the divider.
QuotientWithoutDivider(n, d) == n
Quotient(n, d) == IF d > 0 THEN n \div d ELSE 0  \* 0 <= n < 2^31, d > 0 or d = MinInt32

(* C's division truncates: -1/n is 0.                                      *)
TruncDiv(n, d) == IF n >= 0 THEN n \div d ELSE -((-n) \div d)

-----------------------------------------------------------------------------
InFreeList(b) == \E k \in DOMAIN FreeBlockList : FreeBlockList[k] = b

HasFreeBlock  == Len(FreeBlockList) > LeastBlocks
Mapped(c)     == FTLTable[c].Block # FTL_POINT_TO_NULL

PageFull      == CurrentFreePageID >= MaxPage

\* GetFreeBlock(False): pop the head if more than the reserve is left.
GetFreeBlock ==
    IF HasFreeBlock
    THEN /\ CurrentFreeBlockID' = Head(FreeBlockList)
         /\ FreeBlockList' = Tail(FreeBlockList)
         /\ InvalidPageCnt' = [InvalidPageCnt EXCEPT ![Head(FreeBlockList)] = 0]
         /\ ValidPageCnt' = [ValidPageCnt EXCEPT ![Head(FreeBlockList)] = 0]
    ELSE /\ CurrentFreeBlockID' = -1
         /\ UNCHANGED <<FreeBlockList, InvalidPageCnt, ValidPageCnt>>

\* PutFreeBlock: append at the tail.
PutFreeBlock(b) == FreeBlockList' = Append(FreeBlockList, b)

\* Mutant: an update does not invalidate the old copy.
WriteWithoutInvalidating(c) ==
    /\ FlashMemory' = [FlashMemory EXCEPT ![CurrentFreeBlockID][CurrentFreePageID] = c]
    /\ ValidPageCnt' = [ValidPageCnt EXCEPT ![CurrentFreeBlockID] = @ + 1]
    /\ FTLTable' = [FTLTable EXCEPT
                      ![c] = [Block |-> CurrentFreeBlockID, Page |-> CurrentFreePageID]]
    /\ CurrentFreePageID' = CurrentFreePageID + 1
    /\ UNCHANGED InvalidPageCnt

\* FTLWriteOneCluster: invalidate the old copy, program the page under the
\* write pointer, advance the pointer.
FTLWriteOneCluster(c) ==
    LET old == FTLTable[c]
        cur == CurrentFreeBlockID
        freed == IF Mapped(c)
                 THEN [FlashMemory EXCEPT ![old.Block][old.Page] = INVALID_PAGE]
                 ELSE FlashMemory
        fewer == IF Mapped(c)
                 THEN [ValidPageCnt EXCEPT ![old.Block] = @ - 1]
                 ELSE ValidPageCnt
    IN  /\ FlashMemory' = [freed EXCEPT ![cur][CurrentFreePageID] = c]
        /\ InvalidPageCnt' = IF Mapped(c)
                             THEN [InvalidPageCnt EXCEPT ![old.Block] = @ + 1]
                             ELSE InvalidPageCnt
        /\ ValidPageCnt' = [fewer EXCEPT ![cur] = @ + 1]
        /\ FTLTable' = [FTLTable EXCEPT
                          ![c] = [Block |-> cur, Page |-> CurrentFreePageID]]
        /\ CurrentFreePageID' = CurrentFreePageID + 1

-----------------------------------------------------------------------------
(* InitializeFlashMemory and the head of InitializeFTL: all good blocks in  *)
(* the free list in a random order, the first one taken for writing.        *)

Orders == {o \in [1 .. Cardinality(GoodBlocks) -> GoodBlocks] :
              \A x, y \in DOMAIN o : o[x] = o[y] => x = y}

Init ==
    /\ FlashMemory = [b \in Block |-> [p \in Page |->
                        IF b \in BadBlocks /\ p = 0 THEN BAD_BLOCK ELSE FREE_PAGE]]
    /\ FTLTable = [c \in Cluster |-> Unmapped]
    /\ ValidPageCnt = [b \in Block |-> 0]
    /\ InvalidPageCnt = [b \in Block |-> 0]
    /\ \E o \in Orders : /\ CurrentFreeBlockID = Head(o)
                         /\ FreeBlockList = Tail(o)
    /\ CurrentFreePageID = 0
    /\ CurrentScanningBlockID = -1
    /\ InvalidPage2ValidPageDivider = 1
    /\ pc = "idle"
    /\ written = FALSE
    /\ i = 0
    /\ request = NoRequest
    /\ filled = 0

-----------------------------------------------------------------------------
(* Requests.                                                                *)

Start(first, last, where) ==
    /\ request' = IF first <= last
                  THEN [NowCluster |-> first, EndCluster |-> last] ELSE NoRequest
    /\ pc' = IF first <= last THEN where ELSE "idle"
    /\ written' = FALSE

\* InitializeFTL: every logical block is either filled, cluster by cluster, or
\* left empty (rand() <= BlockMaxRandomValue).
Prefill ==
    /\ pc = "idle" /\ filled < DataBlocks
    /\ filled' = filled + 1
    /\ \/ UNCHANGED <<pc, request, written>>
       \/ /\ (filled + 1) * MaxPage <= WorkingSet
          /\ Start(filled * MaxPage, (filled + 1) * MaxPage - 1, "room")
    /\ UNCHANGED <<memVars, FreeBlockList, headVars, scanVars, i>>

\* WritewithFTL: the sectors StartLBA .. StartLBA-1+Length, as clusters.
WritewithFTL(where, StartLBA, Length) ==
    LET first == StartLBA \div PageToLBARatio
        last  == TruncDiv(StartLBA - 1 + Length, PageToLBARatio)
    IN  /\ pc = "idle" /\ filled = DataBlocks
        /\ last < WorkingSet
        /\ Start(first, last, where)
        /\ UNCHANGED <<memVars, FreeBlockList, headVars, scanVars, i, filled>>

LBA == 0 .. WorkingSet * PageToLBARatio - 1
WriteRequest == \E a \in LBA, n \in 0 .. MaxLength : WritewithFTL("room", a, n)
ReadRequest  == \E a \in LBA, n \in 0 .. MaxLength : WritewithFTL("read", a, n)

\* The request is done with the current cluster.
Advance(where) ==
    LET next == request.NowCluster + 1
    IN  IF next <= request.EndCluster
        THEN /\ request' = [request EXCEPT !.NowCluster = next]
             /\ pc' = where
        ELSE /\ request' = NoRequest
             /\ pc' = "idle"

\* FTLReadOneCluster finds the cluster.
ReadHit ==
    /\ pc = "read" /\ Mapped(request.NowCluster)
    /\ Advance("read")
    /\ UNCHANGED <<memVars, FreeBlockList, headVars, scanVars, written, i, filled>>

\* FTLReadOneCluster fails: the loop breaks, FailedReadOperation is counted.
ReadMiss ==
    /\ pc = "read" /\ ~Mapped(request.NowCluster)
    /\ request' = NoRequest /\ pc' = "idle"
    /\ UNCHANGED <<memVars, FreeBlockList, headVars, scanVars, written, i, filled>>

-----------------------------------------------------------------------------
(* SecureFTLWriteOneCluster.                                                *)

\* The current block is full and the pool has a block.
RoomGet ==
    /\ pc = "room" /\ PageFull /\ HasFreeBlock
    /\ GetFreeBlock
    /\ CurrentFreePageID' = 0
    /\ UNCHANGED <<FlashMemory, FTLTable, scanVars, ctrlVars>>

\* The current block is full and GetFreeBlock returns -1: collect garbage.
RoomGC ==
    /\ pc = "room" /\ PageFull /\ ~HasFreeBlock
    /\ GetFreeBlock
    /\ pc' = "gc"
    /\ UNCHANGED <<FlashMemory, FTLTable, CurrentFreePageID, scanVars,
                   written, i, request, filled>>

WriteCluster ==
    /\ pc = "room" /\ ~PageFull /\ ~written
    /\ FTLWriteOneCluster(request.NowCluster)
    /\ written' = TRUE
    /\ UNCHANGED <<FreeBlockList, CurrentFreeBlockID, scanVars, pc, i, request, filled>>

NextCluster ==
    /\ pc = "room" /\ ~PageFull /\ written
    /\ Advance("room")
    /\ written' = FALSE
    /\ UNCHANGED <<memVars, FreeBlockList, headVars, scanVars, i, filled>>

-----------------------------------------------------------------------------
(* FTLGarbageCollection.                                                    *)

\* The block reached n steps after the last one scanned.
Scanned(n) == (CurrentScanningBlockID + n) % MaxBlock

IsVictim(b) ==
    /\ InvalidPageCnt[b] > Quotient(ValidPageCnt[b], InvalidPage2ValidPageDivider)
    /\ ~InFreeList(b)
    /\ b # CurrentFreeBlockID

GCDone ==
    /\ pc = "gc" /\ HasFreeBlock
    /\ pc' = "room"
    /\ UNCHANGED <<memVars, FreeBlockList, headVars, scanVars, written, i, request, filled>>

\* The scan stops at the first victim; FTLEraseOneBlock begins by putting it
\* into the free list.
GCVictim ==
    /\ pc = "gc" /\ ~HasFreeBlock
    /\ InvalidPage2ValidPageDivider # 0
    /\ \E n \in 1 .. MaxBlock :
          /\ IsVictim(Scanned(n))
          /\ \A m \in 1 .. n - 1 : ~IsVictim(Scanned(m))
          /\ CurrentScanningBlockID' = Scanned(n)
          /\ PutFreeBlock(Scanned(n))
    /\ pc' = "erase" /\ i' = 0
    /\ UNCHANGED <<memVars, headVars, InvalidPage2ValidPageDivider, written, request, filled>>

\* Mutant: the divider is not raised.
GCNoVictimSameDivider ==
    /\ pc = "gc" /\ ~HasFreeBlock
    /\ InvalidPage2ValidPageDivider # 0
    /\ \A b \in Block : ~IsVictim(b)
    /\ CurrentScanningBlockID' = Scanned(MaxBlock)
    /\ UNCHANGED <<memVars, FreeBlockList, headVars, InvalidPage2ValidPageDivider, ctrlVars>>

\* A full round without a victim halves the demand on the next round.
GCNoVictim ==
    /\ pc = "gc" /\ ~HasFreeBlock
    /\ InvalidPage2ValidPageDivider # 0
    /\ \A b \in Block : ~IsVictim(b)
    /\ CurrentScanningBlockID' = Scanned(MaxBlock)
    /\ InvalidPage2ValidPageDivider' = Double32(InvalidPage2ValidPageDivider)
    /\ UNCHANGED <<memVars, FreeBlockList, headVars, ctrlVars>>

\* The divider has overflowed to 0: ValidPageCnt[...]/0 raises SIGFPE.
GCCrash ==
    /\ pc = "gc" /\ ~HasFreeBlock
    /\ InvalidPage2ValidPageDivider = 0
    /\ pc' = "crashed"
    /\ UNCHANGED <<memVars, FreeBlockList, headVars, scanVars, written, i, request, filled>>

-----------------------------------------------------------------------------
(* FTLEraseOneBlock(CurrentScanningBlockID).                                *)

Live(v) == v # INVALID_PAGE /\ v # FREE_PAGE

\* The block under the write pointer filled up while live pages are copied,
\* or after the last one.  The result of GetFreeBlock is not checked.
EraseGet ==
    /\ pc = "erase" /\ PageFull
    /\ GetFreeBlock
    /\ CurrentFreePageID' = 0
    /\ UNCHANGED <<FlashMemory, FTLTable, scanVars, ctrlVars>>

EraseCopy ==
    /\ pc = "erase" /\ ~PageFull /\ i < MaxPage
    /\ Live(FlashMemory[CurrentScanningBlockID][i])
    /\ FTLWriteOneCluster(FlashMemory[CurrentScanningBlockID][i])
    /\ i' = i + 1
    /\ UNCHANGED <<FreeBlockList, CurrentFreeBlockID, scanVars, pc, written, request, filled>>

EraseSkip ==
    /\ pc = "erase" /\ ~PageFull /\ i < MaxPage
    /\ ~Live(FlashMemory[CurrentScanningBlockID][i])
    /\ i' = i + 1
    /\ UNCHANGED <<memVars, FreeBlockList, headVars, scanVars, pc, written, request, filled>>

\* Mutant: the last page of the victim is not looked at.
EraseFinishEarly ==
    /\ pc = "erase" /\ ~PageFull /\ i >= MaxPage - 1
    /\ FlashMemory' = [FlashMemory EXCEPT
                         ![CurrentScanningBlockID] = [p \in Page |-> FREE_PAGE]]
    /\ InvalidPageCnt' = [InvalidPageCnt EXCEPT ![CurrentScanningBlockID] = 0]
    /\ ValidPageCnt' = [ValidPageCnt EXCEPT ![CurrentScanningBlockID] = 0]
    /\ pc' = "gc" /\ i' = 0
    /\ UNCHANGED <<FTLTable, FreeBlockList, headVars, scanVars, written, request, filled>>

EraseFinish ==
    /\ pc = "erase" /\ ~PageFull /\ i = MaxPage
    /\ FlashMemory' = [FlashMemory EXCEPT
                         ![CurrentScanningBlockID] = [p \in Page |-> FREE_PAGE]]
    /\ InvalidPageCnt' = [InvalidPageCnt EXCEPT ![CurrentScanningBlockID] = 0]
    /\ ValidPageCnt' = [ValidPageCnt EXCEPT ![CurrentScanningBlockID] = 0]
    /\ pc' = "gc" /\ i' = 0
    /\ UNCHANGED <<FTLTable, FreeBlockList, headVars, scanVars, written, request, filled>>

-----------------------------------------------------------------------------
RequestStep == Prefill \/ WriteRequest \/ ReadRequest
ReadStep    == ReadHit \/ ReadMiss
WriteStep   == RoomGet \/ RoomGC \/ WriteCluster \/ NextCluster
GCStep      == GCDone \/ GCVictim \/ GCNoVictim \/ GCCrash
EraseStep   == EraseGet \/ EraseCopy \/ EraseSkip \/ EraseFinish
Next == RequestStep \/ ReadStep \/ WriteStep \/ GCStep \/ EraseStep

Spec == Init /\ [][Next]_vars

\* A call of WritewithFTL runs to its end: one thread executes it, under
\* FTL_mutex, and nothing in it waits.
FairSpec == Spec /\ WF_vars(ReadStep \/ WriteStep \/ GCStep \/ EraseStep)

-----------------------------------------------------------------------------
(* Properties.                                                              *)

Mark == {FREE_PAGE, INVALID_PAGE, BAD_BLOCK}
Location == [Block : Block \cup {-1}, Page : Page \cup {-1}]

\* The types of the C variables: table entries, page contents and counters
\* stay inside the arrays and ranges that flash.c allocates for them.
TypeOK ==
    /\ FlashMemory \in [Block -> [Page -> Cluster \cup Mark]]
    /\ FTLTable \in [Cluster -> Location]
    /\ ValidPageCnt \in [Block -> 0 .. MaxPage]
    /\ InvalidPageCnt \in [Block -> 0 .. MaxPage]
    /\ FreeBlockList \in Seq(GoodBlocks)
    /\ CurrentFreeBlockID \in GoodBlocks \cup {-1}
    /\ CurrentFreePageID \in 0 .. MaxPage
    /\ CurrentScanningBlockID \in Block \cup {-1}
    /\ InvalidPage2ValidPageDivider \in Int
    /\ pc \in {"idle", "read", "room", "gc", "erase", "crashed"}
    /\ written \in BOOLEAN
    /\ i \in 0 .. MaxPage
    /\ request \in [NowCluster : Cluster, EndCluster : Cluster \cup {-1}]
    /\ filled \in 0 .. DataBlocks

\* FTLTable and the flash pages describe each other at every step, the steps
\* in the middle of a live-page copy included: a mapped cluster is stored on
\* the page the table names, and a page that holds a cluster is the one the
\* table names.  A cluster can be neither lost nor stored twice.
TablePointsToPage ==
    \A c \in Cluster : Mapped(c) =>
        /\ FTLTable[c].Page \in Page
        /\ FlashMemory[FTLTable[c].Block][FTLTable[c].Page] = c
PageIsInTable ==
    \A b \in Block, p \in Page : FlashMemory[b][p] \in Cluster =>
        FTLTable[FlashMemory[b][p]] = [Block |-> b, Page |-> p]
MappingConsistent == TablePointsToPage /\ PageIsInTable

\* The counters the victim test relies on equal the number of valid and
\* invalid pages, though three functions of two files update them.
ValidPages(b)   == {p \in Page : FlashMemory[b][p] \in Cluster}
InvalidPages(b) == {p \in Page : FlashMemory[b][p] = INVALID_PAGE}
CountersExact ==
    \A b \in Block : /\ ValidPageCnt[b] = Cardinality(ValidPages(b))
                     /\ InvalidPageCnt[b] = Cardinality(InvalidPages(b))

\* The victim goes into the free list before its live pages are copied.  No
\* block is in the list twice, the block being written is not in it, and every
\* listed block except the victim of the running copy is erased: GetFreeBlock
\* never hands out a block that still holds data.
Erased(b) == \A p \in Page : FlashMemory[b][p] = FREE_PAGE
FreeListSound ==
    /\ \A j, k \in DOMAIN FreeBlockList :
          FreeBlockList[j] = FreeBlockList[k] => j = k
    /\ ~InFreeList(CurrentFreeBlockID)
    /\ \A k \in DOMAIN FreeBlockList :
          \/ Erased(FreeBlockList[k])
          \/ pc = "erase" /\ FreeBlockList[k] = CurrentScanningBlockID

\* The unchecked GetFreeBlock calls of FTLEraseOneBlock never return -1: when
\* a page is about to be programmed the write pointer names a block, and the
\* page under it and all later pages of that block are erased.  The reserve
\* of the free list is never used up.
WritePointerFresh ==
    /\ Len(FreeBlockList) >= LeastBlocks
    /\ ~PageFull => /\ CurrentFreeBlockID # -1
                    /\ \A p \in CurrentFreePageID .. MaxPage - 1 :
                          FlashMemory[CurrentFreeBlockID][p] = FREE_PAGE

\* Flash discipline.  A page is programmed only when it is free, its content
\* is only ever dropped by invalidating it, and it becomes free again only by
\* an erase after it was invalidated.  No step erases a live page.
PageLifeCycle ==
    [][\A b \in Block, p \in Page :
          LET old == FlashMemory[b][p]
              new == FlashMemory'[b][p]
          IN  new # old =>
                \/ old = FREE_PAGE /\ new \in Cluster
                \/ old \in Cluster /\ new = INVALID_PAGE
                \/ old = INVALID_PAGE /\ new = FREE_PAGE /\ pc = "erase"]_vars

\* What the FTL promises its caller: a logical disk.  Collecting garbage is
\* invisible to it.
Disk == INSTANCE LogicalDisk WITH
            stored <- {c \in Cluster : /\ Mapped(c)
                                       /\ FTLTable[c].Page \in Page
                                       /\ FlashMemory[FTLTable[c].Block]
                                                     [FTLTable[c].Page] = c}
LogicalDiskSpec == Disk!Spec

\* Every request comes to its end, or the process to its: making room,
\* collecting garbage and copying live pages never go round for ever.
RequestsFinish == pc \in {"read", "room", "gc", "erase"} ~> pc \in {"idle", "crashed"}

\* Garbage collection fails only if live clusters could fill every block beside
\* the bad blocks, the reserve and the block being written: with one cluster
\* less, some block outside them has an invalid page, and the scan of
\* FTLGarbageCollection finds it before its divider overflows.
SlackSuffices ==
    pc = "crashed" =>
        Cardinality({c \in Cluster : Mapped(c)}) >=
            (MaxBlock - Cardinality(BadBlocks) - LeastBlocks - 1) * MaxPage
=============================================================================
