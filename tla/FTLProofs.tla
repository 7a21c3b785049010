----------------------------- MODULE FTLProofs -----------------------------
(***************************************************************************)
(* Proofs about the flash translation layer, for every number of blocks    *)
(* and pages, every reserve and every set of bad blocks.                   *)
(*                                                                         *)
(* The inductive invariant adds to the properties of FTL what the copy     *)
(* loop of FTLEraseOneBlock relies on: the victim is the last block of the *)
(* free list, it has an invalid page, the pages already visited hold no    *)
(* cluster, and once the loop has taken a free block the write pointer is  *)
(* not ahead of the loop index, and strictly behind it as soon as an       *)
(* invalid page was passed.  So a second block is never needed.            *)
(***************************************************************************)
EXTENDS FTL, FiniteSetTheorems, SequenceTheorems, TLAPS

\* Bad blocks are never written: their pages carry the mark or nothing.
BadBlocksIntact ==
    \A b \in Block, p \in Page :
        /\ b \in BadBlocks => FlashMemory[b][p] \in {BAD_BLOCK, FREE_PAGE}
        /\ FlashMemory[b][p] = BAD_BLOCK => b \in BadBlocks

Victim == CurrentScanningBlockID
InvalidFrom(n) == \E q \in n .. MaxPage - 1 : FlashMemory[Victim][q] = INVALID_PAGE

\* What holds while live pages are copied out of the victim.
EraseInv ==
    pc = "erase" =>
        /\ Victim \in GoodBlocks
        /\ Len(FreeBlockList) \in {LeastBlocks, LeastBlocks + 1}
        /\ FreeBlockList[Len(FreeBlockList)] = Victim
        /\ InvalidFrom(0)
        /\ \A p \in 0 .. i - 1 : FlashMemory[Victim][p] \notin Cluster
        /\ Len(FreeBlockList) = LeastBlocks =>
              /\ CurrentFreePageID <= i
              /\ CurrentFreePageID = i => InvalidFrom(i)

IInv ==
    /\ TypeOK
    /\ MappingConsistent
    /\ CountersExact
    /\ BadBlocksIntact
    /\ FreeListSound
    /\ WritePointerFresh
    /\ EraseInv
    /\ CurrentFreeBlockID = -1 => PageFull

-----------------------------------------------------------------------------
\* The sizes computed by InitializeFlashMemory are the natural numbers they
\* are meant to be.
LEMMA Sizes ==
    /\ Cardinality(BadBlocks) \in Nat
    /\ MaxCluster \in Nat
    /\ IsFiniteSet(Page) /\ Cardinality(Page) = MaxPage
    /\ Cardinality(GoodBlocks) = DataBlocks + LeastBlocks
<1>1. IsFiniteSet(Block) /\ Cardinality(Block) = MaxBlock
  BY SizeAssumption, FS_Interval DEF Block
<1>2. IsFiniteSet(BadBlocks) /\ Cardinality(BadBlocks) \in Nat
  BY <1>1, SizeAssumption, FS_Subset, FS_CardinalityType
<1>3. MaxCluster \in Nat
  BY SizeAssumption DEF MaxCluster
<1>4. IsFiniteSet(Page) /\ Cardinality(Page) = MaxPage
  BY SizeAssumption, FS_Interval DEF Page
<1>5. Cardinality(GoodBlocks) = MaxBlock - Cardinality(BadBlocks)
  <2>1. Block \cap BadBlocks = BadBlocks
    BY SizeAssumption
  <2> QED BY <1>1, <2>1, FS_Difference DEF GoodBlocks
<1> QED BY <1>2, <1>3, <1>4, <1>5, SizeAssumption DEF DataBlocks

\* A set of pages of a block is finite, and no larger than the block.
LEMMA PageSets ==
    ASSUME NEW S \in SUBSET Page
    PROVE  IsFiniteSet(S) /\ Cardinality(S) \in 0 .. MaxPage
BY Sizes, FS_Subset, FS_CardinalityType, SizeAssumption

\* The page the table names is the only page that holds the cluster.
LEMMA Holder ==
    ASSUME MappingConsistent, NEW c \in Cluster, NEW b \in Block, NEW p \in Page
    PROVE  FlashMemory[b][p] = c <=>
               Mapped(c) /\ FTLTable[c].Block = b /\ FTLTable[c].Page = p
<1>1. ASSUME FlashMemory[b][p] = c
      PROVE  Mapped(c) /\ FTLTable[c].Block = b /\ FTLTable[c].Page = p
  <2>1. FTLTable[c] = [Block |-> b, Page |-> p]
    BY <1>1 DEF MappingConsistent, PageIsInTable
  <2>2. b # -1
    BY SizeAssumption DEF Block
  <2> QED BY <2>1, <2>2 DEF Mapped, FTL_POINT_TO_NULL
<1>2. ASSUME Mapped(c), FTLTable[c].Block = b, FTLTable[c].Page = p
      PROVE  FlashMemory[b][p] = c
  BY <1>2 DEF MappingConsistent, TablePointsToPage
<1> QED BY <1>1, <1>2

\* What FTLWriteOneCluster does to the flash, page by page: the page under the
\* write pointer receives the cluster, the page that held it becomes invalid.
LEMMA WritePages ==
    ASSUME TypeOK, MappingConsistent, NEW c \in Cluster,
           CurrentFreeBlockID # -1, ~PageFull,
           FlashMemory[CurrentFreeBlockID][CurrentFreePageID] = FREE_PAGE,
           FTLWriteOneCluster(c)
    PROVE  /\ FlashMemory' \in [Block -> [Page -> Cluster \cup Mark]]
           /\ FTLTable' \in [Cluster -> Location]
           /\ \A b \in Block, p \in Page : FlashMemory'[b][p] =
                IF b = CurrentFreeBlockID /\ p = CurrentFreePageID THEN c
                ELSE IF FlashMemory[b][p] = c THEN INVALID_PAGE
                ELSE FlashMemory[b][p]
           /\ MappingConsistent'
<1> DEFINE cur == CurrentFreeBlockID
           pg  == CurrentFreePageID
<1>0. cur \in Block /\ pg \in Page /\ MaxCluster \in Nat
  BY Sizes, SizeAssumption DEF TypeOK, PageFull, Page, GoodBlocks
<1>1. \A b \in Block, p \in Page :
         FlashMemory[b][p] = c <=> Mapped(c) /\ FTLTable[c].Block = b /\ FTLTable[c].Page = p
  BY Holder
<1>2. Mapped(c) => FTLTable[c].Block \in Block /\ FTLTable[c].Page \in Page
  BY DEF MappingConsistent, TablePointsToPage, Mapped, TypeOK, Location, FTL_POINT_TO_NULL
<1>3. FlashMemory' \in [Block -> [Page -> Cluster \cup Mark]]
  BY <1>0, <1>2 DEF FTLWriteOneCluster, TypeOK, Mark
<1>4. FTLTable' \in [Cluster -> Location]
  BY <1>0 DEF FTLWriteOneCluster, TypeOK, Location
<1>5. ASSUME NEW b \in Block, NEW p \in Page
      PROVE  FlashMemory'[b][p] =
                IF b = cur /\ p = pg THEN c
                ELSE IF FlashMemory[b][p] = c THEN INVALID_PAGE
                ELSE FlashMemory[b][p]
  <2>0. FlashMemory \in [Block -> [Page -> Cluster \cup Mark]]
    BY DEF TypeOK
  <2>1. CASE Mapped(c)
    <3> DEFINE ob == FTLTable[c].Block
               op == FTLTable[c].Page
               freed == [FlashMemory EXCEPT ![ob][op] = INVALID_PAGE]
    <3>1. FlashMemory' = [freed EXCEPT ![cur][pg] = c]
      BY <2>1 DEF FTLWriteOneCluster
    <3>2. ob \in Block /\ op \in Page
      BY <1>2, <2>1
    <3>3. FlashMemory[b][p] = c <=> ob = b /\ op = p
      BY <1>1, <2>1
    <3> HIDE DEF ob, op
    <3>4. /\ freed \in [Block -> [Page -> Cluster \cup Mark]]
          /\ freed[b][p] = IF ob = b /\ op = p THEN INVALID_PAGE ELSE FlashMemory[b][p]
      BY <2>0, <3>2 DEF Mark
    <3> HIDE DEF freed
    <3>5. FlashMemory'[b][p] = IF b = cur /\ p = pg THEN c ELSE freed[b][p]
      BY <1>0, <3>1, <3>4
    <3> QED BY <3>3, <3>4, <3>5
  <2>2. CASE ~Mapped(c)
    <3>1. FlashMemory' = [FlashMemory EXCEPT ![cur][pg] = c]
      BY <2>2 DEF FTLWriteOneCluster
    <3>2. FlashMemory'[b][p] = IF b = cur /\ p = pg THEN c ELSE FlashMemory[b][p]
      BY <1>0, <2>0, <3>1
    <3> QED BY <1>1, <2>2, <3>2
  <2> QED BY <2>1, <2>2
<1>6. FTLTable' = [FTLTable EXCEPT ![c] = [Block |-> cur, Page |-> pg]]
  BY DEF FTLWriteOneCluster
<1>7. FREE_PAGE \notin Cluster /\ INVALID_PAGE \notin Cluster
  BY <1>0 DEF FREE_PAGE, INVALID_PAGE, Cluster
<1>8. TablePointsToPage'
  <2> SUFFICES ASSUME NEW d \in Cluster, FTLTable'[d].Block # -1
               PROVE  /\ FTLTable'[d].Page \in Page
                      /\ FlashMemory'[FTLTable'[d].Block][FTLTable'[d].Page] = d
    BY DEF TablePointsToPage, Mapped, FTL_POINT_TO_NULL
  <2>1. CASE d = c
    BY <2>1, <1>0, <1>5, <1>6 DEF TypeOK
  <2>2. CASE d # c
    <3>1. FTLTable'[d] = FTLTable[d]
      BY <2>2, <1>6 DEF TypeOK
    <3>2. FTLTable[d].Page \in Page /\ FTLTable[d].Block \in Block
          /\ FlashMemory[FTLTable[d].Block][FTLTable[d].Page] = d
      BY <3>1 DEF MappingConsistent, TablePointsToPage, Mapped, TypeOK, Location, FTL_POINT_TO_NULL
    <3> QED BY <3>1, <3>2, <2>2, <1>5, <1>7, <1>0
  <2> QED BY <2>1, <2>2
<1>9. PageIsInTable'
  <2> SUFFICES ASSUME NEW b \in Block, NEW p \in Page, FlashMemory'[b][p] \in Cluster
               PROVE  FTLTable'[FlashMemory'[b][p]] = [Block |-> b, Page |-> p]
    BY DEF PageIsInTable
  <2>1. CASE b = cur /\ p = pg
    BY <2>1, <1>5, <1>6 DEF TypeOK
  <2>2. CASE ~(b = cur /\ p = pg)
    <3>1. FlashMemory'[b][p] = FlashMemory[b][p] /\ FlashMemory[b][p] # c
      BY <2>2, <1>5, <1>7
    <3> QED BY <3>1, <1>6 DEF MappingConsistent, PageIsInTable, TypeOK
  <2> QED BY <2>1, <2>2
<1> QED BY <1>3, <1>4, <1>5, <1>8, <1>9 DEF MappingConsistent

\* FTLWriteOneCluster keeps both counters exact, also when the old and the new
\* page are in the same block.
LEMMA WriteCounters ==
    ASSUME TypeOK, MappingConsistent, CountersExact, NEW c \in Cluster,
           CurrentFreeBlockID # -1, ~PageFull,
           FlashMemory[CurrentFreeBlockID][CurrentFreePageID] = FREE_PAGE,
           FTLWriteOneCluster(c)
    PROVE  /\ CountersExact'
           /\ ValidPageCnt' \in [Block -> 0 .. MaxPage]
           /\ InvalidPageCnt' \in [Block -> 0 .. MaxPage]
<1> DEFINE cur == CurrentFreeBlockID
           pg  == CurrentFreePageID
           old == FTLTable[c]
<1>0. cur \in Block /\ pg \in Page /\ MaxCluster \in Nat
  BY Sizes, SizeAssumption DEF TypeOK, PageFull, Page, GoodBlocks
<1>1. \A b \in Block, p \in Page : FlashMemory'[b][p] =
         IF b = cur /\ p = pg THEN c
         ELSE IF FlashMemory[b][p] = c THEN INVALID_PAGE
         ELSE FlashMemory[b][p]
  BY WritePages
<1>2. FREE_PAGE \notin Cluster /\ INVALID_PAGE \notin Cluster /\ FREE_PAGE # INVALID_PAGE
  BY <1>0 DEF FREE_PAGE, INVALID_PAGE, Cluster
<1>3. ASSUME Mapped(c)
      PROVE  /\ old.Block \in Block /\ old.Page \in Page
             /\ \A b \in Block, p \in Page :
                   FlashMemory[b][p] = c <=> b = old.Block /\ p = old.Page
  <2>1. old.Block \in Block /\ old.Page \in Page /\ FlashMemory[old.Block][old.Page] = c
    BY <1>3 DEF MappingConsistent, TablePointsToPage, Mapped, TypeOK, Location, FTL_POINT_TO_NULL
  <2>2. \A b \in Block, p \in Page : FlashMemory[b][p] = c => b = old.Block /\ p = old.Page
    BY Holder
  <2> QED BY <2>1, <2>2
<1>4. ASSUME ~Mapped(c)
      PROVE  \A b \in Block, p \in Page : FlashMemory[b][p] # c
  BY <1>4, Holder
<1>5. \A b \in Block : /\ IsFiniteSet(ValidPages(b)) /\ Cardinality(ValidPages(b)) \in Nat
                       /\ IsFiniteSet(InvalidPages(b)) /\ Cardinality(InvalidPages(b)) \in Nat
  BY PageSets, SizeAssumption DEF ValidPages, InvalidPages
<1>6. ASSUME NEW b \in Block
      PROVE  ValidPageCnt'[b] = Cardinality(ValidPages(b)')
  <2> DEFINE V == ValidPages(b)
  <2>0. ValidPageCnt[b] = Cardinality(V) /\ IsFiniteSet(V) /\ Cardinality(V) \in Nat
    BY <1>5 DEF CountersExact
  <2>1. CASE Mapped(c) /\ b = old.Block /\ b # cur
    <3>1. ValidPages(b)' = V \ {old.Page}
      BY <2>1, <1>1, <1>2, <1>3 DEF ValidPages
    <3>2. old.Page \in V
      BY <2>1, <1>3 DEF ValidPages
    <3>3. ValidPageCnt'[b] = ValidPageCnt[b] - 1
      BY <2>1, <1>0, <1>3 DEF FTLWriteOneCluster, TypeOK
    <3>4. Cardinality(V \ {old.Page}) = Cardinality(V) - 1
      BY <3>2, <2>0, FS_RemoveElement
    <3> QED BY <3>1, <3>3, <3>4, <2>0
  <2>2. CASE Mapped(c) /\ b = old.Block /\ b = cur
    <3>1. ValidPages(b)' = (V \ {old.Page}) \cup {pg}
      BY <2>2, <1>0, <1>1, <1>2, <1>3 DEF ValidPages
    <3>2. old.Page \in V /\ pg \notin V
      BY <2>2, <1>2, <1>3 DEF ValidPages
    <3>3. ValidPageCnt'[b] = ValidPageCnt[b]
      BY <2>2, <2>0, <1>0, <1>3 DEF FTLWriteOneCluster, TypeOK
    <3>4. IsFiniteSet(V \ {old.Page}) /\ Cardinality(V \ {old.Page}) = Cardinality(V) - 1
      BY <3>2, <2>0, FS_RemoveElement
    <3>5. Cardinality((V \ {old.Page}) \cup {pg}) = Cardinality(V \ {old.Page}) + 1
      BY <3>2, <3>4, FS_AddElement
    <3> QED BY <3>1, <3>3, <3>4, <3>5, <2>0
  <2>3. CASE b = cur /\ ~(Mapped(c) /\ b = old.Block)
    <3>1. ValidPages(b)' = V \cup {pg}
      BY <2>3, <1>0, <1>1, <1>2, <1>3, <1>4 DEF ValidPages
    <3>2. pg \notin V
      BY <2>3, <1>2 DEF ValidPages
    <3>3. ValidPageCnt'[b] = ValidPageCnt[b] + 1
      BY <2>3, <1>0, <1>3 DEF FTLWriteOneCluster, TypeOK
    <3>4. Cardinality(V \cup {pg}) = Cardinality(V) + 1
      BY <3>2, <2>0, FS_AddElement
    <3> QED BY <3>1, <3>3, <3>4, <2>0
  <2>4. CASE b # cur /\ ~(Mapped(c) /\ b = old.Block)
    <3>1. ValidPages(b)' = V
      BY <2>4, <1>0, <1>1, <1>2, <1>3, <1>4 DEF ValidPages
    <3>3. ValidPageCnt'[b] = ValidPageCnt[b]
      BY <2>4, <1>0, <1>3 DEF FTLWriteOneCluster, TypeOK
    <3> QED BY <3>1, <3>3, <2>0
  <2> QED BY <2>1, <2>2, <2>3, <2>4
<1>7. ASSUME NEW b \in Block
      PROVE  InvalidPageCnt'[b] = Cardinality(InvalidPages(b)')
  <2> DEFINE V == InvalidPages(b)
  <2>0. InvalidPageCnt[b] = Cardinality(V) /\ IsFiniteSet(V) /\ Cardinality(V) \in Nat
    BY <1>5 DEF CountersExact
  <2>1. CASE Mapped(c) /\ b = old.Block
    <3>0. old.Page # pg \/ b # cur
      BY <2>1, <1>2, <1>3
    <3>1. InvalidPages(b)' = V \cup {old.Page}
      BY <3>0, <2>1, <1>0, <1>1, <1>2, <1>3 DEF InvalidPages
    <3>2. old.Page \notin V
      BY <2>1, <1>2, <1>3 DEF InvalidPages
    <3>3. InvalidPageCnt'[b] = InvalidPageCnt[b] + 1
      BY <2>1, <1>0, <1>3 DEF FTLWriteOneCluster, TypeOK
    <3>4. Cardinality(V \cup {old.Page}) = Cardinality(V) + 1
      BY <3>2, <2>0, FS_AddElement
    <3> QED BY <3>1, <3>3, <3>4, <2>0
  <2>2. CASE ~(Mapped(c) /\ b = old.Block)
    <3>1. InvalidPages(b)' = V
      BY <2>2, <1>0, <1>1, <1>2, <1>3, <1>4 DEF InvalidPages
    <3>3. InvalidPageCnt'[b] = InvalidPageCnt[b]
      BY <2>2, <1>0, <1>3 DEF FTLWriteOneCluster, TypeOK
    <3> QED BY <3>1, <3>3, <2>0
  <2> QED BY <2>1, <2>2
<1>8. CountersExact'
  BY <1>6, <1>7 DEF CountersExact
<1>9. /\ \A b \in Block : ValidPageCnt'[b] \in 0 .. MaxPage
      /\ \A b \in Block : InvalidPageCnt'[b] \in 0 .. MaxPage
  BY <1>6, <1>7, PageSets DEF ValidPages, InvalidPages
<1>10. DOMAIN ValidPageCnt' = Block /\ DOMAIN InvalidPageCnt' = Block
       /\ ValidPageCnt' = [b \in Block |-> ValidPageCnt'[b]]
       /\ InvalidPageCnt' = [b \in Block |-> InvalidPageCnt'[b]]
  BY DEF FTLWriteOneCluster, TypeOK
<1> QED BY <1>8, <1>9, <1>10

-----------------------------------------------------------------------------
\* The block that GetFreeBlock hands out is erased, is a good block, and leaves
\* a list with the same properties.  The victim of a running copy loop is last
\* in a list of at least two blocks, so it is not handed out.
LEMMA GetBlock ==
    ASSUME IInv, HasFreeBlock, GetFreeBlock, UNCHANGED <<FlashMemory, FTLTable>>
    PROVE  /\ CurrentFreeBlockID' \in GoodBlocks
           /\ Erased(CurrentFreeBlockID')
           /\ FreeBlockList' \in Seq(GoodBlocks)
           /\ Len(FreeBlockList') = Len(FreeBlockList) - 1
           /\ Len(FreeBlockList') >= LeastBlocks
           /\ \A k \in 1 .. Len(FreeBlockList') :
                 FreeBlockList'[k] = FreeBlockList[k + 1]
           /\ \A j, k \in DOMAIN FreeBlockList' :
                 FreeBlockList'[j] = FreeBlockList'[k] => j = k
           /\ ~InFreeList(CurrentFreeBlockID)'
           /\ CountersExact'
           /\ ValidPageCnt' \in [Block -> 0 .. MaxPage]
           /\ InvalidPageCnt' \in [Block -> 0 .. MaxPage]
<1> DEFINE l == FreeBlockList
           h == Head(FreeBlockList)
<1>1. l \in Seq(GoodBlocks) /\ Len(l) \in Nat /\ DOMAIN l = 1 .. Len(l) /\ Len(l) >= 2
  BY LenProperties, SizeAssumption DEF IInv, TypeOK, HasFreeBlock
<1>2. l # << >> /\ h = l[1] /\ h \in GoodBlocks
  BY <1>1
<1>3. /\ CurrentFreeBlockID' = h /\ l' = Tail(l)
      /\ InvalidPageCnt' = [InvalidPageCnt EXCEPT ![h] = 0]
      /\ ValidPageCnt' = [ValidPageCnt EXCEPT ![h] = 0]
  BY DEF GetFreeBlock
<1>4. l' \in Seq(GoodBlocks) /\ Len(l') = Len(l) - 1 /\ DOMAIN l' = 1 .. Len(l')
      /\ \A k \in 1 .. Len(l') : l'[k] = l[k + 1]
  BY <1>1, <1>2, <1>3, HeadTailProperties, LenProperties
<1>5. Erased(h)
  <2>1. Erased(h) \/ (pc = "erase" /\ h = Victim)
    BY <1>1, <1>2 DEF IInv, FreeListSound, Victim
  <2>2. ASSUME pc = "erase", h = Victim PROVE FALSE
    <3>1. l[Len(l)] = l[1]
      BY <2>2, <1>2 DEF IInv, EraseInv
    <3>2. Len(l) = 1
      BY <3>1, <1>1 DEF IInv, FreeListSound
    <3> QED BY <3>2, <1>1
  <2> QED BY <2>1, <2>2
<1>6. \A j, k \in 1 .. Len(l) : l[j] = l[k] => j = k
  BY <1>1 DEF IInv, FreeListSound
<1>7. \A j, k \in 1 .. Len(l') : l'[j] = l'[k] => j = k
  <2> SUFFICES ASSUME NEW j \in 1 .. Len(l'), NEW k \in 1 .. Len(l'), l'[j] = l'[k]
               PROVE  j = k
    OBVIOUS
  <2>1. j + 1 \in 1 .. Len(l) /\ k + 1 \in 1 .. Len(l) /\ l[j + 1] = l[k + 1]
    BY <1>1, <1>4
  <2>2. j + 1 = k + 1
    BY <2>1, <1>6
  <2> QED BY <2>2, <1>1, <1>4
<1>8. ~InFreeList(CurrentFreeBlockID)'
  <2> SUFFICES ASSUME NEW k \in 1 .. Len(l'), l'[k] = h
               PROVE  FALSE
    BY <1>3, <1>4 DEF InFreeList
  <2>1. k + 1 \in 1 .. Len(l) /\ 1 \in 1 .. Len(l) /\ l[k + 1] = l[1]
    BY <1>1, <1>2, <1>4
  <2>2. k + 1 = 1
    BY <2>1, <1>6
  <2> QED BY <2>2, <1>1, <1>4
<1>9. h \in Block /\ ValidPageCnt[h] = 0 /\ InvalidPageCnt[h] = 0
  <2>1. h \in Block /\ MaxCluster \in Nat
    BY <1>2, Sizes DEF GoodBlocks
  <2>2. ValidPages(h) = {} /\ InvalidPages(h) = {}
    BY <2>1, <1>5 DEF Erased, ValidPages, InvalidPages, FREE_PAGE, INVALID_PAGE, Cluster
  <2> QED BY <2>1, <2>2, FS_EmptySet DEF IInv, CountersExact
<1>10. ValidPageCnt' = ValidPageCnt /\ InvalidPageCnt' = InvalidPageCnt
  BY <1>3, <1>9 DEF IInv, TypeOK
<1>11. \A b \in Block : ValidPages(b)' = ValidPages(b) /\ InvalidPages(b)' = InvalidPages(b)
  BY DEF ValidPages, InvalidPages
<1>12. CountersExact'
  BY <1>10, <1>11 DEF IInv, CountersExact
<1>13. Len(l') >= LeastBlocks
  BY <1>1, <1>4, SizeAssumption DEF HasFreeBlock
<1>14. Erased(CurrentFreeBlockID')
  BY <1>3, <1>5
<1> QED
  BY <1>2, <1>3, <1>4, <1>7, <1>8, <1>10, <1>12, <1>13, <1>14 DEF IInv, TypeOK

\* A step that leaves the flash, the table and the counters alone keeps what
\* the invariant says about them.
LEMMA MemoryKept ==
    ASSUME IInv, UNCHANGED memVars
    PROVE  MappingConsistent' /\ CountersExact' /\ BadBlocksIntact'
<1>1. /\ FlashMemory' = FlashMemory /\ FTLTable' = FTLTable
      /\ ValidPageCnt' = ValidPageCnt /\ InvalidPageCnt' = InvalidPageCnt
  BY DEF memVars
<1>2. TablePointsToPage' /\ PageIsInTable'
  BY <1>1 DEF IInv, MappingConsistent, TablePointsToPage, PageIsInTable, Mapped
<1>3. CountersExact'
  BY <1>1 DEF IInv, CountersExact, ValidPages, InvalidPages
<1>4. BadBlocksIntact'
  BY <1>1 DEF IInv, BadBlocksIntact
<1> QED BY <1>2, <1>3, <1>4 DEF MappingConsistent

\* A step that touches neither the flash, nor the free list, nor the write
\* pointer, outside the copy loop, keeps the invariant.
LEMMA QuietStep ==
    ASSUME IInv, UNCHANGED <<memVars, FreeBlockList, headVars>>,
           pc # "erase", pc' # "erase",
           TypeOK'
    PROVE  IInv'
<1> USE DEF memVars, headVars
<1>1. MappingConsistent' /\ CountersExact' /\ BadBlocksIntact'
  BY MemoryKept
<1>2. FreeListSound'
  BY DEF IInv, FreeListSound, InFreeList, Erased
<1>3. WritePointerFresh' /\ (CurrentFreeBlockID = -1 => PageFull)'
  BY DEF IInv, WritePointerFresh, PageFull
<1>4. EraseInv'
  BY DEF EraseInv
<1> QED BY <1>1, <1>2, <1>3, <1>4 DEF IInv

\* Requests stay inside the working set: the clusters that WritewithFTL
\* computes from the sectors, and the prefilled logical blocks.
LEMMA StartOK ==
    ASSUME IInv, NEW first \in Int, NEW last \in Int, NEW where \in {"room", "read"},
           first >= 0, last < WorkingSet, Start(first, last, where),
           UNCHANGED <<memVars, FreeBlockList, headVars, scanVars, i>>,
           pc = "idle", filled' \in 0 .. DataBlocks
    PROVE  IInv'
<1>1. MaxCluster \in Nat /\ WorkingSet \in 1 .. MaxCluster
  BY Sizes, RequestAssumption
<1>2. request' \in [NowCluster : Cluster, EndCluster : Cluster \cup {-1}]
  BY <1>1 DEF Start, NoRequest, Cluster
<1>3. pc' \in {"idle", "room", "read"} /\ written' \in BOOLEAN
  BY DEF Start
<1>4. TypeOK'
  BY <1>2, <1>3 DEF IInv, TypeOK, memVars, headVars, scanVars
<1>5. pc # "erase" /\ pc' # "erase"
  BY <1>3
<1> QED BY <1>4, <1>5, QuietStep

LEMMA RequestOK ==
    ASSUME IInv, RequestStep
    PROVE  IInv'
<1>0. /\ filled \in 0 .. DataBlocks /\ DataBlocks \in Nat /\ MaxPage \in Nat \ {0}
      /\ PageToLBARatio \in Nat \ {0} /\ MaxCluster \in Nat
      /\ WorkingSet \in 1 .. MaxCluster /\ MaxLength \in Nat
  BY Sizes, SizeAssumption, RequestAssumption DEF IInv, TypeOK
<1>1. ASSUME Prefill PROVE IInv'
  <2>0. filled' \in 0 .. DataBlocks /\ pc = "idle"
    BY <1>1, <1>0 DEF Prefill
  <2>1. CASE UNCHANGED <<pc, request, written>>
    <3>1. TypeOK'
      BY <2>0, <2>1, <1>1 DEF Prefill, IInv, TypeOK, memVars, headVars, scanVars
    <3> QED BY <2>0, <2>1, <3>1, <1>1, QuietStep DEF Prefill
  <2>2. CASE /\ (filled + 1) * MaxPage <= WorkingSet
             /\ Start(filled * MaxPage, (filled + 1) * MaxPage - 1, "room")
    <3> DEFINE first == filled * MaxPage
               last  == (filled + 1) * MaxPage - 1
    <3>1. first \in Int /\ last \in Int /\ first >= 0 /\ last < WorkingSet
      BY <1>0, <2>2
    <3>2. Start(first, last, "room")
          /\ UNCHANGED <<memVars, FreeBlockList, headVars, scanVars, i>>
      BY <1>1, <2>2 DEF Prefill
    <3> HIDE DEF first, last
    <3> QED BY <2>0, <3>1, <3>2, StartOK
  <2> QED BY <2>1, <2>2, <1>1 DEF Prefill
<1>2. ASSUME NEW a \in LBA, NEW n \in 0 .. MaxLength, NEW where \in {"room", "read"},
             WritewithFTL(where, a, n)
      PROVE  IInv'
  <2> DEFINE first == a \div PageToLBARatio
             last  == TruncDiv(a - 1 + n, PageToLBARatio)
  <2>1. a \in Nat /\ n \in Nat
    BY <1>0 DEF LBA
  <2>2. first \in Int /\ first >= 0
    BY <2>1, <1>0
  <2>3. last \in Int
    BY <2>1, <1>0 DEF TruncDiv
  <2>4. /\ last < WorkingSet /\ Start(first, last, where) /\ pc = "idle"
        /\ filled' = filled
        /\ UNCHANGED <<memVars, FreeBlockList, headVars, scanVars, i>>
    BY <1>2 DEF WritewithFTL
  <2> HIDE DEF first, last
  <2> QED BY <2>2, <2>3, <2>4, <1>0, StartOK
<1> QED BY <1>1, <1>2 DEF RequestStep, WriteRequest, ReadRequest

\* Going on to the next cluster of the request, or ending it.
LEMMA AdvanceOK ==
    ASSUME IInv, NEW where \in {"room", "read"}, Advance(where)
    PROVE  /\ request' \in [NowCluster : Cluster, EndCluster : Cluster \cup {-1}]
           /\ pc' \in {"idle", "room", "read"}
<1>1. MaxCluster \in Nat \ {0}
  BY Sizes, RequestAssumption
<1>2. request \in [NowCluster : Cluster, EndCluster : Cluster \cup {-1}]
  BY DEF IInv, TypeOK
<1> QED BY <1>1, <1>2 DEF Advance, NoRequest, Cluster

LEMMA ReadOK ==
    ASSUME IInv, ReadStep
    PROVE  IInv'
<1>1. MaxCluster \in Nat \ {0}
  BY Sizes, RequestAssumption
<1>2. NoRequest \in [NowCluster : Cluster, EndCluster : Cluster \cup {-1}]
  BY <1>1 DEF NoRequest, Cluster
<1>3. ASSUME ReadHit PROVE IInv'
  <2>1. TypeOK' /\ pc' # "erase"
    BY <1>3, AdvanceOK DEF ReadHit, IInv, TypeOK, memVars, headVars, scanVars
  <2> QED BY <1>3, <2>1, QuietStep DEF ReadHit
<1>4. ASSUME ReadMiss PROVE IInv'
  <2>1. TypeOK' /\ pc' # "erase"
    BY <1>2, <1>4 DEF ReadMiss, IInv, TypeOK, memVars, headVars, scanVars
  <2> QED BY <1>4, <2>1, QuietStep DEF ReadMiss
<1> QED BY <1>3, <1>4 DEF ReadStep

-----------------------------------------------------------------------------
(* SecureFTLWriteOneCluster.                                                *)

\* Taking a free block keeps the invariant, in the copy loop too: the pool has
\* a block there unless the loop has taken one already, and then the write
\* pointer is behind the loop index and its block is not full.
LEMMA GetOK ==
    ASSUME IInv, HasFreeBlock, GetFreeBlock, CurrentFreePageID' = 0,
           UNCHANGED <<FlashMemory, FTLTable, scanVars, ctrlVars>>
    PROVE  IInv'
<1> USE DEF scanVars, ctrlVars
<1>1. /\ CurrentFreeBlockID' \in GoodBlocks
      /\ Erased(CurrentFreeBlockID')
      /\ FreeBlockList' \in Seq(GoodBlocks)
      /\ Len(FreeBlockList') = Len(FreeBlockList) - 1
      /\ Len(FreeBlockList') >= LeastBlocks
      /\ \A k \in 1 .. Len(FreeBlockList') : FreeBlockList'[k] = FreeBlockList[k + 1]
      /\ \A j, k \in DOMAIN FreeBlockList' : FreeBlockList'[j] = FreeBlockList'[k] => j = k
      /\ ~InFreeList(CurrentFreeBlockID)'
      /\ CountersExact'
      /\ ValidPageCnt' \in [Block -> 0 .. MaxPage]
      /\ InvalidPageCnt' \in [Block -> 0 .. MaxPage]
  BY GetBlock
<1>2. /\ DOMAIN FreeBlockList = 1 .. Len(FreeBlockList) /\ Len(FreeBlockList) \in Nat
      /\ DOMAIN FreeBlockList' = 1 .. Len(FreeBlockList') /\ Len(FreeBlockList') \in Nat
  BY <1>1, LenProperties DEF IInv, TypeOK
<1>3. TypeOK'
  BY <1>1, SizeAssumption DEF IInv, TypeOK
<1>4. MappingConsistent' /\ BadBlocksIntact'
  BY DEF IInv, MappingConsistent, TablePointsToPage, PageIsInTable, Mapped, BadBlocksIntact
<1>5. FreeListSound'
  <2>1. \A k \in DOMAIN FreeBlockList' :
           \/ Erased(FreeBlockList'[k])
           \/ pc = "erase" /\ FreeBlockList'[k] = CurrentScanningBlockID
    BY <1>1, <1>2 DEF IInv, FreeListSound
  <2> QED BY <2>1, <1>1 DEF FreeListSound, Erased
<1>6. WritePointerFresh' /\ (CurrentFreeBlockID = -1 => PageFull)'
  <2>1. CurrentFreeBlockID' # -1
    BY <1>1, SizeAssumption DEF GoodBlocks, Block
  <2> QED BY <1>1, <2>1 DEF WritePointerFresh, Erased, PageFull, Page
<1>7. EraseInv'
  <2> SUFFICES ASSUME pc = "erase" PROVE EraseInv'
    BY DEF EraseInv
  <2>1. /\ Victim \in GoodBlocks /\ Len(FreeBlockList) \in {LeastBlocks, LeastBlocks + 1}
        /\ FreeBlockList[Len(FreeBlockList)] = Victim
        /\ InvalidFrom(0)
        /\ \A p \in 0 .. i - 1 : FlashMemory[Victim][p] \notin Cluster
    BY DEF IInv, EraseInv
  <2>2. Len(FreeBlockList') = LeastBlocks
    BY <2>1, <1>1, <1>2, SizeAssumption
  <2>3. FreeBlockList'[Len(FreeBlockList')] = Victim
    BY <2>1, <2>2, <1>1, <1>2, SizeAssumption
  <2>4. i \in 0 .. MaxPage
    BY DEF IInv, TypeOK
  <2> QED BY <2>1, <2>2, <2>3, <2>4 DEF EraseInv, InvalidFrom, Victim
<1> QED BY <1>1, <1>3, <1>4, <1>5, <1>6, <1>7 DEF IInv

\* Programming the page under the write pointer keeps everything but the copy
\* loop's own invariant, which depends on the caller.
LEMMA WriteOK ==
    ASSUME IInv, NEW c \in Cluster, ~PageFull, FTLWriteOneCluster(c),
           UNCHANGED <<FreeBlockList, CurrentFreeBlockID, scanVars, pc, request, filled>>,
           written' \in BOOLEAN, i' \in 0 .. MaxPage,
           EraseInv'
    PROVE  IInv'
<1> USE DEF scanVars
<1> DEFINE cur == CurrentFreeBlockID
           pg  == CurrentFreePageID
<1>0. /\ cur \in GoodBlocks /\ cur # -1 /\ pg \in Page /\ pg \in Nat
      /\ MaxCluster \in Nat /\ MaxPage \in Nat \ {0}
  BY Sizes, SizeAssumption DEF IInv, TypeOK, PageFull, Page
<1>1. FlashMemory[cur][pg] = FREE_PAGE
  BY <1>0 DEF IInv, WritePointerFresh, Page
<1>2. /\ FlashMemory' \in [Block -> [Page -> Cluster \cup Mark]]
      /\ FTLTable' \in [Cluster -> Location]
      /\ \A b \in Block, p \in Page : FlashMemory'[b][p] =
                IF b = cur /\ p = pg THEN c
                ELSE IF FlashMemory[b][p] = c THEN INVALID_PAGE
                ELSE FlashMemory[b][p]
      /\ MappingConsistent'
  BY <1>0, <1>1, WritePages DEF IInv
<1>3. /\ CountersExact'
      /\ ValidPageCnt' \in [Block -> 0 .. MaxPage]
      /\ InvalidPageCnt' \in [Block -> 0 .. MaxPage]
  BY <1>0, <1>1, WriteCounters DEF IInv
<1>4. CurrentFreePageID' = pg + 1
  BY DEF FTLWriteOneCluster
<1>5. TypeOK'
  BY <1>0, <1>2, <1>3, <1>4 DEF IInv, TypeOK, Page
<1>6. {FREE_PAGE, INVALID_PAGE, BAD_BLOCK} \cap Cluster = {} /\ BAD_BLOCK # INVALID_PAGE
  BY <1>0 DEF FREE_PAGE, INVALID_PAGE, BAD_BLOCK, Cluster
<1>7. BadBlocksIntact'
  BY <1>0, <1>2, <1>6 DEF IInv, BadBlocksIntact, GoodBlocks
<1>8. ASSUME NEW b \in Block, b # cur, Erased(b)
      PROVE  Erased(b)'
  BY <1>2, <1>6, <1>8 DEF Erased
<1>9. FreeListSound'
  <2>1. \A k \in DOMAIN FreeBlockList : FreeBlockList[k] \in Block /\ FreeBlockList[k] # cur
    BY LenProperties DEF IInv, TypeOK, FreeListSound, InFreeList, GoodBlocks
  <2> QED BY <2>1, <1>8 DEF IInv, FreeListSound, InFreeList
<1>10. WritePointerFresh' /\ (CurrentFreeBlockID = -1 => PageFull)'
  <2>1. ASSUME NEW p \in pg + 1 .. MaxPage - 1
        PROVE  FlashMemory'[cur][p] = FREE_PAGE
    <3>1. p \in Page /\ p # pg /\ p \in pg .. MaxPage - 1
      BY <1>0 DEF Page
    <3>2. FlashMemory[cur][p] = FREE_PAGE
      BY <3>1 DEF IInv, WritePointerFresh
    <3> QED BY <3>1, <3>2, <1>0, <1>2, <1>6 DEF GoodBlocks
  <2> QED BY <2>1, <1>0, <1>4 DEF IInv, WritePointerFresh
<1> QED BY <1>2, <1>3, <1>5, <1>7, <1>9, <1>10 DEF IInv

LEMMA WriteStepOK ==
    ASSUME IInv, WriteStep
    PROVE  IInv'
<1>1. ASSUME RoomGet PROVE IInv'
  BY <1>1, GetOK DEF RoomGet
<1>2. ASSUME RoomGC PROVE IInv'
  <2>1. /\ CurrentFreeBlockID' = -1 /\ PageFull /\ pc # "erase" /\ pc' = "gc"
        /\ UNCHANGED <<memVars, FreeBlockList, CurrentFreePageID, scanVars,
                       written, i, request, filled>>
    BY <1>2 DEF RoomGC, GetFreeBlock, memVars
  <2>2. TypeOK'
    BY <2>1 DEF IInv, TypeOK, memVars, scanVars
  <2>3. MappingConsistent' /\ CountersExact' /\ BadBlocksIntact'
    BY <2>1, MemoryKept DEF memVars
  <2>4. FreeListSound'
    <3>1. \A k \in DOMAIN FreeBlockList : FreeBlockList[k] # -1
      BY LenProperties, SizeAssumption DEF IInv, TypeOK, GoodBlocks, Block
    <3> QED BY <2>1, <3>1 DEF IInv, FreeListSound, InFreeList, Erased, memVars
  <2>5. WritePointerFresh' /\ PageFull'
    BY <2>1 DEF IInv, WritePointerFresh, PageFull
  <2>6. EraseInv'
    BY <2>1 DEF EraseInv
  <2> QED BY <2>2, <2>3, <2>4, <2>5, <2>6 DEF IInv
<1>3. ASSUME WriteCluster PROVE IInv'
  <2>1. request.NowCluster \in Cluster
    BY DEF IInv, TypeOK
  <2>2. EraseInv' /\ written' \in BOOLEAN /\ i' \in 0 .. MaxPage
    BY <1>3 DEF WriteCluster, EraseInv, IInv, TypeOK
  <2> QED BY <1>3, <2>1, <2>2, WriteOK DEF WriteCluster
<1>4. ASSUME NextCluster PROVE IInv'
  <2>1. TypeOK' /\ pc' # "erase"
    BY <1>4, AdvanceOK DEF NextCluster, IInv, TypeOK, memVars, headVars, scanVars
  <2> QED BY <1>4, <2>1, QuietStep DEF NextCluster
<1> QED BY <1>1, <1>2, <1>3, <1>4 DEF WriteStep

-----------------------------------------------------------------------------
(* FTLGarbageCollection and FTLEraseOneBlock.                               *)

\* The quotient of the victim test is a natural number, whatever the divider.
LEMMA QuotientType ==
    ASSUME NEW n \in Nat, NEW d \in Int
    PROVE  Quotient(n, d) \in Nat
<1>1. CASE d > 0
  <2>1. d \in Nat \ {0}
    BY <1>1
  <2>2. n \div d \in Int /\ n \div d >= 0
    BY <2>1
  <2> QED BY <1>1, <2>2 DEF Quotient
<1>2. CASE ~(d > 0)
  BY <1>2 DEF Quotient
<1> QED BY <1>1, <1>2

\* A block that passes the victim test is a good block with an invalid page.
LEMMA VictimHasInvalidPage ==
    ASSUME IInv, NEW b \in Block, IsVictim(b)
    PROVE  /\ b \in GoodBlocks
           /\ \E q \in Page : FlashMemory[b][q] = INVALID_PAGE
<1>1. ValidPageCnt[b] \in Nat /\ InvalidPageCnt[b] \in Nat
  BY SizeAssumption DEF IInv, TypeOK
<1>2. InvalidPage2ValidPageDivider \in Int
  BY DEF IInv, TypeOK
<1>3. Quotient(ValidPageCnt[b], InvalidPage2ValidPageDivider) \in Nat
  BY <1>1, <1>2, QuotientType
<1>4. InvalidPageCnt[b] # 0
  BY <1>1, <1>3 DEF IsVictim
<1>5. InvalidPages(b) # {}
  BY <1>4, FS_EmptySet DEF IInv, CountersExact
<1>6. PICK q \in Page : FlashMemory[b][q] = INVALID_PAGE
  BY <1>5 DEF InvalidPages
<1>7. b \notin BadBlocks
  BY <1>6 DEF IInv, BadBlocksIntact, INVALID_PAGE, BAD_BLOCK, FREE_PAGE
<1> QED BY <1>6, <1>7 DEF GoodBlocks

LEMMA GCStepOK ==
    ASSUME IInv, GCStep
    PROVE  IInv'
<1>1. ASSUME GCDone PROVE IInv'
  <2>1. TypeOK'
    BY <1>1 DEF GCDone, IInv, TypeOK, memVars, headVars, scanVars
  <2> QED BY <1>1, <2>1, QuietStep DEF GCDone
<1>2. ASSUME GCCrash PROVE IInv'
  <2>1. TypeOK'
    BY <1>2 DEF GCCrash, IInv, TypeOK, memVars, headVars, scanVars
  <2> QED BY <1>2, <2>1, QuietStep DEF GCCrash
<1>3. ASSUME GCNoVictim PROVE IInv'
  <2>1. CurrentScanningBlockID' \in Block
    BY <1>3, SizeAssumption DEF GCNoVictim, Scanned, IInv, TypeOK, Block
  <2>2. InvalidPage2ValidPageDivider' \in Int
    BY <1>3 DEF GCNoVictim, Double32, MinInt32, IInv, TypeOK
  <2>3. TypeOK'
    BY <1>3, <2>1, <2>2 DEF GCNoVictim, IInv, TypeOK, memVars, headVars, ctrlVars
  <2> QED BY <1>3, <2>3, QuietStep DEF GCNoVictim, ctrlVars
<1>4. ASSUME GCVictim PROVE IInv'
  <2>1. PICK n \in 1 .. MaxBlock : /\ IsVictim(Scanned(n))
                                   /\ CurrentScanningBlockID' = Scanned(n)
                                   /\ PutFreeBlock(Scanned(n))
    BY <1>4 DEF GCVictim
  <2> DEFINE v == Scanned(n)
             l == FreeBlockList
  <2>2. v \in Block
    BY SizeAssumption DEF Scanned, IInv, TypeOK, Block
  <2> HIDE DEF v
  <2>3. /\ CurrentScanningBlockID' = v /\ l' = Append(l, v) /\ IsVictim(v)
        /\ pc # "erase" /\ pc' = "erase" /\ i' = 0
        /\ UNCHANGED <<memVars, headVars, InvalidPage2ValidPageDivider, written, request, filled>>
        /\ Len(l) <= LeastBlocks
    BY <1>4, <2>1, LenProperties, SizeAssumption DEF GCVictim, PutFreeBlock, v, HasFreeBlock, IInv, TypeOK
  <2>4. v \in GoodBlocks /\ \E q \in Page : FlashMemory[v][q] = INVALID_PAGE
    BY <2>2, <2>3, VictimHasInvalidPage
  <2>5. l \in Seq(GoodBlocks) /\ Len(l) = LeastBlocks /\ DOMAIN l = 1 .. Len(l)
    BY <2>3, LenProperties, SizeAssumption DEF IInv, TypeOK, WritePointerFresh
  <2>6. /\ l' \in Seq(GoodBlocks) /\ Len(l') = LeastBlocks + 1
        /\ DOMAIN l' = 1 .. LeastBlocks + 1
        /\ l'[LeastBlocks + 1] = v
        /\ \A k \in 1 .. LeastBlocks : l'[k] = l[k]
    <3> USE <2>3, <2>4, <2>5, SizeAssumption
    <3>1. l' \in Seq(GoodBlocks) /\ Len(l') = Len(l) + 1
      BY AppendProperties
    <3>2. \A k \in 1 .. Len(l') : Append(l, v)[k] = IF k = Len(l) + 1 THEN v ELSE l[k]
      BY <3>1, AppendProperties
    <3> QED BY <3>1, <3>2, LenProperties
  <2>7. \A k \in 1 .. LeastBlocks : l[k] # v
    BY <2>3, <2>5 DEF IsVictim, InFreeList
  <2>8. TypeOK'
    BY <2>2, <2>3, <2>6, SizeAssumption DEF IInv, TypeOK, memVars, headVars
  <2>9. MappingConsistent' /\ CountersExact' /\ BadBlocksIntact'
    BY <2>3, MemoryKept DEF memVars
  <2>10. FreeListSound'
    <3>1. \A j, k \in 1 .. LeastBlocks + 1 : l'[j] = l'[k] => j = k
      BY <2>5, <2>6, <2>7, SizeAssumption DEF IInv, FreeListSound
    <3>2. \A k \in 1 .. LeastBlocks + 1 : l'[k] # CurrentFreeBlockID
      BY <2>3, <2>5, <2>6, SizeAssumption DEF IInv, FreeListSound, InFreeList, IsVictim
    <3>3. \A k \in 1 .. LeastBlocks + 1 : Erased(l'[k]) \/ l'[k] = v
      BY <2>3, <2>5, <2>6, SizeAssumption DEF IInv, FreeListSound
    <3> QED BY <2>3, <2>6, <3>1, <3>2, <3>3
        DEF FreeListSound, InFreeList, Erased, memVars, headVars
  <2>11. WritePointerFresh' /\ (CurrentFreeBlockID = -1 => PageFull)'
    BY <2>3, <2>5, <2>6, SizeAssumption DEF IInv, WritePointerFresh, PageFull, memVars, headVars
  <2>12. EraseInv'
    BY <2>3, <2>4, <2>6, SizeAssumption DEF EraseInv, Victim, InvalidFrom, Page, memVars
  <2> QED BY <2>8, <2>9, <2>10, <2>11, <2>12 DEF IInv
<1> QED BY <1>1, <1>2, <1>3, <1>4 DEF GCStep

\* The unchecked GetFreeBlock of the copy loop succeeds: a block that is full
\* after the loop has taken one would have been filled with fewer live pages than
\* the victim has pages.
LEMMA EraseHasBlock ==
    ASSUME IInv, EraseGet
    PROVE  HasFreeBlock
<1>1. /\ Len(FreeBlockList) \in {LeastBlocks, LeastBlocks + 1}
      /\ Len(FreeBlockList) = LeastBlocks =>
            /\ CurrentFreePageID <= i
            /\ CurrentFreePageID = i => InvalidFrom(i)
  BY DEF EraseGet, IInv, EraseInv
<1>2. /\ i \in 0 .. MaxPage /\ CurrentFreePageID \in 0 .. MaxPage
      /\ MaxPage \in Nat \ {0} /\ LeastBlocks \in Nat \ {0}
  BY SizeAssumption DEF IInv, TypeOK
<1>3. CASE Len(FreeBlockList) = LeastBlocks
  <2>1. CurrentFreePageID = MaxPage /\ i = MaxPage
    BY <1>1, <1>2, <1>3 DEF EraseGet, PageFull
  <2> QED BY <2>1, <1>1, <1>2, <1>3 DEF InvalidFrom
<1>4. CASE Len(FreeBlockList) = LeastBlocks + 1
  BY <1>2, <1>4 DEF HasFreeBlock
<1> QED BY <1>1, <1>3, <1>4

LEMMA EraseStepOK ==
    ASSUME IInv, EraseStep
    PROVE  IInv'
<1> DEFINE v == CurrentScanningBlockID
<1>0. pc = "erase"
  BY DEF EraseStep, EraseGet, EraseCopy, EraseSkip, EraseFinish
<1>1. /\ v \in GoodBlocks /\ v \in Block
      /\ Len(FreeBlockList) \in {LeastBlocks, LeastBlocks + 1}
      /\ FreeBlockList[Len(FreeBlockList)] = v
      /\ InvalidFrom(0)
      /\ \A p \in 0 .. i - 1 : FlashMemory[v][p] \notin Cluster
      /\ Len(FreeBlockList) = LeastBlocks =>
            /\ CurrentFreePageID <= i
            /\ CurrentFreePageID = i => InvalidFrom(i)
  BY <1>0 DEF IInv, EraseInv, Victim, GoodBlocks
<1>2. /\ i \in 0 .. MaxPage /\ CurrentFreePageID \in 0 .. MaxPage
      /\ MaxPage \in Nat \ {0} /\ LeastBlocks \in Nat \ {0} /\ MaxCluster \in Nat
      /\ DOMAIN FreeBlockList = 1 .. Len(FreeBlockList)
      /\ InvalidPage2ValidPageDivider \in Int
  BY SizeAssumption, Sizes, LenProperties DEF IInv, TypeOK
<1>3. v # CurrentFreeBlockID
  <2>1. Len(FreeBlockList) \in 1 .. Len(FreeBlockList)
    <3>1. Len(FreeBlockList) \in Nat /\ Len(FreeBlockList) >= 1
      BY <1>1, SizeAssumption
    <3> QED BY <3>1
  <2>2. InFreeList(v)
    BY <2>1, <1>1, <1>2 DEF InFreeList
  <2> QED BY <2>2 DEF IInv, FreeListSound
<1>4. {FREE_PAGE, INVALID_PAGE} \cap Cluster = {} /\ FREE_PAGE # INVALID_PAGE
  BY <1>2 DEF FREE_PAGE, INVALID_PAGE, Cluster
<1>5. ASSUME EraseGet PROVE IInv'
  BY <1>5, EraseHasBlock, GetOK DEF EraseGet
<1>6. ASSUME EraseCopy PROVE IInv'
  <2> DEFINE c == FlashMemory[v][i]
  <2>1. i \in Page /\ i < MaxPage
    BY <1>2, <1>6 DEF EraseCopy, Page
  <2>2. c \in Cluster
    BY <2>1, <1>1, <1>6 DEF EraseCopy, Live, IInv, TypeOK, Mark, BadBlocksIntact, GoodBlocks
  <2>3. /\ ~PageFull /\ FTLWriteOneCluster(c) /\ i' = i + 1
        /\ UNCHANGED <<FreeBlockList, CurrentFreeBlockID, scanVars, pc, written, request, filled>>
    BY <1>6 DEF EraseCopy
  <2> HIDE DEF c
  <2>4. /\ CurrentFreeBlockID # -1
        /\ FlashMemory[CurrentFreeBlockID][CurrentFreePageID] = FREE_PAGE
    BY <2>3, <1>2 DEF IInv, WritePointerFresh, PageFull
  <2>5. \A p \in Page : FlashMemory'[v][p] =
           IF FlashMemory[v][p] = c THEN INVALID_PAGE ELSE FlashMemory[v][p]
    BY <2>2, <2>3, <2>4, <1>1, <1>3, WritePages DEF IInv
  <2>6. InvalidFrom(0)'
    BY <2>3, <2>5, <1>1, <1>2 DEF InvalidFrom, Victim, scanVars, Page
  <2>7. \A p \in 0 .. i : FlashMemory'[v][p] \notin Cluster
    <3> SUFFICES ASSUME NEW p \in 0 .. i PROVE FlashMemory'[v][p] \notin Cluster
      OBVIOUS
    <3>1. p \in Page
      BY <2>1, <1>2 DEF Page
    <3>2. CASE p = i
      BY <3>1, <3>2, <2>5, <1>4 DEF c
    <3>3. CASE p # i
      <4>1. FlashMemory[v][p] \notin Cluster
        <5>1. p \in 0 .. i - 1
          BY <3>3, <1>2
        <5> QED BY <5>1, <1>1
      <4> QED BY <4>1, <3>1, <2>5, <1>4
    <3> QED BY <3>2, <3>3
  <2>8. CurrentFreePageID' = CurrentFreePageID + 1
    BY <2>3 DEF FTLWriteOneCluster
  <2>9. ASSUME Len(FreeBlockList) = LeastBlocks
        PROVE  /\ CurrentFreePageID' <= i'
               /\ CurrentFreePageID' = i' => InvalidFrom(i)'
    <3>1. CurrentFreePageID <= i /\ (CurrentFreePageID = i => InvalidFrom(i))
      BY <2>9, <1>1
    <3>2. CurrentFreePageID' <= i'
      BY <3>1, <2>3, <2>8, <1>2
    <3>3. ASSUME CurrentFreePageID = i PROVE InvalidFrom(i)'
      <4>1. PICK q \in i .. MaxPage - 1 : FlashMemory[v][q] = INVALID_PAGE
        BY <3>1, <3>3 DEF InvalidFrom, Victim
      <4>2. q \in Page /\ q # i
        BY <4>1, <2>2, <1>2, <1>4 DEF c, Page
      <4>3. FlashMemory'[v][q] = INVALID_PAGE
        BY <4>1, <4>2, <2>5
      <4>4. q \in i + 1 .. MaxPage - 1
        BY <4>1, <4>2, <1>2
      <4> QED BY <4>3, <4>4, <2>3 DEF InvalidFrom, Victim, scanVars
    <3> QED BY <3>2, <3>3, <2>3, <2>8, <1>2
  <2>10. EraseInv'
    <3>1. \A p \in 0 .. i' - 1 : FlashMemory'[v][p] \notin Cluster
      BY <2>3, <2>7, <1>2
    <3> QED BY <3>1, <2>3, <2>6, <2>9, <1>1 DEF EraseInv, Victim, scanVars
  <2>11. i' \in 0 .. MaxPage /\ written' \in BOOLEAN
    BY <2>1, <2>3, <1>2 DEF IInv, TypeOK
  <2> QED BY <2>2, <2>3, <2>10, <2>11, WriteOK
<1>7. ASSUME EraseSkip PROVE IInv'
  <2>1. /\ i' = i + 1 /\ i < MaxPage /\ ~Live(FlashMemory[v][i]) /\ pc' = pc
        /\ UNCHANGED <<memVars, FreeBlockList, headVars, scanVars, written, request, filled>>
    BY <1>7 DEF EraseSkip
  <2>2. TypeOK'
    BY <2>1, <1>2 DEF IInv, TypeOK, memVars, headVars, scanVars
  <2>3. MappingConsistent' /\ CountersExact' /\ BadBlocksIntact'
    BY <2>1, MemoryKept DEF memVars
  <2>4. FreeListSound' /\ WritePointerFresh' /\ (CurrentFreeBlockID = -1 => PageFull)'
    BY <2>1 DEF IInv, FreeListSound, InFreeList, Erased, WritePointerFresh, PageFull,
         memVars, headVars, scanVars
  <2>5. EraseInv'
    <3>1. \A p \in 0 .. i : FlashMemory[v][p] \notin Cluster
      BY <2>1, <1>1, <1>2, <1>4 DEF Live
    <3>2. Len(FreeBlockList) = LeastBlocks =>
             CurrentFreePageID <= i + 1 /\ CurrentFreePageID # i + 1
      BY <1>1, <1>2
    <3>3. 0 .. i' - 1 = 0 .. i
      BY <2>1, <1>2
    <3> QED BY <3>1, <3>2, <3>3, <2>1, <1>1
        DEF EraseInv, Victim, InvalidFrom, memVars, headVars, scanVars
  <2> QED BY <2>2, <2>3, <2>4, <2>5 DEF IInv
<1>8. ASSUME EraseFinish PROVE IInv'
  <2>1. /\ FlashMemory' = [FlashMemory EXCEPT ![v] = [p \in Page |-> FREE_PAGE]]
        /\ InvalidPageCnt' = [InvalidPageCnt EXCEPT ![v] = 0]
        /\ ValidPageCnt' = [ValidPageCnt EXCEPT ![v] = 0]
        /\ pc' = "gc" /\ i' = 0 /\ i = MaxPage
        /\ UNCHANGED <<FTLTable, FreeBlockList, headVars, scanVars, written, request, filled>>
    BY <1>8 DEF EraseFinish
  <2>2. \A b \in Block, p \in Page : FlashMemory'[b][p] =
           IF b = v THEN FREE_PAGE ELSE FlashMemory[b][p]
    BY <2>1, <1>1 DEF IInv, TypeOK
  <2>3. \A p \in Page : FlashMemory[v][p] \notin Cluster
    BY <2>1, <1>1, <1>2 DEF Page
  <2>4. TypeOK'
    <3>1. [p \in Page |-> FREE_PAGE] \in [Page -> Cluster \cup Mark]
      BY DEF Mark
    <3>2. FlashMemory' \in [Block -> [Page -> Cluster \cup Mark]]
      BY <3>1, <2>1 DEF IInv, TypeOK
    <3>3. /\ InvalidPageCnt' \in [Block -> 0 .. MaxPage]
          /\ ValidPageCnt' \in [Block -> 0 .. MaxPage]
      <4>1. 0 \in 0 .. MaxPage
        BY SizeAssumption
      <4>2. InvalidPageCnt \in [Block -> 0 .. MaxPage] /\ ValidPageCnt \in [Block -> 0 .. MaxPage]
        BY DEF IInv, TypeOK
      <4> QED BY <4>1, <4>2, <2>1
    <3> QED BY <3>2, <3>3, <2>1, SizeAssumption DEF IInv, TypeOK, headVars, scanVars
  <2>5. MappingConsistent'
    <3>1. TablePointsToPage'
      <4> SUFFICES ASSUME NEW c \in Cluster, Mapped(c)
                   PROVE  /\ FTLTable[c].Page \in Page
                          /\ FlashMemory'[FTLTable[c].Block][FTLTable[c].Page] = c
        BY <2>1 DEF TablePointsToPage, Mapped
      <4>1. /\ FTLTable[c].Page \in Page /\ FTLTable[c].Block \in Block
            /\ FlashMemory[FTLTable[c].Block][FTLTable[c].Page] = c
        BY DEF IInv, MappingConsistent, TablePointsToPage, Mapped, TypeOK, Location,
               FTL_POINT_TO_NULL
      <4>2. FTLTable[c].Block # v
        BY <4>1, <2>3
      <4> QED BY <4>1, <4>2, <2>2
    <3>2. PageIsInTable'
      <4> SUFFICES ASSUME NEW b \in Block, NEW p \in Page, FlashMemory'[b][p] \in Cluster
                   PROVE  FTLTable[FlashMemory'[b][p]] = [Block |-> b, Page |-> p]
        BY <2>1 DEF PageIsInTable
      <4>1. FlashMemory'[b][p] = FlashMemory[b][p]
        BY <2>2, <1>4
      <4> QED BY <4>1 DEF IInv, MappingConsistent, PageIsInTable
    <3> QED BY <3>1, <3>2 DEF MappingConsistent
  <2>6. CountersExact'
    <3> SUFFICES ASSUME NEW b \in Block
                 PROVE  /\ ValidPageCnt'[b] = Cardinality(ValidPages(b)')
                        /\ InvalidPageCnt'[b] = Cardinality(InvalidPages(b)')
      BY DEF CountersExact
    <3>1. CASE b = v
      <4>1. ValidPages(b)' = {} /\ InvalidPages(b)' = {}
        BY <3>1, <2>2, <1>4 DEF ValidPages, InvalidPages
      <4>2. ValidPageCnt'[b] = 0 /\ InvalidPageCnt'[b] = 0
        BY <3>1, <2>1 DEF IInv, TypeOK
      <4> QED BY <4>1, <4>2, FS_EmptySet
    <3>2. CASE b # v
      <4>1. ValidPages(b)' = ValidPages(b) /\ InvalidPages(b)' = InvalidPages(b)
        BY <3>2, <2>2 DEF ValidPages, InvalidPages
      <4>2. ValidPageCnt'[b] = ValidPageCnt[b] /\ InvalidPageCnt'[b] = InvalidPageCnt[b]
        BY <3>2, <2>1 DEF IInv, TypeOK
      <4> QED BY <4>1, <4>2 DEF IInv, CountersExact
    <3> QED BY <3>1, <3>2
  <2>7. BadBlocksIntact'
    BY <2>2, <1>1 DEF IInv, BadBlocksIntact, GoodBlocks, FREE_PAGE, BAD_BLOCK
  <2>8. FreeListSound'
    <3>1. \A k \in DOMAIN FreeBlockList : FreeBlockList[k] \in Block
      BY LenProperties DEF IInv, TypeOK, GoodBlocks
    <3>2. \A k \in DOMAIN FreeBlockList : Erased(FreeBlockList[k])'
      BY <3>1, <2>1, <2>2 DEF IInv, FreeListSound, Erased
    <3> QED BY <3>2, <2>1 DEF IInv, FreeListSound, InFreeList, headVars, scanVars
  <2>9. WritePointerFresh' /\ (CurrentFreeBlockID = -1 => PageFull)'
    <3>1. ASSUME CurrentFreeBlockID # -1, NEW p \in CurrentFreePageID .. MaxPage - 1
          PROVE  FlashMemory'[CurrentFreeBlockID][p] = FlashMemory[CurrentFreeBlockID][p]
      <4>1. CurrentFreeBlockID \in Block /\ p \in Page
        BY <3>1, <1>2 DEF IInv, TypeOK, GoodBlocks, Page
      <4> QED BY <4>1, <2>2, <1>3
    <3> QED BY <3>1, <2>1 DEF IInv, WritePointerFresh, PageFull, headVars
  <2>10. EraseInv'
    BY <2>1 DEF EraseInv
  <2> QED BY <2>4, <2>5, <2>6, <2>7, <2>8, <2>9, <2>10 DEF IInv
<1> QED BY <1>5, <1>6, <1>7, <1>8 DEF EraseStep

-----------------------------------------------------------------------------
(* The theorems.                                                            *)

LEMMA InitOK == Init => IInv
<1> SUFFICES ASSUME Init PROVE IInv
  OBVIOUS
<1>1. PICK o \in Orders : CurrentFreeBlockID = Head(o) /\ FreeBlockList = Tail(o)
  BY DEF Init
<1> DEFINE n == DataBlocks + LeastBlocks
<1>2. /\ o \in [1 .. n -> GoodBlocks] /\ n \in Nat /\ n >= 2 /\ n - 1 >= LeastBlocks
      /\ \A x, y \in 1 .. n : o[x] = o[y] => x = y
  BY Sizes, SizeAssumption DEF Orders
<1> HIDE DEF n
<1>3. o \in Seq(GoodBlocks) /\ Len(o) = n
  BY <1>2
<1>4. /\ o # << >> /\ Head(o) = o[1] /\ o[1] \in GoodBlocks
      /\ Tail(o) \in Seq(GoodBlocks) /\ Len(Tail(o)) = n - 1
      /\ \A k \in 1 .. n - 1 : Tail(o)[k] = o[k + 1]
  BY <1>2, <1>3, HeadTailProperties
<1>5. DOMAIN FreeBlockList = 1 .. n - 1
  BY <1>1, <1>4, LenProperties
<1>6. MaxCluster \in Nat \ {0} /\ MaxPage \in Nat \ {0}
  BY Sizes, SizeAssumption, RequestAssumption
<1>7. \A b \in Block, p \in Page : FlashMemory[b][p] =
         IF b \in BadBlocks /\ p = 0 THEN BAD_BLOCK ELSE FREE_PAGE
  BY DEF Init
<1>8. TypeOK
  <2>1. FlashMemory \in [Block -> [Page -> Cluster \cup Mark]]
    BY DEF Init, Mark
  <2>2. FTLTable \in [Cluster -> Location]
    BY DEF Init, Location, Unmapped, FTL_POINT_TO_NULL
  <2>3. request \in [NowCluster : Cluster, EndCluster : Cluster \cup {-1}]
    BY <1>6 DEF Init, NoRequest, Cluster
  <2>4. FreeBlockList \in Seq(GoodBlocks) /\ CurrentFreeBlockID \in GoodBlocks
    BY <1>1, <1>4
  <2>5. /\ ValidPageCnt \in [Block -> 0 .. MaxPage]
        /\ InvalidPageCnt \in [Block -> 0 .. MaxPage]
    BY <1>6 DEF Init
  <2>6. CurrentFreePageID \in 0 .. MaxPage /\ i \in 0 .. MaxPage /\ filled \in 0 .. DataBlocks
    BY <1>6, SizeAssumption DEF Init
  <2>7. /\ CurrentScanningBlockID \in Block \cup {-1}
        /\ InvalidPage2ValidPageDivider \in Int
        /\ pc \in {"idle", "read", "room", "gc", "erase", "crashed"}
    BY DEF Init
  <2>8. written \in BOOLEAN
    BY DEF Init
  <2> QED BY <2>1, <2>2, <2>3, <2>4, <2>5, <2>6, <2>7, <2>8 DEF TypeOK
<1>9. MappingConsistent
  <2>1. TablePointsToPage
    BY DEF Init, TablePointsToPage, Mapped, Unmapped
  <2>2. PageIsInTable
    BY <1>6, <1>7 DEF PageIsInTable, BAD_BLOCK, FREE_PAGE, Cluster
  <2> QED BY <2>1, <2>2 DEF MappingConsistent
<1>10. CountersExact
  <2>1. \A b \in Block : ValidPages(b) = {} /\ InvalidPages(b) = {}
    BY <1>6, <1>7 DEF ValidPages, InvalidPages, BAD_BLOCK, FREE_PAGE, INVALID_PAGE, Cluster
  <2> QED BY <2>1, FS_EmptySet DEF Init, CountersExact
<1>11. BadBlocksIntact
  BY <1>7 DEF BadBlocksIntact, BAD_BLOCK, FREE_PAGE
<1>12. \A b \in GoodBlocks : Erased(b)
  BY <1>7 DEF Erased, GoodBlocks
<1>13. FreeListSound
  <2>1. \A k \in 1 .. n - 1 : FreeBlockList[k] = o[k + 1] /\ k + 1 \in 1 .. n
    BY <1>1, <1>2, <1>4
  <2>2. \A j, k \in 1 .. n - 1 : FreeBlockList[j] = FreeBlockList[k] => j = k
    <3> SUFFICES ASSUME NEW j \in 1 .. n - 1, NEW k \in 1 .. n - 1,
                        FreeBlockList[j] = FreeBlockList[k]
                 PROVE  j = k
      OBVIOUS
    <3>1. j + 1 = k + 1
      BY <2>1, <1>2
    <3> QED BY <3>1, <1>2
  <2>3. \A k \in 1 .. n - 1 : FreeBlockList[k] # CurrentFreeBlockID
    <3> SUFFICES ASSUME NEW k \in 1 .. n - 1, FreeBlockList[k] = CurrentFreeBlockID
                 PROVE  FALSE
      OBVIOUS
    <3>1. o[k + 1] = o[1] /\ 1 \in 1 .. n
      BY <2>1, <1>1, <1>2, <1>4
    <3>2. k + 1 = 1
      BY <3>1, <2>1, <1>2
    <3> QED BY <3>2, <1>2
  <2>4. \A k \in 1 .. n - 1 : Erased(FreeBlockList[k])
    BY <2>1, <1>2, <1>12
  <2> QED BY <2>2, <2>3, <2>4, <1>5 DEF FreeListSound, InFreeList
<1>14. CurrentFreeBlockID \in GoodBlocks /\ CurrentFreeBlockID # -1
  BY <1>1, <1>4, SizeAssumption DEF GoodBlocks, Block
<1>15. WritePointerFresh /\ (CurrentFreeBlockID = -1 => PageFull)
  <2>1. CurrentFreePageID = 0 /\ Page = 0 .. MaxPage - 1
    BY DEF Init, Page
  <2> QED BY <2>1, <1>1, <1>2, <1>4, <1>12, <1>14 DEF WritePointerFresh, Erased
<1>16. EraseInv
  BY DEF Init, EraseInv
<1> QED BY <1>8, <1>9, <1>10, <1>11, <1>13, <1>15, <1>16 DEF IInv

LEMMA StutterOK == IInv /\ UNCHANGED vars => IInv'
<1> SUFFICES ASSUME IInv, UNCHANGED vars PROVE IInv'
  OBVIOUS
<1> USE DEF vars, memVars, headVars, scanVars, ctrlVars
<1>1. TypeOK'
  BY DEF IInv, TypeOK
<1>2. MappingConsistent' /\ CountersExact' /\ BadBlocksIntact'
  BY MemoryKept
<1>3. FreeListSound' /\ WritePointerFresh' /\ (CurrentFreeBlockID = -1 => PageFull)'
  BY DEF IInv, FreeListSound, InFreeList, Erased, WritePointerFresh, PageFull
<1>4. EraseInv'
  BY DEF IInv, EraseInv, InvalidFrom, Victim
<1> QED BY <1>1, <1>2, <1>3, <1>4 DEF IInv

\* The inductive invariant: it holds initially and every iteration of every
\* loop of the FTL keeps it.
THEOREM Invariance == Spec => []IInv
<1>1. IInv /\ [Next]_vars => IInv'
  BY RequestOK, ReadOK, WriteStepOK, GCStepOK, EraseStepOK, StutterOK DEF Next
<1> QED BY <1>1, InitOK, PTL DEF Spec

\* FTLTable and the flash pages agree at every step, the page counters are
\* exact, free blocks are erased, and pages are only programmed when erased.
THEOREM Safety ==
    Spec => [](TypeOK /\ MappingConsistent /\ CountersExact /\ FreeListSound
               /\ WritePointerFresh)
<1>1. IInv => TypeOK /\ MappingConsistent /\ CountersExact /\ FreeListSound
              /\ WritePointerFresh
  BY DEF IInv
<1> QED BY <1>1, Invariance, PTL

\* No step programs a page that is not free, drops a cluster other than by
\* invalidating its page, or erases a page that is still valid.
THEOREM LifeCycle == Spec => PageLifeCycle
<1> DEFINE Cycle ==
      \A b \in Block, p \in Page :
          LET old == FlashMemory[b][p]
              new == FlashMemory'[b][p]
          IN  new # old =>
                \/ old = FREE_PAGE /\ new \in Cluster
                \/ old \in Cluster /\ new = INVALID_PAGE
                \/ old = INVALID_PAGE /\ new = FREE_PAGE /\ pc = "erase"
<1>1. ASSUME IInv, NEW c \in Cluster, ~PageFull, FTLWriteOneCluster(c)
      PROVE  Cycle
  <2>1. CurrentFreeBlockID # -1
        /\ FlashMemory[CurrentFreeBlockID][CurrentFreePageID] = FREE_PAGE
    BY <1>1, SizeAssumption DEF IInv, WritePointerFresh, TypeOK, PageFull
  <2>2. \A b \in Block, p \in Page : FlashMemory'[b][p] =
                IF b = CurrentFreeBlockID /\ p = CurrentFreePageID THEN c
                ELSE IF FlashMemory[b][p] = c THEN INVALID_PAGE
                ELSE FlashMemory[b][p]
    BY <1>1, <2>1, WritePages DEF IInv
  <2> QED BY <2>1, <2>2
<1>2. ASSUME FlashMemory' = FlashMemory PROVE Cycle
  BY <1>2
<1>3. ASSUME IInv, RequestStep \/ ReadStep \/ GCStep PROVE Cycle
  <2>1. FlashMemory' = FlashMemory
    BY <1>3 DEF RequestStep, Prefill, WriteRequest, ReadRequest, WritewithFTL, ReadStep, ReadHit,
       ReadMiss, GCStep, GCDone, GCVictim, GCNoVictim, GCCrash, memVars
  <2> QED BY <2>1, <1>2
<1>4. ASSUME IInv, WriteStep PROVE Cycle
  <2>1. CASE RoomGet \/ RoomGC \/ NextCluster
    <3>1. FlashMemory' = FlashMemory
      BY <2>1 DEF RoomGet, RoomGC, NextCluster, memVars
    <3> QED BY <3>1, <1>2
  <2>2. CASE WriteCluster
    <3>1. request.NowCluster \in Cluster
      BY <1>4 DEF IInv, TypeOK
    <3> QED BY <3>1, <2>2, <1>1, <1>4 DEF WriteCluster
  <2> QED BY <2>1, <2>2, <1>4 DEF WriteStep
<1>5. ASSUME IInv, EraseStep PROVE Cycle
  <2> DEFINE v == CurrentScanningBlockID
  <2>0. pc = "erase"
    BY <1>5 DEF EraseStep, EraseGet, EraseCopy, EraseSkip, EraseFinish
  <2>1. CASE EraseGet \/ EraseSkip
    <3>1. FlashMemory' = FlashMemory
      BY <2>1 DEF EraseGet, EraseSkip, memVars
    <3> QED BY <3>1, <1>2
  <2>2. v \in GoodBlocks /\ i \in 0 .. MaxPage
    BY <2>0, <1>5 DEF IInv, EraseInv, Victim, TypeOK
  <2>3. CASE EraseCopy
    <3>1. i \in Page
      BY <2>2, <2>3, SizeAssumption DEF EraseCopy, Page
    <3>2. FlashMemory[v][i] \in Cluster
      BY <2>2, <2>3, <3>1, <1>5 DEF EraseCopy, Live, IInv, TypeOK, Mark, BadBlocksIntact, GoodBlocks
    <3> QED BY <3>2, <2>3, <1>1, <1>5 DEF EraseCopy
  <2>4. CASE EraseFinish
    <3>1. \A p \in Page : FlashMemory[v][p] \notin Cluster
      BY <2>0, <2>4, <1>5, SizeAssumption DEF EraseFinish, IInv, EraseInv, Victim, Page
    <3>2. \A p \in Page : FlashMemory[v][p] \in {FREE_PAGE, INVALID_PAGE}
      BY <3>1, <2>2, <1>5 DEF IInv, TypeOK, Mark, BadBlocksIntact, GoodBlocks
    <3>3. \A b \in Block, p \in Page : FlashMemory'[b][p] =
             IF b = v THEN FREE_PAGE ELSE FlashMemory[b][p]
      BY <2>4, <1>5 DEF EraseFinish, IInv, TypeOK
    <3> QED BY <2>0, <3>2, <3>3
  <2> QED BY <2>1, <2>3, <2>4, <1>5 DEF EraseStep
<1>6. IInv /\ [Next]_vars => [Cycle]_vars
  BY <1>3, <1>4, <1>5 DEF Next
<1>7. Spec => [][Cycle]_vars
  BY <1>6, Invariance, PTL DEF Spec
<1> QED BY <1>7 DEF PageLifeCycle

\* The FTL implements the logical disk: a cluster that was written once can be
\* read at every later moment, whatever garbage collection is doing.
THEOREM ImplementsDisk == Spec => LogicalDiskSpec
<1> DEFINE S == {c \in Cluster : /\ Mapped(c)
                                 /\ FTLTable[c].Page \in Page
                                 /\ FlashMemory[FTLTable[c].Block][FTLTable[c].Page] = c}
<1>1. IInv => S = {c \in Cluster : Mapped(c)}
  BY DEF IInv, MappingConsistent, TablePointsToPage
<1>2. Init => Disk!Init
  BY DEF Init, Disk!Init, Mapped, Unmapped
<1>3. ASSUME IInv, IInv', Next
      PROVE  S' = S \/ \E c \in Cluster : S' = S \cup {c}
  <2>1. S = {c \in Cluster : Mapped(c)} /\ S' = {c \in Cluster : Mapped(c)'}
    <3>1. S = {c \in Cluster : Mapped(c)}
      BY <1>1, <1>3
    <3>2. S' = {c \in Cluster : Mapped(c)'}
      BY <1>3 DEF IInv, MappingConsistent, TablePointsToPage
    <3> QED BY <3>1, <3>2
  <2>2. ASSUME FTLTable' = FTLTable PROVE S' = S
    BY <2>1, <2>2 DEF Mapped
  <2>3. ASSUME NEW c \in Cluster, ~PageFull, FTLWriteOneCluster(c) PROVE S' = S \cup {c}
    <3>1. FTLTable' = [FTLTable EXCEPT ![c] = [Block |-> CurrentFreeBlockID,
                                               Page |-> CurrentFreePageID]]
      BY <2>3 DEF FTLWriteOneCluster
    <3>2. CurrentFreeBlockID # FTL_POINT_TO_NULL
      BY <1>3, <2>3 DEF IInv, WritePointerFresh, FTL_POINT_TO_NULL
    <3>3. \A d \in Cluster : Mapped(d)' <=> Mapped(d) \/ d = c
      BY <3>1, <3>2, <1>3 DEF Mapped, IInv, TypeOK
    <3> QED BY <2>1, <3>3
  <2>4. CASE RequestStep \/ ReadStep \/ GCStep \/ RoomGet \/ RoomGC \/ NextCluster
             \/ EraseGet \/ EraseSkip \/ EraseFinish
    <3>1. FTLTable' = FTLTable
      BY <2>4 DEF RequestStep, Prefill, WriteRequest, ReadRequest, WritewithFTL, ReadStep, ReadHit,
         ReadMiss, GCStep, GCDone, GCVictim, GCNoVictim, GCCrash, RoomGet, RoomGC, NextCluster,
         EraseGet, EraseSkip, EraseFinish, memVars
    <3> QED BY <3>1, <2>2
  <2>5. CASE WriteCluster
    <3>1. request.NowCluster \in Cluster
      BY <1>3 DEF IInv, TypeOK
    <3> QED BY <3>1, <2>3, <2>5 DEF WriteCluster
  <2>6. CASE EraseCopy
    <3>1. /\ CurrentScanningBlockID \in GoodBlocks /\ i \in Page
      BY <2>6, <1>3, SizeAssumption DEF EraseCopy, IInv, EraseInv, Victim, TypeOK, Page
    <3>2. FlashMemory[CurrentScanningBlockID][i] \in Cluster
      BY <3>1, <2>6, <1>3 DEF EraseCopy, Live, IInv, TypeOK, Mark, BadBlocksIntact, GoodBlocks
    <3> QED BY <3>2, <2>3, <2>6 DEF EraseCopy
  <2> QED BY <2>4, <2>5, <2>6, <1>3 DEF Next, WriteStep, EraseStep
<1>4. ASSUME UNCHANGED vars PROVE S' = S
  BY <1>4 DEF vars, memVars, Mapped
<1>5. IInv /\ IInv' /\ [Next]_vars => [Disk!Next]_S
  BY <1>3, <1>4 DEF Disk!Next, Disk!Write
<1>6. Spec => Disk!Spec
  BY <1>2, <1>5, Invariance, PTL DEF Spec, Disk!Spec
<1> QED BY <1>6 DEF LogicalDiskSpec

-----------------------------------------------------------------------------
(* How much slack garbage collection needs.                                 *)

\* A good block that is neither free nor being written has no free page left,
\* and the block being written has none before the write pointer.
FullInv ==
    /\ \A b \in GoodBlocks : b # CurrentFreeBlockID /\ ~InFreeList(b) =>
          \A p \in Page : FlashMemory[b][p] # FREE_PAGE
    /\ CurrentFreeBlockID # -1 =>
          \A p \in 0 .. CurrentFreePageID - 1 : FlashMemory[CurrentFreeBlockID][p] # FREE_PAGE

\* The divider becomes 0 after a round in which every invalid page would have
\* made a victim, and nothing happens after that round but the crash.
DividerInv ==
    /\ InvalidPage2ValidPageDivider = 0 =>
          /\ pc \in {"gc", "crashed"}
          /\ ~HasFreeBlock
          /\ \A b \in Block : b # CurrentFreeBlockID /\ ~InFreeList(b) => InvalidPageCnt[b] = 0
    /\ pc = "crashed" => InvalidPage2ValidPageDivider = 0

LEMMA FullGet ==
    ASSUME IInv, FullInv, PageFull, HasFreeBlock, GetFreeBlock, CurrentFreePageID' = 0,
           UNCHANGED <<FlashMemory, FTLTable>>
    PROVE  FullInv'
<1> DEFINE l == FreeBlockList
<1>1. l \in Seq(GoodBlocks) /\ Len(l) \in Nat /\ DOMAIN l = 1 .. Len(l) /\ Len(l) >= 2
  BY LenProperties, SizeAssumption DEF IInv, TypeOK, HasFreeBlock
<1>2. CurrentFreeBlockID' = l[1] /\ l' = Tail(l)
  BY <1>1 DEF GetFreeBlock
<1>3. l' \in Seq(GoodBlocks) /\ Len(l') = Len(l) - 1 /\ DOMAIN l' = 1 .. Len(l')
      /\ \A k \in 1 .. Len(l') : l'[k] = l[k + 1]
  BY <1>1, <1>2, HeadTailProperties, LenProperties
<1>4. \A b : b # l[1] /\ InFreeList(b) => InFreeList(b)'
  <2> SUFFICES ASSUME NEW k \in 1 .. Len(l), l[k] # l[1]
               PROVE  \E j \in 1 .. Len(l') : l'[j] = l[k]
    BY <1>1, <1>3 DEF InFreeList
  <2>1. k - 1 \in 1 .. Len(l') /\ l'[k - 1] = l[k]
    BY <1>1, <1>3
  <2> QED BY <2>1
<1>5. ASSUME NEW b \in GoodBlocks, b # CurrentFreeBlockID', ~InFreeList(b)', NEW p \in Page
      PROVE  FlashMemory[b][p] # FREE_PAGE
  <2>1. ~InFreeList(b)
    BY <1>2, <1>4, <1>5
  <2>2. CASE b # CurrentFreeBlockID
    BY <1>5, <2>1, <2>2 DEF FullInv
  <2>3. CASE b = CurrentFreeBlockID
    <3>1. b # -1 /\ p \in 0 .. CurrentFreePageID - 1
      BY <1>5, SizeAssumption DEF GoodBlocks, Block, Page, PageFull, IInv, TypeOK
    <3> QED BY <2>3, <3>1 DEF FullInv
  <2> QED BY <2>2, <2>3
<1> QED BY <1>5 DEF FullInv

LEMMA FullWrite ==
    ASSUME IInv, FullInv, ~PageFull, NEW c \in Cluster, FTLWriteOneCluster(c),
           UNCHANGED <<FreeBlockList, CurrentFreeBlockID>>
    PROVE  FullInv'
<1> DEFINE cur == CurrentFreeBlockID
           pg  == CurrentFreePageID
<1>0. /\ cur \in GoodBlocks /\ cur \in Block /\ cur # -1 /\ pg \in Page /\ pg \in Nat
      /\ MaxCluster \in Nat /\ MaxPage \in Nat \ {0}
  BY Sizes, SizeAssumption DEF IInv, TypeOK, PageFull, Page, GoodBlocks
<1>1. FlashMemory[cur][pg] = FREE_PAGE
  BY <1>0 DEF IInv, WritePointerFresh, Page
<1>2. \A b \in Block, p \in Page : FlashMemory'[b][p] =
                IF b = cur /\ p = pg THEN c
                ELSE IF FlashMemory[b][p] = c THEN INVALID_PAGE
                ELSE FlashMemory[b][p]
  BY <1>0, <1>1, WritePages DEF IInv
<1>3. FREE_PAGE \notin Cluster /\ INVALID_PAGE # FREE_PAGE
  BY <1>0 DEF FREE_PAGE, INVALID_PAGE, Cluster
<1>4. CurrentFreePageID' = pg + 1
  BY DEF FTLWriteOneCluster
<1>5. \A b \in Block, p \in Page :
         FlashMemory[b][p] # FREE_PAGE \/ (b = cur /\ p = pg) => FlashMemory'[b][p] # FREE_PAGE
  BY <1>2, <1>3
<1>6. ASSUME NEW p \in 0 .. pg PROVE p \in Page /\ FlashMemory'[cur][p] # FREE_PAGE
  <2>1. p \in Page /\ (p = pg \/ p \in 0 .. pg - 1)
    BY <1>0 DEF Page
  <2>2. p = pg \/ FlashMemory[cur][p] # FREE_PAGE
    BY <1>0, <2>1 DEF FullInv
  <2> QED BY <1>0, <1>5, <2>1, <2>2
<1>7. \A b \in GoodBlocks : b # cur /\ ~InFreeList(b) => \A p \in Page : FlashMemory'[b][p] # FREE_PAGE
  BY <1>5 DEF FullInv, GoodBlocks
<1>8. 0 .. CurrentFreePageID' - 1 = 0 .. pg
  BY <1>0, <1>4
<1>9. \A b : InFreeList(b)' <=> InFreeList(b)
  BY DEF InFreeList
<1> QED BY <1>6, <1>7, <1>8, <1>9 DEF FullInv

LEMMA FullStep ==
    ASSUME IInv, FullInv, [Next]_vars
    PROVE  FullInv'
<1> USE DEF memVars, headVars, scanVars, ctrlVars
<1>1. ASSUME UNCHANGED <<FlashMemory, FreeBlockList, headVars>> PROVE FullInv'
  BY <1>1 DEF FullInv, InFreeList
<1>2. ASSUME RequestStep \/ ReadStep \/ NextCluster \/ GCDone \/ GCNoVictim \/ GCCrash \/ EraseSkip
             \/ UNCHANGED vars
      PROVE  FullInv'
  <2>1. UNCHANGED <<FlashMemory, FreeBlockList, headVars>>
    BY <1>2 DEF RequestStep, Prefill, WriteRequest, ReadRequest, WritewithFTL, ReadStep, ReadHit,
                ReadMiss, NextCluster, GCDone, GCNoVictim, GCCrash, EraseSkip, vars
  <2> QED BY <1>1, <2>1
<1>3. ASSUME RoomGet PROVE FullInv'
  BY <1>3, FullGet DEF RoomGet
<1>4. ASSUME RoomGC PROVE FullInv'
  <2>1. /\ CurrentFreeBlockID' = -1 /\ PageFull
        /\ UNCHANGED <<FlashMemory, FreeBlockList, CurrentFreePageID>>
    BY <1>4 DEF RoomGC, GetFreeBlock
  <2>2. ASSUME NEW b \in GoodBlocks, ~InFreeList(b), NEW p \in Page
        PROVE  FlashMemory[b][p] # FREE_PAGE
    <3>1. CASE b # CurrentFreeBlockID
      BY <2>2, <3>1 DEF FullInv
    <3>2. CASE b = CurrentFreeBlockID
      <4>1. b # -1 /\ p \in 0 .. CurrentFreePageID - 1
        BY <2>1, <2>2, SizeAssumption DEF GoodBlocks, Block, Page, PageFull, IInv, TypeOK
      <4> QED BY <3>2, <4>1 DEF FullInv
    <3> QED BY <3>1, <3>2
  <2> QED BY <2>1, <2>2 DEF FullInv, InFreeList
<1>5. ASSUME WriteCluster PROVE FullInv'
  BY <1>5, FullWrite DEF WriteCluster, IInv, TypeOK
<1>6. ASSUME GCVictim PROVE FullInv'
  <2>1. PICK v : FreeBlockList' = Append(FreeBlockList, v)
    BY <1>6 DEF GCVictim, PutFreeBlock
  <2>2. UNCHANGED <<FlashMemory, headVars>>
    BY <1>6 DEF GCVictim
  <2>3. \A b : InFreeList(b) => InFreeList(b)'
    <3>1. FreeBlockList \in Seq(GoodBlocks) /\ Len(FreeBlockList) \in Nat
          /\ DOMAIN FreeBlockList = 1 .. Len(FreeBlockList)
      BY LenProperties DEF IInv, TypeOK
    <3> QED BY <2>1, <3>1 DEF InFreeList
  <2> QED BY <2>2, <2>3 DEF FullInv
<1>7. ASSUME EraseGet PROVE FullInv'
  <2>1. HasFreeBlock
    BY <1>7, EraseHasBlock
  <2> QED BY <1>7, <2>1, FullGet DEF EraseGet
<1>8. ASSUME EraseCopy PROVE FullInv'
  <2>1. FlashMemory[CurrentScanningBlockID][i] \in Cluster
    <3>1. CurrentScanningBlockID \in GoodBlocks /\ CurrentScanningBlockID \in Block /\ i \in Page
      BY <1>8, SizeAssumption DEF EraseCopy, IInv, EraseInv, Victim, GoodBlocks, TypeOK, Page
    <3> QED BY <3>1, <1>8 DEF EraseCopy, Live, IInv, TypeOK, Mark, BadBlocksIntact, GoodBlocks
  <2> QED BY <1>8, <2>1, FullWrite DEF EraseCopy
<1>9. ASSUME EraseFinish PROVE FullInv'
  <2> DEFINE v == CurrentScanningBlockID
  <2>1. /\ FlashMemory' = [FlashMemory EXCEPT ![v] = [p \in Page |-> FREE_PAGE]]
        /\ UNCHANGED <<FreeBlockList, headVars>> /\ pc = "erase"
    BY <1>9 DEF EraseFinish
  <2>2. v \in Block /\ InFreeList(v) /\ v # CurrentFreeBlockID
    <3>1. /\ v \in GoodBlocks /\ FreeBlockList[Len(FreeBlockList)] = v
          /\ Len(FreeBlockList) \in {LeastBlocks, LeastBlocks + 1}
          /\ DOMAIN FreeBlockList = 1 .. Len(FreeBlockList)
      <4>1. FreeBlockList \in Seq(GoodBlocks)
        BY DEF IInv, TypeOK
      <4> QED BY <2>1, <4>1, LenProperties DEF IInv, EraseInv, Victim
    <3>2. Len(FreeBlockList) \in 1 .. Len(FreeBlockList)
      <4>1. LeastBlocks \in Nat /\ LeastBlocks >= 1
        BY SizeAssumption
      <4>2. Len(FreeBlockList) = LeastBlocks \/ Len(FreeBlockList) = LeastBlocks + 1
        BY <3>1
      <4>3. Len(FreeBlockList) \in Nat /\ Len(FreeBlockList) >= 1
        BY <4>1, <4>2
      <4> QED BY <4>3
    <3>3. InFreeList(v)
      BY <3>1, <3>2 DEF InFreeList
    <3> QED BY <3>1, <3>3 DEF IInv, FreeListSound, GoodBlocks
  <2>3. \A b \in Block : b # v => FlashMemory'[b] = FlashMemory[b]
    BY <2>1 DEF IInv, TypeOK
  <2>4. CurrentFreeBlockID # -1 => CurrentFreeBlockID \in Block
    BY DEF IInv, TypeOK, GoodBlocks
  <2>5. \A b : InFreeList(b)' <=> InFreeList(b)
    BY <2>1 DEF InFreeList
  <2> QED BY <2>1, <2>2, <2>3, <2>4, <2>5 DEF FullInv, GoodBlocks
<1> QED BY <1>2, <1>3, <1>4, <1>5, <1>6, <1>7, <1>8, <1>9
        DEF Next, WriteStep, GCStep, EraseStep

LEMMA DividerStep ==
    ASSUME IInv, DividerInv, [Next]_vars
    PROVE  DividerInv'
<1> USE DEF memVars, headVars, scanVars, ctrlVars
<1> DEFINE d == InvalidPage2ValidPageDivider
<1>1. ASSUME RequestStep \/ ReadStep \/ WriteStep \/ EraseStep \/ GCDone \/ GCVictim
      PROVE  DividerInv'
  <2>1. d' = d /\ d # 0
    BY <1>1 DEF DividerInv, RequestStep, Prefill, WriteRequest, ReadRequest, WritewithFTL, ReadStep,
         ReadHit, ReadMiss, WriteStep, RoomGet, RoomGC, WriteCluster, NextCluster, EraseStep,
         EraseGet, EraseCopy, EraseSkip, EraseFinish, GCDone, GCVictim
  <2>2. pc' # "crashed"
    BY <1>1, <2>1 DEF DividerInv, RequestStep, Prefill, WriteRequest, ReadRequest, WritewithFTL, Start,
         ReadStep, ReadHit, ReadMiss, Advance, WriteStep, RoomGet, RoomGC, WriteCluster, NextCluster,
         EraseStep, EraseGet, EraseCopy, EraseSkip, EraseFinish, GCDone, GCVictim
  <2> QED BY <2>1, <2>2 DEF DividerInv
<1>2. ASSUME GCNoVictim PROVE DividerInv'
  <2>1. /\ pc = "gc" /\ pc' = pc /\ ~HasFreeBlock /\ d # 0 /\ d' = Double32(d)
        /\ \A b \in Block : ~IsVictim(b)
        /\ UNCHANGED <<FreeBlockList, CurrentFreeBlockID, InvalidPageCnt>>
    BY <1>2 DEF GCNoVictim
  <2>2. ASSUME d' = 0, NEW b \in Block, b # CurrentFreeBlockID, ~InFreeList(b)
        PROVE  InvalidPageCnt[b] = 0
    <3>1. d = MinInt32 /\ ~(d > 0)
      BY <2>1, <2>2 DEF Double32, MinInt32, IInv, TypeOK
    <3>2. ~(InvalidPageCnt[b] > 0)
      BY <2>1, <2>2, <3>1 DEF IsVictim, Quotient
    <3> QED BY <3>2, SizeAssumption DEF IInv, TypeOK
  <2> QED BY <2>1, <2>2 DEF DividerInv, HasFreeBlock, InFreeList
<1>3. ASSUME GCCrash PROVE DividerInv'
  BY <1>3 DEF GCCrash, DividerInv, HasFreeBlock, InFreeList
<1>4. ASSUME UNCHANGED vars PROVE DividerInv'
  BY <1>4 DEF vars, DividerInv, HasFreeBlock, InFreeList
<1> QED BY <1>1, <1>2, <1>3, <1>4 DEF Next, GCStep

\* If the process is killed, the clusters fill all good blocks outside the
\* reserve but the one being written: (block, page) to cluster is one to one.
LEMMA CrashWhenFull ==
    ASSUME IInv, FullInv, DividerInv
    PROVE  SlackSuffices
<1> SUFFICES ASSUME pc = "crashed"
             PROVE  Cardinality({c \in Cluster : Mapped(c)}) >=
                       (MaxBlock - Cardinality(BadBlocks) - LeastBlocks - 1) * MaxPage
  BY DEF SlackSuffices
<1> DEFINE l     == FreeBlockList
           Free  == {b \in GoodBlocks : InFreeList(b)}
           Spare == Free \cup {CurrentFreeBlockID}
           Full  == GoodBlocks \ Spare
           M     == {c \in Cluster : Mapped(c)}
           f     == [x \in Full \X Page |-> FlashMemory[x[1]][x[2]]]
<1>1. /\ \A b \in Block : b # CurrentFreeBlockID /\ ~InFreeList(b) => InvalidPageCnt[b] = 0
      /\ ~HasFreeBlock
  BY DEF DividerInv
<1>2. l \in Seq(GoodBlocks) /\ Len(l) \in Nat /\ DOMAIN l = 1 .. Len(l) /\ Len(l) <= LeastBlocks
  BY <1>1, LenProperties, SizeAssumption DEF IInv, TypeOK, HasFreeBlock
<1>3. /\ IsFiniteSet(GoodBlocks) /\ Cardinality(GoodBlocks) = MaxBlock - Cardinality(BadBlocks)
      /\ IsFiniteSet(Page) /\ Cardinality(Page) = MaxPage /\ MaxPage \in Nat
      /\ MaxBlock - Cardinality(BadBlocks) \in Int /\ MaxCluster \in Nat
  <2>1. IsFiniteSet(Block)
    BY SizeAssumption, FS_Interval DEF Block
  <2>2. IsFiniteSet(GoodBlocks)
    BY <2>1, FS_Subset DEF GoodBlocks
  <2> QED BY <2>2, Sizes, SizeAssumption DEF DataBlocks
<1>4. IsFiniteSet(Free) /\ Cardinality(Free) <= LeastBlocks /\ Cardinality(Free) \in Nat
  <2>1. l \in Surjection(1 .. Len(l), Free)
    <3>1. l \in [1 .. Len(l) -> GoodBlocks]
      BY <1>2, LenProperties
    <3>2. \A k \in 1 .. Len(l) : l[k] \in Free
      BY <1>2, <3>1 DEF InFreeList
    <3>3. \A b \in Free : \E k \in 1 .. Len(l) : l[k] = b
      BY <1>2 DEF InFreeList
    <3>4. l \in [1 .. Len(l) -> Free]
      BY <3>1, <3>2
    <3> QED BY <3>3, <3>4 DEF Surjection
  <2>2. IsFiniteSet(1 .. Len(l)) /\ Cardinality(1 .. Len(l)) = Len(l)
    BY <1>2, FS_Interval
  <2>3. IsFiniteSet(Free) /\ Cardinality(Free) <= Len(l)
    BY <2>1, <2>2, FS_Surjection
  <2>4. Cardinality(Free) \in Nat
    BY <2>3, FS_CardinalityType
  <2> QED BY <1>2, <2>3, <2>4, SizeAssumption
<1>5. IsFiniteSet(Spare) /\ Cardinality(Spare) <= LeastBlocks + 1 /\ Cardinality(Spare) \in Nat
  <2>1. IsFiniteSet(Spare)
        /\ Cardinality(Spare) = IF CurrentFreeBlockID \in Free THEN Cardinality(Free)
                                ELSE Cardinality(Free) + 1
    BY <1>4, FS_AddElement
  <2> QED BY <1>4, <2>1, SizeAssumption
<1>6. /\ IsFiniteSet(Full) /\ Cardinality(Full) \in Nat
      /\ Cardinality(Full) >= MaxBlock - Cardinality(BadBlocks) - LeastBlocks - 1
  <2>1. /\ IsFiniteSet(Full)
        /\ Cardinality(Full) = Cardinality(GoodBlocks) - Cardinality(GoodBlocks \cap Spare)
    BY <1>3, <1>5, FS_Difference
  <2>2. Cardinality(GoodBlocks \cap Spare) <= Cardinality(Spare)
        /\ Cardinality(GoodBlocks \cap Spare) \in Nat
    <3>1. GoodBlocks \cap Spare \in SUBSET Spare
      OBVIOUS
    <3> QED BY <1>5, <3>1, FS_Subset, FS_CardinalityType
  <2>3. Cardinality(Full) \in Nat
    BY <2>1, FS_CardinalityType
  <2> QED BY <1>3, <1>5, <2>1, <2>2, <2>3, SizeAssumption
<1>7. ASSUME NEW b \in Full, NEW p \in Page
      PROVE  FlashMemory[b][p] \in M /\ FTLTable[FlashMemory[b][p]] = [Block |-> b, Page |-> p]
  <2>1. b \in GoodBlocks /\ b \in Block /\ b # CurrentFreeBlockID /\ ~InFreeList(b) /\ b # -1
    BY SizeAssumption DEF GoodBlocks, Block
  <2>2. FlashMemory[b][p] # FREE_PAGE
    BY <2>1 DEF FullInv
  <2>3. FlashMemory[b][p] # INVALID_PAGE
    <3>1. InvalidPageCnt[b] = 0 /\ InvalidPageCnt[b] = Cardinality(InvalidPages(b))
      BY <1>1, <2>1 DEF IInv, CountersExact
    <3>2. InvalidPages(b) = {}
      BY <3>1, PageSets, FS_EmptySet DEF InvalidPages
    <3> QED BY <3>2 DEF InvalidPages
  <2>4. FlashMemory[b][p] \in Cluster
    BY <2>1, <2>2, <2>3 DEF IInv, TypeOK, Mark, BadBlocksIntact, GoodBlocks
  <2>5. FTLTable[FlashMemory[b][p]] = [Block |-> b, Page |-> p]
    BY <2>1, <2>4 DEF IInv, MappingConsistent, PageIsInTable
  <2> QED BY <2>1, <2>4, <2>5 DEF Mapped, FTL_POINT_TO_NULL
<1>8. f \in Injection(Full \X Page, M)
  <2>1. f \in [Full \X Page -> M]
    BY <1>7
  <2>2. ASSUME NEW x \in Full \X Page, NEW y \in Full \X Page, f[x] = f[y]
        PROVE  x = y
    <3>1. [Block |-> x[1], Page |-> x[2]] = [Block |-> y[1], Page |-> y[2]]
      BY <1>7, <2>2
    <3>2. x[1] = y[1] /\ x[2] = y[2]
      BY <3>1
    <3> QED BY <3>2
  <2> QED BY <2>1, <2>2 DEF Injection, IsInjective
<1>9. IsFiniteSet(M) /\ Cardinality(M) \in Nat
  <2>1. IsFiniteSet(Cluster)
    BY <1>3, FS_Interval DEF Cluster
  <2> QED BY <2>1, FS_Subset, FS_CardinalityType
<1>10. Cardinality(Full \X Page) <= Cardinality(M)
       /\ Cardinality(Full \X Page) = Cardinality(Full) * MaxPage
  <2>1. Cardinality(Full \X Page) = Cardinality(Full) * Cardinality(Page)
    BY <1>3, <1>6, FS_Product
  <2>2. Cardinality(Full \X Page) <= Cardinality(M)
    BY <1>8, <1>9, FS_Injection
  <2> QED BY <1>3, <2>1, <2>2
<1> DEFINE need == MaxBlock - Cardinality(BadBlocks) - LeastBlocks - 1
           full == Cardinality(Full)
<1>11. need \in Int /\ full \in Nat /\ full >= need
  BY <1>3, <1>6, SizeAssumption
<1> HIDE DEF need, full
<1>12. need * MaxPage <= full * MaxPage
  BY <1>3, <1>11
<1>13. full * MaxPage <= Cardinality(M) /\ full * MaxPage \in Int /\ need * MaxPage \in Int
  BY <1>3, <1>9, <1>10, <1>11 DEF full
<1> QED BY <1>9, <1>12, <1>13 DEF need

\* Every good block is in the random order of InitializeFlashMemory, so it is
\* the first block to write or on the free list.
LEMMA OrdersCover ==
    ASSUME NEW o \in Orders, CurrentFreeBlockID = Head(o), FreeBlockList = Tail(o),
           NEW b \in GoodBlocks
    PROVE  b = CurrentFreeBlockID \/ InFreeList(b)
<1> DEFINE n == DataBlocks + LeastBlocks
<1>1. /\ o \in [1 .. n -> GoodBlocks] /\ n \in Nat /\ n >= 2 /\ Cardinality(GoodBlocks) = n
      /\ \A x, y \in 1 .. n : o[x] = o[y] => x = y
  BY Sizes, SizeAssumption DEF Orders
<1>2. IsFiniteSet(GoodBlocks)
  <2>1. IsFiniteSet(Block)
    BY SizeAssumption, FS_Interval DEF Block
  <2> QED BY <2>1, FS_Subset DEF GoodBlocks
<1> HIDE DEF n
<1>3. o \in Surjection(1 .. n, GoodBlocks)
  <2>1. o \in Injection(1 .. n, GoodBlocks)
    BY <1>1 DEF Injection, IsInjective
  <2>2. Cardinality(1 .. n) = n
    BY <1>1, FS_Interval
  <2> QED BY <1>1, <1>2, <2>1, <2>2, FS_Injection
<1>4. PICK k \in 1 .. n : o[k] = b
  BY <1>3 DEF Surjection
<1>5. o \in Seq(GoodBlocks) /\ Len(o) = n
  BY <1>1
<1>6. /\ o # << >> /\ Head(o) = o[1]
      /\ Tail(o) \in Seq(GoodBlocks) /\ Len(Tail(o)) = n - 1
      /\ \A j \in 1 .. n - 1 : Tail(o)[j] = o[j + 1]
  BY <1>1, <1>5, HeadTailProperties
<1>7. ASSUME k # 1 PROVE InFreeList(b)
  <2>1. k - 1 \in 1 .. n - 1 /\ FreeBlockList[k - 1] = b
    BY <1>1, <1>4, <1>6, <1>7
  <2>2. DOMAIN FreeBlockList = 1 .. n - 1
    BY <1>6, LenProperties
  <2> QED BY <2>1, <2>2 DEF InFreeList
<1> QED BY <1>4, <1>6, <1>7

\* Garbage collection can kill the process only when live clusters could fill
\* every block beside the bad ones, the reserve and the block being written.
THEOREM SlackSufficesHolds == Spec => []SlackSuffices
<1>1. Init => FullInv /\ DividerInv
  <2> SUFFICES ASSUME Init PROVE FullInv /\ DividerInv
    OBVIOUS
  <2>1. DividerInv
    BY DEF Init, DividerInv
  <2>2. PICK o \in Orders : CurrentFreeBlockID = Head(o) /\ FreeBlockList = Tail(o)
    BY DEF Init
  <2>3. \A b \in GoodBlocks : b = CurrentFreeBlockID \/ InFreeList(b)
    BY <2>2, OrdersCover
  <2> QED BY <2>1, <2>3 DEF FullInv, Init
<1>2. IInv /\ FullInv /\ DividerInv /\ [Next]_vars => FullInv' /\ DividerInv'
  BY FullStep, DividerStep
<1> QED BY <1>1, <1>2, CrashWhenFull, Invariance, PTL DEF Spec
=============================================================================
