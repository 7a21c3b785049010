-------------------------------- MODULE DFTL --------------------------------
(***************************************************************************)
(* The demand-cached page mapping: Flash/DFTL.c with Flash/LRUListDFTL.c.  *)
(*                                                                         *)
(* The mapping table has an entry for every cluster; an LRU list (the CMT) *)
(* holds the entries that would be in memory.  Blocks for the table itself *)
(* are taken from the free list when the scheme starts.  Clusters are      *)
(* written at the current data block; garbage collection moves the live    *)
(* pages of the block with the most invalid pages.                         *)
(*                                                                         *)
(*   s.table      DFTLTable: block, page and LruOffset of a cluster        *)
(*   s.cur, s.page   currentDataBlkNum, currentDataBlkPageNum              *)
(*   s.cmt        CMTLRUList                                               *)
(*   s.stray      the key read at index -1 of the list's array             *)
(***************************************************************************)
EXTENDS Flash, LRUList

CONSTANTS gmtBlkCount,    \* blocks of the mapping table
          cmtListLength   \* entries of the cached mapping table

DFTL_POINT_TO_NULL == -1
DFTLUnmapped == [Block |-> -1, Page |-> -1, LruOffset |-> -1]

-----------------------------------------------------------------------------
(* The list of LRUListDFTL.c, a copy of the one in LRUList.c: only the     *)
(* price of evicting a dirty entry (a time, left out) was added.           *)
CreateLRUListD(len) == CreateLRUList(len)
PutElementToFreeElementListD(l, pos) == PutElementToFreeElementList(l, pos)
GetElementFromFreeElementListD(l) == GetElementFromFreeElementList(l)
SetElementDirtyD(l, key, pos) == SetElementDirty(l, key, pos)
MoveElemenetToTheHeadofLRUListD(l, key, pos) == MoveElemenetToTheHeadofLRUList(l, key, pos)

\* The table entry of the evicted cluster keeps its LruOffset.
RemoveTheTailElemenetFromLRUListD(l) ==
    LET before == l.Element[l.Tail].previous
        cut == IF l.Len > 1 THEN [l EXCEPT !.Tail = before, !.Element[before].next = NULL] ELSE l
    IN  PutElementToFreeElementListD([cut EXCEPT !.Len = @ - 1], l.Tail)

\* False, here the unchanged list, if no element is free.
PutElementToTheHeadOfLRUListD(l, key) ==
    LET g == GetElementFromFreeElementListD(l)
        keyed == [g.l EXCEPT !.Element[g.pos].key = key, !.Len = @ + 1]
        first == [keyed EXCEPT !.Element[g.pos].next = NULL, !.Element[g.pos].previous = NULL,
                               !.Head = g.pos, !.Tail = g.pos]
    IN  IF l.FreeLen = 0 THEN [l |-> l, pos |-> NULL]
        ELSE [l |-> IF keyed.Len = 1 THEN first ELSE LinkAtHead(keyed, g.pos), pos |-> g.pos]

PutElemenetToLRUListD(l, key) ==
    LET put == PutElementToTheHeadOfLRUListD(l, key)
    IN  IF put.pos # NULL THEN put
        ELSE PutElementToTheHeadOfLRUListD(RemoveTheTailElemenetFromLRUListD(l), key)

\* Only called with position -1: the key compared is the one in front of the
\* array, and if it is c the element there is put into the free list.
RemoveElemenetFromLRUListD(s, c) ==
    IF s.stray = c THEN Die(s, "wild write") ELSE s
-----------------------------------------------------------------------------

\* The scan of DFTLGarbageCollection: the first block with the most invalid
\* pages, among the blocks whose first page is neither free nor bad.
DFTLVictim(s) ==
    LET used == {b \in Block : s.mem[b][0] # FREE_PAGE /\ s.mem[b][0] # BAD_BLOCK}
        most == {b \in used : s.invalid[b] > 0 /\ \A a \in used : s.invalid[a] <= s.invalid[b]}
    IN  IF most = {} THEN -1 ELSE CHOOSE b \in most : \A a \in most : b <= a

\* The block taken becomes the current data block.
UseBlock(g) == [g.s EXCEPT !.cur = g.block, !.page = 0]

\* The next page of the current data block is programmed and mapped.
ProgramPage(s, pg) ==
    IF s.dead # "" THEN s
    ELSE [s EXCEPT !.mem[s.cur][s.page] = pg, !.valid[s.cur] = @ + 1, !.page = @ + 1,
                   !.table[pg.cluster].Block = s.cur, !.table[pg.cluster].Page = s.page]

\* One page of the copy loop in DFTLEraseOneBlock.  A new block is taken, from the
\* reserve if need be, whenever the current one is full.  The removal of the entry
\* from the CMT is called with position -1.
DFTLMovePage(s, victim, p) ==
    LET pg == s.mem[victim][p]
        uncache(r) == IF r.table[pg.cluster].LruOffset # DFTL_POINT_TO_NULL
                      THEN RemoveElemenetFromLRUListD(r, pg.cluster) ELSE r
        room == IF s.page >= MaxPage THEN UseBlock(GetFreeBlock(s, TRUE)) ELSE s
    IN  IF s.dead # "" THEN s
        ELSE IF room.dead # "" \/ pg = INVALID_PAGE \/ pg = FREE_PAGE THEN room
        ELSE ProgramPage(uncache(room), pg)

FreeVictim(s, victim) ==
    IF s.dead # "" THEN s
    ELSE PutFreeBlock([s EXCEPT !.mem[victim] = Blank, !.invalid[victim] = 0,
                                !.valid[victim] = 0], victim)
DFTLEraseOneBlock(s, victim) ==
    FreeVictim(FoldLeft(LAMBDA r, p : DFTLMovePage(r, victim, p), s, Pages), victim)

RECURSIVE DFTLGarbageCollection(_)
DFTLGarbageCollection(s) ==
    IF s.dead # "" \/ CheckFreeBlock(s) THEN s
    ELSE IF DFTLVictim(s) = -1 THEN Die(s, "exit")
    ELSE DFTLGarbageCollection(DFTLEraseOneBlock(s, DFTLVictim(s)))

\* AllocateDataBlk(False): after a collection another block is taken, even when
\* the collection left a block with free pages.
AllocateDataBlk(s) ==
    LET take(r) == IF r.dead # "" THEN r ELSE UseBlock(GetFreeBlock(r, FALSE))
    IN  IF s.page < MaxPage /\ s.cur # DFTL_POINT_TO_NULL THEN s
        ELSE take(DFTLGarbageCollection(s))

\* InitializeDFTL: gmtBlkCount blocks for the table, then a data block.
RECURSIVE TakeGMTBlocks(_, _)
TakeGMTBlocks(s, n) ==
    LET g == GetFreeBlock(s, FALSE)
    IN  IF n = 0 THEN s
        ELSE TakeGMTBlocks([g.s EXCEPT !.mem[g.block] = [p \in Page |-> VALID_PAGE]], n - 1)

InitializeDFTL(order, stray) ==
    AllocateDataBlk(TakeGMTBlocks(
        [table |-> [c \in 0 .. MaxCluster - 1 |-> DFTLUnmapped],
         cur |-> DFTL_POINT_TO_NULL, page |-> 0,
         cmt |-> CreateLRUListD(cmtListLength), stray |-> stray]
            @@ InitializeFlashMemory(order), gmtBlkCount))

\* What an access does to the CMT.  An entry with an LruOffset counts as a hit,
\* and its offset becomes the head of the list, whatever key is there.
DFTLTouch(s, c) ==
    LET e == s.table[c]
        put == PutElemenetToLRUListD(s.cmt, c)
    IN  IF e.LruOffset # DFTL_POINT_TO_NULL
        THEN LET moved == MoveElemenetToTheHeadofLRUListD(s.cmt, c, e.LruOffset)
             IN  [s EXCEPT !.cmt = moved, !.table[c].LruOffset = moved.Head]
        ELSE [s EXCEPT !.cmt = put.l, !.table[c].LruOffset = put.pos]

DFTLReadOneCluster(s, c) ==
    LET e == s.table[c]
    IN  IF e.LruOffset = DFTL_POINT_TO_NULL /\ e.Block = DFTL_POINT_TO_NULL
        THEN [s |-> s, page |-> FREE_PAGE]
        ELSE [s |-> DFTLTouch(s, c), page |-> s.mem[e.Block][e.Page]]

\* DFTLWriteOneCluster: make room first, then invalidate the old copy.  The valid
\* pages of the old block are not counted down.
DFTLWriteOneCluster(s, pg) ==
    LET c == pg.cluster
        soil(r) == [r EXCEPT !.cmt = SetElementDirtyD(@, c, r.table[c].LruOffset)]
        forget(r) == IF r.table[c].Block = DFTL_POINT_TO_NULL THEN r
                     ELSE Invalidate(r, r.table[c].Block, r.table[c].Page)
        update(r) == IF r.dead # "" THEN r ELSE ProgramPage(forget(soil(DFTLTouch(r, c))), pg)
    IN  update(IF s.page >= MaxPage THEN AllocateDataBlk(s) ELSE s)
\* One request of DFTLSimulation: a read goes up to the first cluster that was
\* never written.
DFTLRequest(s, write, pgs) ==
    IF write
    THEN FoldLeft(LAMBDA r, g : IF r.dead # "" THEN r ELSE DFTLWriteOneCluster(r, g), s, pgs)
    ELSE FoldLeft(LAMBDA r, g : IF r.page = FREE_PAGE THEN r ELSE DFTLReadOneCluster(r.s, g.cluster),
                  [s |-> s, page |-> VALID_PAGE], pgs).s

\* The initial fill of DFTLSimulation (of whole blocks; the code draws each cluster).
DFTLFill(s, fill) == DFTLRequest(s, TRUE, FillPages(fill))
=============================================================================
