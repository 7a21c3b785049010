--------------------------------- MODULE BL ---------------------------------
(***************************************************************************)
(* Block-level mapping: Flash/BL.c.                                        *)
(*                                                                         *)
(* Written clusters of one logical block are gathered in UpdatedClusters;  *)
(* a cluster of another logical block, a read, or the end of the trace     *)
(* flushes them into a fresh physical block together with the live pages   *)
(* of the old one, which is erased.                                        *)
(*                                                                         *)
(*   s.table  BLTable       s.updated, s.accessed  UpdatedClusters and     *)
(*                          CurrentAccessedBlock (-1: nothing gathered)    *)
(***************************************************************************)
EXTENDS Flash

BL_POINT_TO_NULL == -1

InitializeBL(order) ==
    [table |-> [l \in Block |-> BL_POINT_TO_NULL], updated |-> Blank, accessed |-> -1]
        @@ InitializeFlashMemory(order)

BLReadOneCluster(s, c) ==
    LET b == s.table[c \div MaxPage]
    IN  IF b = BL_POINT_TO_NULL THEN FREE_PAGE
        ELSE IF s.mem[b][c % MaxPage].cluster = c THEN s.mem[b][c % MaxPage] ELSE FREE_PAGE

\* Mutant: a block is taken before the old one is given back.
BLUpdateTakingFirst(s, l) ==
    LET old == s.table[l]
        g == GetFreeBlock(s, FALSE)
        new == [p \in Page |-> IF Live(s.updated[p]) THEN s.updated[p]
                               ELSE IF old # BL_POINT_TO_NULL /\ Live(s.mem[old][p])
                               THEN s.mem[old][p] ELSE FREE_PAGE]
        put == [g.s EXCEPT !.mem[g.block] = new, !.table[l] = g.block,
                           !.valid[g.block] = Cardinality({p \in Page : Live(new[p])})]
    IN  IF g.block = -1 THEN Die(g.s, "exit")
        ELSE IF old = BL_POINT_TO_NULL THEN put
        ELSE PutFreeBlock([put EXCEPT !.mem[old] = Blank, !.invalid[old] = 0], old)

\* BLUpdateOneBlock: the old block goes to the free list, then a block is taken.
BLUpdateOneBlock(s, l) ==
    LET old == s.table[l]
        g == GetFreeBlock(IF old = BL_POINT_TO_NULL THEN s ELSE PutFreeBlock(s, old), FALSE)
        new == [p \in Page |-> IF Live(s.updated[p]) THEN s.updated[p]
                               ELSE IF old # BL_POINT_TO_NULL /\ Live(s.mem[old][p])
                               THEN s.mem[old][p] ELSE FREE_PAGE]
        put == [g.s EXCEPT !.mem[g.block] = new,
                           !.valid[g.block] = Cardinality({p \in Page : Live(new[p])})]
    IN  IF g.block = -1 THEN Die(g.s, "exit")
        ELSE [IF old = BL_POINT_TO_NULL THEN put
              ELSE [put EXCEPT !.mem[old] = Blank, !.invalid[old] = 0]
                EXCEPT !.table[l] = g.block]

\* Write what is gathered, and reset the array.
BLFlush(s) ==
    IF s.accessed = -1 THEN s
    ELSE [BLUpdateOneBlock(s, s.accessed) EXCEPT !.updated = Blank, !.accessed = -1]

\* One cluster of a write request in BLSimulation.
BLWriteOneCluster(s, pg) ==
    LET l == pg.cluster \div MaxPage
        f == IF s.accessed # l THEN BLFlush(s) ELSE s
    IN  [f EXCEPT !.updated[pg.cluster % MaxPage] = pg, !.accessed = l]
\* One request of BLSimulation: a read flushes what is gathered.
BLRequest(s, write, pgs) ==
    IF ~write THEN BLFlush(s)
    ELSE FoldLeft(LAMBDA r, g : IF r.dead # "" THEN r ELSE BLWriteOneCluster(r, g), s, pgs)

\* The initial fill of BLSimulation: one update a block.
BLFill(s, fill) == BLFlush(BLRequest(s, TRUE, FillPages(fill)))
=============================================================================
