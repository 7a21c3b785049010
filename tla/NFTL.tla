-------------------------------- MODULE NFTL --------------------------------
(***************************************************************************)
(* The block-mapped scheme with replacement blocks: Flash/NFTL.c.          *)
(*                                                                         *)
(* A logical block has a primary block, where a cluster lives at its own   *)
(* offset and pages are written in ascending order only (MLC), and may     *)
(* have a replacement block that is written from its first page on.  A     *)
(* full replacement block is merged with its primary; when the free list   *)
(* is down to its reserve some other logical block is merged.              *)
(*                                                                         *)
(*   s.table  NFTLTable     s.scan, s.div  the statics of the collector    *)
(***************************************************************************)
EXTENDS Flash

NFTL_POINT_TO_NULL == -1
NFTLNull == [Primary |-> -1, PBPage |-> -1, Replacement |-> -1, RBPage |-> -1]

InitializeNFTL(order) ==
    [table |-> [l \in Block |-> NFTLNull], scan |-> -1, div |-> 1]
        @@ InitializeFlashMemory(order)

\* The last page of the replacement block that holds the cluster, or -1.
SearchReplacement(s, l, c) ==
    LET t == s.table[l]
        at == {i \in 0 .. t.RBPage - 1 : s.mem[t.Replacement][i].cluster = c}
    IN  IF t.Replacement = NFTL_POINT_TO_NULL \/ at = {} THEN -1
        ELSE CHOOSE i \in at : \A j \in at : j <= i

\* Mutant: the primary block is looked at first, and trusted.
NFTLReadPrimaryFirst(s, c) ==
    LET l == c \div MaxPage  t == s.table[l]  i == SearchReplacement(s, l, c)
    IN  IF t.Primary = NFTL_POINT_TO_NULL THEN FREE_PAGE
        ELSE IF s.mem[t.Primary][c % MaxPage] # FREE_PAGE
        THEN s.mem[t.Primary][c % MaxPage]
        ELSE IF i >= 0 THEN s.mem[t.Replacement][i] ELSE FREE_PAGE

\* The page a read finds, FREE_PAGE if the read fails.
NFTLReadOneCluster(s, c) ==
    LET l == c \div MaxPage  t == s.table[l]  i == SearchReplacement(s, l, c)
    IN  IF t.Primary = NFTL_POINT_TO_NULL THEN FREE_PAGE
        ELSE IF i >= 0 THEN s.mem[t.Replacement][i]
        ELSE IF s.mem[t.Primary][c % MaxPage].cluster = c
        THEN s.mem[t.Primary][c % MaxPage] ELSE FREE_PAGE

\* One turn of the merge's copy loop: page i of the primary, then page i of the
\* replacement block, to the offsets their clusters have in the new block.
CopyBoth(s, t, new, i) ==
    LET pg == s.mem[t.Primary][i]
        rg == s.mem[t.Replacement][i]
        one == IF Live(pg) THEN [new EXCEPT ![i] = pg] ELSE new
    IN  IF Live(rg) THEN [one EXCEPT ![rg.cluster % MaxPage] = rg] ELSE one

\* NFTLMergeBlocks: the two blocks go to the free list first, the new block is
\* taken from its head, and only then are the live pages copied and the old
\* blocks erased.  The result of GetFreeBlock is not checked.
NFTLMergeBlocks(s, l) ==
    LET t == s.table[l]
        g == GetFreeBlock(PutFreeBlock(PutFreeBlock(s, t.Primary), t.Replacement), FALSE)
        new == FoldLeft(LAMBDA m, i : CopyBoth(s, t, m, i), Blank, Pages)
        held == {i \in Page : Live(new[i])}
        copied == Cardinality(LivePages(s, t.Primary)) + Cardinality(LivePages(s, t.Replacement))
    IN  IF g.block = -1 THEN Die(g.s, "wild write")
        ELSE [g.s EXCEPT
            !.mem = [@ EXCEPT ![g.block] = new, ![t.Primary] = Blank, ![t.Replacement] = Blank],
            !.valid = [@ EXCEPT ![g.block] = copied, ![t.Primary] = 0, ![t.Replacement] = 0],
            !.invalid = [@ EXCEPT ![t.Primary] = 0, ![t.Replacement] = 0],
            !.table[l] = [Primary |-> g.block,
                          PBPage |-> IF held = {} THEN 0
                                     ELSE 1 + CHOOSE i \in held : \A j \in held : j <= i,
                          Replacement |-> NFTL_POINT_TO_NULL, RBPage |-> NFTL_POINT_TO_NULL]]

MoreInvalid(s, b) == s.invalid[b] > s.valid[b] \div s.div

\* NFTLGarbageCollection: merge the next logical block whose primary or
\* replacement block has more invalid pages than valid ones over the divider.
\* A pass without a victim doubles the divider; once it exceeds MaxPage further
\* passes see the same and it overflows to 0: a division by zero.
NFTLGarbageCollection(s, NotToReclaim) ==
    LET set(k) == (s.scan + k) % MaxBlock
        victims == {k \in 1 .. MaxBlock :
                      LET t == s.table[set(k)] IN
                        IF t.Primary = NFTL_POINT_TO_NULL \/ t.Replacement = NFTL_POINT_TO_NULL
                        THEN FALSE
                        ELSE /\ MoreInvalid(s, t.Primary) \/ MoreInvalid(s, t.Replacement)
                             /\ set(k) # NotToReclaim}
        first == CHOOSE k \in victims : \A j \in victims : k <= j
    IN  IF victims # {} THEN NFTLMergeBlocks([s EXCEPT !.scan = set(first)], set(first))
        ELSE IF s.div > MaxPage THEN Die(s, "division by zero")
        ELSE [s EXCEPT !.div = 2 * @]

RECURSIVE NFTLGetBlock(_, _)
\* while((FreeBlock = GetFreeBlock(False)) == -1) NFTLGarbageCollection(l)
NFTLGetBlock(s, l) ==
    LET g == GetFreeBlock(s, FALSE)
    IN  IF s.dead # "" \/ g.block # -1 THEN g
        ELSE NFTLGetBlock(NFTLGarbageCollection(s, l), l)

GiveReplacement(g, l) ==
    IF g.s.dead # "" THEN g.s
    ELSE [g.s EXCEPT !.table[l].Replacement = g.block, !.table[l].RBPage = 0]

RECURSIVE EnsureReplacement(_, _)
\* The loop that leaves the logical block with a replacement block that has a free page.
EnsureReplacement(s, l) ==
    IF s.dead # "" THEN s
    ELSE IF s.table[l].Replacement = NFTL_POINT_TO_NULL THEN GiveReplacement(NFTLGetBlock(s, l), l)
    ELSE IF s.table[l].RBPage >= MaxPage THEN EnsureReplacement(NFTLMergeBlocks(s, l), l)
    ELSE s

WriteReplacement(s, l, pg) ==
    LET t == s.table[l]
    IN  [s EXCEPT !.mem[t.Replacement][t.RBPage] = pg, !.table[l].RBPage = @ + 1]

\* Cases 2, 3 and 4 of NFTLWriteOneCluster, on a logical block whose replacement
\* block has a free page.
NFTLOverwrite(s, pg) ==
    LET l == pg.cluster \div MaxPage
        p == pg.cluster % MaxPage
        t == s.table[l]
        old == s.mem[t.Primary][p]
        i == SearchReplacement(s, l, pg.cluster)
    IN  IF s.dead # "" THEN s
        ELSE IF old.cluster = pg.cluster                              \* case 2
        THEN [WriteReplacement(Invalidate(s, t.Primary, p), l, pg)
                EXCEPT !.valid[t.Primary] = @ - 1, !.valid[t.Replacement] = @ + 1]
        ELSE IF old = INVALID_PAGE                                    \* case 3
        THEN IF i < 0 THEN Die(s, "exit")
             ELSE WriteReplacement(Invalidate(s, t.Replacement, i), l, pg)
        ELSE IF old = FREE_PAGE /\ t.PBPage > p                       \* case 4
        THEN IF i < 0 THEN [WriteReplacement(s, l, pg) EXCEPT !.valid[t.Replacement] = @ + 1]
             ELSE WriteReplacement(Invalidate(s, t.Replacement, i), l, pg)
        ELSE s

\* The four cases of NFTLWriteOneCluster, on a logical block that has a primary.
NFTLWriteCases(s, pg) ==
    LET l == pg.cluster \div MaxPage
        p == pg.cluster % MaxPage
        t == s.table[l]
    IN  IF s.dead # "" THEN s
        ELSE IF s.mem[t.Primary][p] = FREE_PAGE /\ t.PBPage <= p      \* case 1
        THEN [s EXCEPT !.mem[t.Primary][p] = pg, !.table[l].PBPage = p + 1,
                       !.valid[t.Primary] = @ + 1]
        ELSE NFTLOverwrite(EnsureReplacement(s, l), pg)

GivePrimary(g, l) ==
    IF g.s.dead # "" THEN g.s
    ELSE [g.s EXCEPT !.table[l].Primary = g.block, !.table[l].PBPage = 0]

NFTLWriteOneCluster(s, pg) ==
    LET l == pg.cluster \div MaxPage
    IN  NFTLWriteCases(IF s.table[l].Primary # NFTL_POINT_TO_NULL THEN s
                       ELSE GivePrimary(NFTLGetBlock(s, l), l), pg)
\* One request of NFTLSimulation: a write, cluster by cluster; a read changes nothing.
NFTLRequest(s, write, pgs) ==
    IF ~write THEN s
    ELSE FoldLeft(LAMBDA r, g : IF r.dead # "" THEN r ELSE NFTLWriteOneCluster(r, g), s, pgs)

\* The initial fill of NFTLSimulation.
NFTLFill(s, fill) == NFTLRequest(s, TRUE, FillPages(fill))
=============================================================================
