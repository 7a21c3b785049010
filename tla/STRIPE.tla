------------------------------- MODULE STRIPE -------------------------------
(***************************************************************************)
(* Striping over the chips: Flash/STRIPE.c with Flash/LRUList.c.           *)
(*                                                                         *)
(* Each chip has a current block.  A request is cut into sets of at most   *)
(* one cluster a chip that are programmed together.  STRIPE_STATIC stripes *)
(* by cluster number; STRIPE_DYNAMIC sends hot clusters to the chips with  *)
(* the fewest erasures and cold ones to the others, with a second current  *)
(* block a chip for hot data.  Making room (EnsureFreeSpaceInFreeBlock)    *)
(* collects garbage, collecting garbage writes cluster sets, and writing   *)
(* those makes room again: the functions are mutually recursive.           *)
(*                                                                         *)
(*   s.table   StripeTable (chip and block as one block number)            *)
(*   s.cold, s.hot    CurrentFreeBlock, CurrentFreeBlockForHotData         *)
(*   s.cached, s.isHot   CachedClusters, CachedClustersDataType            *)
(*   s.erased, s.order   ChipEraseCnt, SortedOrder                         *)
(*   s.hotList, s.candidates   the two LRU lists                           *)
(*   s.scan, s.div    the statics of StripeGarbageCollection, per chip     *)
(***************************************************************************)
EXTENDS Flash, LRUList

CONSTANTS HOTLIST_LENGTH, CANDIDATELIST_LENGTH

STRIPE_POINT_TO_NULL == -1
NoPlace     == [Block |-> -1, Page |-> -1]
NoneCached  == [i \in Chip |-> FREE_PAGE]      \* NO_CLUSTER_CACHED
NumCached(s) == Cardinality({i \in Chip : s.cached[i] # FREE_PAGE})
ClearCached(s) == [s EXCEPT !.cached = NoneCached]

\* One cluster of the set: invalidate the old page, program the next one of the
\* chip's current block.
StripeWriteOneCluster(s, i) ==
    LET pg == s.cached[i]
        c == pg.cluster
        old == s.table[c]
        inv == IF old.Block = STRIPE_POINT_TO_NULL THEN s
               ELSE [Invalidate(s, old.Block, old.Page) EXCEPT !.valid[old.Block] = @ - 1]
        hot == s.dynamic /\ s.isHot[i]
        to == IF hot THEN s.hot[i] ELSE s.cold[i]
        put == [inv EXCEPT !.mem[to.Block][to.Page] = pg, !.valid[to.Block] = @ + 1,
                           !.table[c] = to]
    IN  IF pg = FREE_PAGE \/ s.dead # "" THEN s
        ELSE IF to.Block \notin Block THEN Die(s, "wild write")
        ELSE IF hot THEN [put EXCEPT !.hot[i].Page = @ + 1]
        ELSE [put EXCEPT !.cold[i].Page = @ + 1]

StripeWriteOneClusterSet(s) ==
    FoldLeft(StripeWriteOneCluster, s, [i \in 1 .. ChipNumber |-> i - 1])

\* Re-order the chips after an erasure: one pass of swaps.
Resort(s) ==
    FoldLeft(LAMBDA r, i : IF r.erased[r.order[i]] > r.erased[r.order[i - 1]]
                           THEN [r EXCEPT !.order[i] = r.order[i - 1],
                                          !.order[i - 1] = r.order[i]]
                           ELSE r,
             s, [i \in 1 .. ChipNumber - 1 |-> i])

\* Where the next live page of a victim goes: its chip by number, or the next
\* chip from the cold or from the hot end of the order.  `h' and `k' count the
\* hot and the cold pages in the set so far.
HotKey(s, c) == PositionOf(s.hotList, c) >= 0
PlaceFor(s, c, h, k) ==
    IF ~s.dynamic THEN c % ChipNumber
    ELSE IF HotKey(s, c) THEN s.order[ChipNumber - 1 - h] ELSE s.order[k]
Cache(s, i, pg) == [s EXCEPT !.cached[i] = pg,
                             !.isHot[i] = IF s.dynamic THEN HotKey(s, pg.cluster) ELSE @]

\* The blocks of the chip, counted from the one scanned last, that may be erased.
StripeVictims(s, chip) ==
    {n \in 1 .. BlocksPerChip :
        LET b == chip * BlocksPerChip + ((s.scan[chip] + n) % BlocksPerChip)
        IN  /\ s.invalid[b] > s.valid[b] \div s.div[chip]
            /\ \A j \in DOMAIN s.free : s.free[j] # b
            /\ b # s.cold[chip].Block
            /\ s.dynamic => b # s.hot[chip].Block}

RECURSIVE EnsureFreeSpaceInFreeBlock(_), EnsureChip(_, _, _), StripeGarbageCollection(_, _),
          StripeEraseOneBlock(_, _), StripeMovePages(_, _, _, _, _), MoveOnePage(_, _, _, _, _)

\* One chip's loop: while its current (cold or hot) block is full.
EnsureChip(s, i, hot) ==
    LET full == (IF hot THEN s.hot[i].Page ELSE s.cold[i].Page) >= MaxPage
        g == GetFreeBlockFromChip(s, i)
        new == [Block |-> g.block, Page |-> 0]
    IN  IF s.dead # "" \/ ~full THEN s
        ELSE IF ~CheckFreeBlockFromChip(s, i)
        THEN EnsureChip(StripeGarbageCollection(s, i), i, hot)
        ELSE IF hot THEN [g.s EXCEPT !.hot[i] = new] ELSE [g.s EXCEPT !.cold[i] = new]

EnsureChips(s, hot) ==
    FoldLeft(LAMBDA r, i : EnsureChip(r, i, hot), s, [i \in 1 .. ChipNumber |-> i - 1])
EnsureFreeSpaceInFreeBlock(s) ==
    EnsureChips(IF s.dynamic THEN EnsureChips(s, FALSE) ELSE s, s.dynamic)

\* Write the cached clusters, make room, clear the cache.
FlushCached(s) == ClearCached(EnsureFreeSpaceInFreeBlock(StripeWriteOneClusterSet(s)))

\* The page, read anew after a flush, joins the set; the loop goes on.
MoveOnePage(s, b, p, h, k) ==
    LET pg == s.mem[b][p]
        hot == s.dynamic /\ HotKey(s, pg.cluster)
    IN  IF s.dead # "" THEN s
        ELSE IF ~Live(pg) THEN Die(s, "wild write")
        ELSE StripeMovePages(Cache(s, PlaceFor(s, pg.cluster, h, k), pg), b, p + 1,
                             IF hot THEN h + 1 ELSE h, IF hot THEN k ELSE k + 1)

\* The copy loop of StripeEraseOneBlock from page p on, then the last flush.
StripeMovePages(s, b, p, h, k) ==
    LET pg == s.mem[b][p]
        full == IF s.dynamic THEN NumCached(s) = ChipNumber
                ELSE s.cached[pg.cluster % ChipNumber] # FREE_PAGE
    IN  IF s.dead # "" THEN s
        ELSE IF p = MaxPage THEN IF NumCached(s) > 0 THEN FlushCached(s) ELSE s
        ELSE IF ~Live(pg) THEN StripeMovePages(s, b, p + 1, h, k)
        ELSE IF full THEN MoveOnePage(FlushCached(s), b, p, 0, 0)
        ELSE MoveOnePage(s, b, p, h, k)

\* The end of StripeEraseOneBlock, when the pages have moved.
EraseMoved(s, b) ==
    IF s.dead # "" THEN s
    ELSE Resort([s EXCEPT !.mem[b] = Blank, !.invalid[b] = 0, !.valid[b] = 0,
                          !.erased[b % ChipNumber] = @ + 1])

\* StripeEraseOneBlock: the victim enters the free list before its pages move.
StripeEraseOneBlock(s, b) ==
    EraseMoved(StripeMovePages(ClearCached(EnsureFreeSpaceInFreeBlock(PutFreeBlock(s, b))),
                               b, 0, 0, 0), b)

StripeGarbageCollection(s, chip) ==
    LET v == StripeVictims(s, chip)
        n == CHOOSE m \in v : \A j \in v : m <= j
        at == (s.scan[chip] + n) % BlocksPerChip
    IN  IF s.dead # "" \/ CheckFreeBlockFromChip(s, chip) THEN s
        ELSE IF v # {}
        THEN StripeGarbageCollection(
                StripeEraseOneBlock([s EXCEPT !.scan[chip] = at], chip * BlocksPerChip + at), chip)
        ELSE IF s.div[chip] > MaxPage THEN Die(s, "division by zero")
        ELSE StripeGarbageCollection([s EXCEPT !.div[chip] = 2 * @], chip)

-----------------------------------------------------------------------------
\* The hot and the candidate list when a cluster is written (STRIPE_DYNAMIC):
\* a candidate becomes hot, but is still written as cold this time.
UpdateLists(s, c) ==
    LET inHot == PositionOf(s.hotList, c)
        inCand == PositionOf(s.candidates, c)
    IN  IF inHot >= 0
        THEN [s EXCEPT !.hotList =
                PutElemenetToLRUList(RemoveElemenetFromLRUList(@, c, inHot), c).l]
        ELSE IF inCand >= 0
        THEN [s EXCEPT !.candidates = RemoveElemenetFromLRUList(@, c, inCand),
                       !.hotList = PutElemenetToLRUList(@, c).l]
        ELSE [s EXCEPT !.candidates = PutElemenetToLRUList(@, c).l]

\* One cluster of a request under STRIPE_DYNAMIC.
DynamicCluster(s, pg, h, k) ==
    LET c == pg.cluster
        hot == HotKey(s, c)
        i == IF hot THEN s.order[ChipNumber - 1 - h] ELSE s.order[k]
    IN  [UpdateLists(s, c) EXCEPT !.cached[i] = pg, !.isHot[i] = hot]

\* The next set of a request under STRIPE_STATIC, of the first n clusters.
StaticSet(s, pgs, n) ==
    IF s.dead # "" THEN s
    ELSE FlushCached([s EXCEPT !.cached = [i \in Chip |->
             IF \E j \in 1 .. n : pgs[j].cluster % ChipNumber = i
             THEN pgs[CHOOSE j \in 1 .. n : pgs[j].cluster % ChipNumber = i]
             ELSE @[i]]])

RECURSIVE WriteStatic(_, _), WriteDynamic(_, _, _, _), DynamicStep(_, _, _, _)
WriteStatic(s, pgs) ==
    LET n == IF Len(pgs) >= ChipNumber THEN ChipNumber ELSE Len(pgs)
    IN  IF pgs = << >> \/ s.dead # "" THEN s
        ELSE WriteStatic(StaticSet(EnsureFreeSpaceInFreeBlock(s), pgs, n),
                         SubSeq(pgs, n + 1, Len(pgs)))

\* The loop body of STRIPE_DYNAMIC when there is room for the next cluster.
DynamicStep(s, pgs, h, k) ==
    LET hot == HotKey(s, Head(pgs).cluster)
        d == DynamicCluster(s, Head(pgs), h, k)
    IN  IF s.dead # "" THEN s
        ELSE IF NumCached(d) = ChipNumber \/ Len(pgs) = 1
        THEN WriteDynamic(FlushCached(d), Tail(pgs), 0, 0)
        ELSE WriteDynamic(d, Tail(pgs), IF hot THEN h + 1 ELSE h, IF hot THEN k ELSE k + 1)

WriteDynamic(s, pgs, h, k) ==
    IF pgs = << >> \/ s.dead # "" THEN s
    ELSE DynamicStep(EnsureFreeSpaceInFreeBlock(s), pgs, h, k)

WriteRequest(s, pgs) ==
    IF s.dynamic THEN WriteDynamic(s, pgs, 0, 0) ELSE WriteStatic(s, pgs)
SecureStripeWriteOneRequest(s, pgs) ==
    WriteRequest(ClearCached(EnsureFreeSpaceInFreeBlock(s)), pgs)

\* StripeReadOneRequest: the page a cluster is read from.
StripeReadOneCluster(s, c) ==
    IF s.table[c].Block = STRIPE_POINT_TO_NULL THEN FREE_PAGE
    ELSE s.mem[s.table[c].Block][s.table[c].Page]

\* StripeSimulation up to its initial fill: the first block of each chip.
InitializeStripe(order, dynamic) ==
    LET s0 == [table |-> [c \in 0 .. MaxCluster - 1 |-> NoPlace],
               cold |-> [i \in Chip |-> NoPlace], hot |-> [i \in Chip |-> NoPlace],
               cached |-> NoneCached, isHot |-> [i \in Chip |-> FALSE],
               erased |-> [i \in Chip |-> 0], order |-> [i \in Chip |-> i],
               hotList |-> CreateLRUList(HOTLIST_LENGTH),
               candidates |-> CreateLRUList(CANDIDATELIST_LENGTH),
               scan |-> [i \in Chip |-> -1], div |-> [i \in Chip |-> 1],
               dynamic |-> dynamic] @@ InitializeFlashMemory(order)
    IN  FoldLeft(LAMBDA r, i : LET g == GetFreeBlockFromChip(r, i)
                               IN  [g.s EXCEPT !.cold[i] = [Block |-> g.block, Page |-> 0]],
                 s0, [i \in 1 .. ChipNumber |-> i - 1])

\* After the initial fill STRIPE_DYNAMIC takes a block a chip for hot data; the
\* result -1 of an exhausted chip is not checked.
TakeHotBlocks(s) ==
    IF ~s.dynamic \/ s.dead # "" THEN s
    ELSE FoldLeft(LAMBDA r, i : LET g == GetFreeBlockFromChip(r, i)
                                IN  [g.s EXCEPT !.hot[i] = [Block |-> g.block, Page |-> 0]],
                  s, [i \in 1 .. ChipNumber |-> i - 1])
\* One request of StripeSimulation; a read changes nothing.
StripeRequest(s, write, pgs) == IF write THEN SecureStripeWriteOneRequest(s, pgs) ELSE s

\* The initial fill of StripeSimulation, one request a block.
StripeFill(s, fill) ==
    TakeHotBlocks(FoldLeft(LAMBDA r, l : IF r.dead # "" THEN r
                                         ELSE SecureStripeWriteOneRequest(r, BlockPages(l)),
                           s, FillBlocks(fill)))
=============================================================================
