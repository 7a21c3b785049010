------------------------------ MODULE Simulator ------------------------------
(***************************************************************************)
(* The simulator (Flash/main.c) running one of the translation schemes     *)
(* NFTL, BL, DFTL, STRIPE_STATIC or STRIPE_DYNAMIC over a trace of         *)
(* requests.  (The page-level FTL has a module of its own.)                *)
(*                                                                         *)
(* The program is sequential; one step is one request of the trace.        *)
(***************************************************************************)
EXTENDS NFTL, BL, DFTL, STRIPE

CONSTANTS Methods,      \* the schemes to run
          Orders,       \* random orders of the good blocks
          Fills,        \* sets of logical blocks the initial fill may choose
          WorkingSet,   \* bound: clusters the trace addresses
          MaxLength,    \* bound: clusters in a request
          StrayKeys,    \* what may be in memory before DFTL's list
          MaxRequests   \* bound: requests of the trace, by scheme

VARIABLES FTLMethod,    \* argv: the scheme
          s,            \* its machine state
          last,         \* last[c]: version of c written last, 0 if none
          count,        \* requests so far
          ended         \* the trace has ended

vars == <<FTLMethod, s, last, count, ended>>

Cluster == 0 .. MaxCluster - 1
Version(c) == IF last[c] = 1 THEN 2 ELSE 1
Requests == {<<a, n>> \in Cluster \X (1 .. MaxLength) : a + n <= WorkingSet}
PagesOf(r) == [i \in 1 .. r[2] |-> [cluster |-> r[1] + i - 1, data |-> Version(r[1] + i - 1)]]

\* One request, handled by the scheme's simulation loop.
Request(m, st, write, pgs) ==
    CASE m = "NFTL" -> NFTLRequest(st, write, pgs)
      [] m = "BL"   -> BLRequest(st, write, pgs)
      [] m = "DFTL" -> DFTLRequest(st, write, pgs)
      [] OTHER      -> StripeRequest(st, write, pgs)

\* What a read of one cluster finds.
ReadPage(m, st, c) ==
    CASE m = "NFTL" -> NFTLReadOneCluster(st, c)
      [] m = "BL"   -> BLReadOneCluster(BLFlush(st), c)
      [] m = "DFTL" -> DFTLReadOneCluster(st, c).page
      [] OTHER      -> StripeReadOneCluster(st, c)

\* The scheme's initialisation and its initial fill.
Start(m, order, stray, fill) ==
    CASE m = "NFTL" -> NFTLFill(InitializeNFTL(order), fill)
      [] m = "BL"   -> BLFill(InitializeBL(order), fill)
      [] m = "DFTL" -> DFTLFill(InitializeDFTL(order, stray), fill)
      [] OTHER      -> StripeFill(InitializeStripe(order, m = "STRIPE_DYNAMIC"), fill)

Init ==
    /\ FTLMethod \in Methods
    /\ \E order \in Orders, fill \in Fills, stray \in StrayKeys :
         /\ s = Start(FTLMethod, order, stray, fill)
         /\ last = [c \in Cluster |-> IF c \div MaxPage \in fill THEN 1 ELSE 0]
    /\ count = 0 /\ ended = FALSE

Running == s.dead = "" /\ ~ended
Write ==
    /\ Running
    /\ count < MaxRequests[FTLMethod]
    /\ \E r \in Requests :
         /\ s' = Request(FTLMethod, s, TRUE, PagesOf(r))
         /\ last' = [c \in Cluster |-> IF c \in r[1] .. r[1] + r[2] - 1 THEN Version(c) ELSE last[c]]
    /\ count' = count + 1
    /\ UNCHANGED <<FTLMethod, ended>>

Read ==
    /\ Running
    /\ \E r \in Requests : s' = Request(FTLMethod, s, FALSE, PagesOf(r))
    /\ UNCHANGED <<FTLMethod, last, count, ended>>

\* The end of the trace: BL writes what it has gathered.
End ==
    /\ Running
    /\ s' = IF FTLMethod = "BL" THEN BLFlush(s) ELSE s
    /\ ended' = TRUE
    /\ UNCHANGED <<FTLMethod, last, count>>

Next == Write \/ Read \/ End
Spec == Init /\ [][Next]_vars

-----------------------------------------------------------------------------
Alive == s.dead = ""
NewestFound ==
    \A c \in Cluster :
        LET pg == ReadPage(FTLMethod, s, c)
        IN  IF last[c] = 0 THEN ~Live(pg) ELSE pg = [cluster |-> c, data |-> last[c]]

\* A read of any cluster finds the version written last, and nothing if it was
\* never written: no merge, collection, cache or fill loses, duplicates or
\* revives a copy.  (Not STRIPE_DYNAMIC, where a victim that waits in the
\* free list may be handed out before its pages have moved.)
ReadsNewest == Alive /\ FTLMethod # "STRIPE_DYNAMIC" => NewestFound

\* Blocks that a table or a write pointer refers to.
InUse ==
    CASE FTLMethod = "NFTL" ->
           {s.table[l].Primary : l \in Block} \cup {s.table[l].Replacement : l \in Block}
      [] FTLMethod = "BL"   -> {s.table[l] : l \in Block}
      [] FTLMethod = "DFTL" -> {s.table[c].Block : c \in Cluster} \cup {s.cur}
      [] OTHER -> {s.table[c].Block : c \in Cluster} \cup {s.cold[i].Block : i \in Chip}
                     \cup {s.hot[i].Block : i \in Chip}
\* Blocks of the free list, and that no erased block is lost.
FreeSet == {s.free[k] : k \in DOMAIN s.free}
NoBlockLost == \A b \in Block \ BadBlocks : s.mem[b] = Blank => b \in FreeSet \cup InUse

\* Between requests the free list has no block twice and the counts per chip
\* agree with it; its blocks are erased and no table or write pointer refers to
\* them, and an erased block is in the list or is a current block: none is lost.
\* (STRIPE_DYNAMIC's victims wait in the list with their pages.  DFTL does lose
\* a block: the reserve block that a collection did not fill.)
FreeListSound ==
    /\ IsInjective(s.free)
    /\ \A i \in Chip : s.chipFree[i] =
         Cardinality({b \in FreeSet \cup BadBlocks : ChipOf(b) = i})
    /\ FTLMethod # "STRIPE_DYNAMIC" =>
         \A b \in FreeSet : s.mem[b] = Blank /\ b \notin InUse
    /\ FTLMethod \notin {"STRIPE_DYNAMIC", "DFTL"} => NoBlockLost

\* The counters that choose the victims: the invalid pages of each block, and its
\* valid pages.  (BL resets the latter only when a block is taken; DFTL, which
\* chooses by the invalid pages alone, never counts it down.)
CountersExact ==
    \A b \in Block \ BadBlocks :
        /\ s.invalid[b] = Cardinality({p \in Page : s.mem[b][p] = INVALID_PAGE})
        /\ \/ FTLMethod = "DFTL"
           \/ FTLMethod = "BL" /\ b \in FreeSet
           \/ s.valid[b] = Cardinality(LivePages(s, b))

\* The free list is sound, the counters are exact, and the links of the LRU lists
\* stay consistent in both directions and lose no element, whatever sequence of
\* removals, evictions and moves the schemes make.
ListsSound ==
    Alive => /\ FreeListSound /\ CountersExact
             /\ FTLMethod = "DFTL" => WellLinked(s.cmt)
             /\ FTLMethod = "STRIPE_DYNAMIC" => WellLinked(s.hotList) /\ WellLinked(s.candidates)

\* Logical blocks in use, and clusters in use on a chip.
Used == {l \in 0 .. LogicalBlocks - 1 : \E p \in Page : last[l * MaxPage + p] # 0}
OnChip(i) == {c \in Cluster : last[c] # 0 /\ c % ChipNumber = i}

\* NFTL, STRIPE_STATIC and BL end the process only for lack of space: NFTL when
\* not every logical block in use can have a replacement block, STRIPE_STATIC when
\* a chip holds more than its blocks without the reserve and two more, BL never.
\* Nothing is claimed of DFTL, which leaks reserve blocks until it exits for want
\* of a victim (DFTL.c:524), nor of STRIPE_DYNAMIC.
StopsOnlyWhenFull ==
    ~Alive =>
      CASE FTLMethod = "NFTL" -> 2 * Cardinality(Used) > LogicalBlocks
        [] FTLMethod = "BL"   -> FALSE
        [] FTLMethod = "STRIPE_STATIC" ->
             \E i \in Chip : Cardinality(OnChip(i)) >
                 (BlocksPerChip - (LeastBlocks \div ChipNumber) - 2) * MaxPage
        [] OTHER -> TRUE
=============================================================================
