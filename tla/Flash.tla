------------------------------- MODULE Flash -------------------------------
(***************************************************************************)
(* The simulated flash memory as the other translation schemes use it      *)
(* (Flash/flash.c): pages, per-block counters, and the free-block list     *)
(* with its count per chip.  The simulator is sequential and every scheme  *)
(* runs a request to its end before it looks at the next one, so the       *)
(* operations are functions from a machine state `s' to the next one.      *)
(*                                                                         *)
(*   s.mem      FlashMemory: what each page of each block holds            *)
(*   s.free     FreeBlockList from Head to Tail                            *)
(*   s.chipFree BlocksInFreeBlockListArray                                 *)
(*   s.valid, s.invalid   ValidPageCnt, InvalidPageCnt                     *)
(*   s.dead     "" or why the process stopped                              *)
(*                                                                         *)
(* The C code keeps only the number of the cluster in a page.  Here a page *)
(* also holds the version `data' that was written, so that a property can  *)
(* tell the newest copy of a cluster from an older one.                    *)
(***************************************************************************)
EXTENDS Integers, Sequences, FiniteSets, SequencesExt

CONSTANTS
    MaxBlock,     \* physical blocks
    MaxPage,      \* pages in a block
    ChipNumber,   \* chips; each has MaxBlock \div ChipNumber blocks
    LeastBlocks,  \* LeastFreeBlocksInFBL(): the reserve, 64 blocks a chip
    BadBlocks     \* blocks marked BAD_BLOCK

Block         == 0 .. MaxBlock - 1
Page          == 0 .. MaxPage - 1
Chip          == 0 .. ChipNumber - 1
BlocksPerChip == MaxBlock \div ChipNumber
ChipOf(b)     == b \div BlocksPerChip
Pages         == [i \in 1 .. MaxPage |-> i - 1]

\* Every allocation of a scheme leaves a block in the list, so that the linked
\* list never becomes empty (PutFreeBlock appends through its tail).
ASSUME FlashAssumption ==
    /\ MaxBlock \in Nat \ {0} /\ MaxPage \in Nat \ {0} /\ ChipNumber \in Nat \ {0}
    /\ MaxBlock % ChipNumber = 0 /\ LeastBlocks % ChipNumber = 0
    /\ LeastBlocks >= 2 /\ LeastBlocks > Cardinality(BadBlocks)
    /\ BadBlocks \subseteq Block

Mark(m)      == [cluster |-> m, data |-> 0]
FREE_PAGE    == Mark(-1)
INVALID_PAGE == Mark(-2)
BAD_BLOCK    == Mark(-3)
VALID_PAGE   == Mark(-4)   \* a page of DFTL's mapping table
Live(pg)     == pg.cluster >= 0
Blank        == [p \in Page |-> FREE_PAGE]
LivePages(s, b) == {p \in Page : Live(s.mem[b][p])}

LogicalBlocks   == MaxBlock - LeastBlocks - Cardinality(BadBlocks)
MaxCluster      == LogicalBlocks * MaxPage

\* InitializeFlashMemory: `order' is the random order of the good blocks.
\* BadBlockCntArray is never counted up, so a chip's count includes its bad blocks.
InitializeFlashMemory(order) ==
    [mem      |-> [b \in Block |-> IF b \in BadBlocks
                                   THEN [Blank EXCEPT ![0] = BAD_BLOCK] ELSE Blank],
     free     |-> order,
     chipFree |-> [c \in Chip |-> BlocksPerChip],
     valid    |-> [b \in Block |-> 0],
     invalid  |-> [b \in Block |-> 0],
     dead     |-> ""]

Die(s, why) == [s EXCEPT !.dead = why]

\* The head leaves the list and its counters are reset.
PopFreeBlock(s) ==
    LET b == Head(s.free)
    IN  [s EXCEPT !.free = Tail(@), !.chipFree[ChipOf(b)] = @ - 1,
                  !.valid[b] = 0, !.invalid[b] = 0]

\* CheckFreeBlock: is there more than the reserve?
CheckFreeBlock(s) == Len(s.free) > LeastBlocks

\* GetFreeBlock(fromGcRequest): garbage collection may use the reserve.
GetFreeBlock(s, fromGcRequest) ==
    IF fromGcRequest /\ s.free = << >>
    THEN [s |-> Die(s, "exit"), block |-> -1]
    ELSE IF fromGcRequest \/ CheckFreeBlock(s)
    THEN [s |-> PopFreeBlock(s), block |-> Head(s.free)]
    ELSE [s |-> s, block |-> -1]

\* PutFreeBlock: append.  Nothing here erases the block or looks at its pages.
PutFreeBlock(s, b) ==
    IF s.free = << >> THEN Die(s, "list lost")
    ELSE [s EXCEPT !.free = Append(@, b), !.chipFree[ChipOf(b)] = @ + 1]

CheckFreeBlockFromChip(s, chip) == s.chipFree[chip] > LeastBlocks \div ChipNumber

\* GetFreeBlockFromChipWithoutChecking: rotate the list until a block of the
\* chip is at its head (more than MaxBlock turns end the process).
GetFreeBlockFromChip(s, chip) ==
    LET at == {k \in DOMAIN s.free : ChipOf(s.free[k]) = chip}
        k0 == CHOOSE k \in at : \A j \in at : k <= j
        turned == SubSeq(s.free, k0, Len(s.free)) \o SubSeq(s.free, 1, k0 - 1)
    IN  IF ~CheckFreeBlockFromChip(s, chip) THEN [s |-> s, block |-> -1]
        ELSE IF at = {} THEN [s |-> Die(s, "exit"), block |-> -1]
        ELSE LET passed == {s.free[k] : k \in 1 .. k0 - 1}
                 zeroed == [s EXCEPT
                     !.free = turned,
                     !.valid = [b \in Block |-> IF b \in passed THEN 0 ELSE @[b]],
                     !.invalid = [b \in Block |-> IF b \in passed THEN 0 ELSE @[b]]]
             IN  [s |-> PopFreeBlock(zeroed), block |-> s.free[k0]]

\* The initial fill writes whole logical blocks: the blocks of `fill' in
\* ascending order, and the pages of one of them (version 1 of each cluster).
FillBlocks(fill) == SelectSeq([i \in 1 .. LogicalBlocks |-> i - 1], LAMBDA l : l \in fill)
BlockPages(l) == [i \in 1 .. MaxPage |-> [cluster |-> l * MaxPage + i - 1, data |-> 1]]
FillPages(fill) == FoldLeft(LAMBDA q, l : q \o BlockPages(l), << >>, FillBlocks(fill))

\* A page that holds data is marked invalid.
Invalidate(s, b, p) ==
    [s EXCEPT !.mem[b][p] = INVALID_PAGE, !.invalid[b] = @ + 1]
=============================================================================
