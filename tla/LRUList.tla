------------------------------ MODULE LRUList ------------------------------
(***************************************************************************)
(* The array-based LRU list of the simulator: Flash/LRUList.c and its copy *)
(* Flash/LRUListDFTL.c.  Elements of one array are linked either into the  *)
(* list of cached keys (Head..Tail, the newest first) or into the list of  *)
(* free elements (FreeHead..FreeTail).  As in C the links of an element    *)
(* are overwritten piece by piece and stale links are left behind.         *)
(*                                                                         *)
(* An operation with a result returns [l |-> list, pos |-> position].      *)
(***************************************************************************)
EXTENDS Integers, FiniteSets

LRU_ELEMENT_FREE == -1
NULL == -1                  \* LRU_ELEMENT_POINT_TO_NULL

CreateLRUList(len) ==
    [Element |-> [i \in 0 .. len - 1 |->
        [key |-> LRU_ELEMENT_FREE, next |-> IF i = len - 1 THEN NULL ELSE i + 1,
         previous |-> i - 1, dirty |-> FALSE]],
     Head |-> 0, Tail |-> 0, Len |-> 0,
     FreeHead |-> 0, FreeTail |-> len - 1, FreeLen |-> len]

\* IsElemenetInLRUList: walk from the head, Len elements at most.
\* walk[n] is the position after n steps.
PositionOf(l, key) ==
    LET walk[n \in 0 .. l.Len] == IF n = 0 THEN l.Head ELSE l.Element[walk[n - 1]].next
        at == {n \in 0 .. l.Len - 1 : l.Element[walk[n]].key = key}
    IN  IF at = {} THEN -1 ELSE walk[CHOOSE n \in at : \A m \in at : n <= m]

SetElementDirty(l, key, pos) ==
    IF l.Element[pos].key # key THEN l ELSE [l EXCEPT !.Element[pos].dirty = TRUE]

\* At the head of the free list; the dirty flag stays as it is.
PutElementToFreeElementList(l, pos) ==
    LET linked == IF l.FreeLen = 0
                  THEN [l EXCEPT !.Element[pos].next = NULL, !.FreeTail = pos]
                  ELSE [l EXCEPT !.Element[pos].next = l.FreeHead,
                                 !.Element[l.FreeHead].previous = pos]
    IN  [linked EXCEPT !.FreeLen = @ + 1, !.FreeHead = pos,
                       !.Element[pos].previous = NULL,
                       !.Element[pos].key = LRU_ELEMENT_FREE]

\* From the tail of the free list, which is not empty.
GetElementFromFreeElementList(l) ==
    LET pos == l.FreeTail
        before == l.Element[pos].previous
    IN  [pos |-> pos,
         l |-> IF l.FreeLen = 1
               THEN [l EXCEPT !.FreeLen = 0, !.FreeHead = NULL, !.FreeTail = NULL]
               ELSE [l EXCEPT !.FreeLen = @ - 1, !.FreeTail = before,
                              !.Element[before].next = NULL]]

\* Mutant: the element in the middle is unlinked in one direction only.
UnlinkHalf(l, pos) ==
    LET e == l.Element[pos] IN
    CASE pos = l.Head -> [l EXCEPT !.Head = e.next, !.Element[e.next].previous = NULL]
      [] pos # l.Head /\ pos = l.Tail ->
            [l EXCEPT !.Tail = e.previous, !.Element[e.previous].next = NULL]
      [] OTHER -> [l EXCEPT !.Element[e.previous].next = e.next]

\* Take the element out of the list of keys (which has more than one element).
Unlink(l, pos) ==
    LET e == l.Element[pos] IN
    CASE pos = l.Head -> [l EXCEPT !.Head = e.next, !.Element[e.next].previous = NULL]
      [] pos # l.Head /\ pos = l.Tail ->
            [l EXCEPT !.Tail = e.previous, !.Element[e.previous].next = NULL]
      [] OTHER -> [l EXCEPT !.Element[e.previous].next = e.next,
                            !.Element[e.next].previous = e.previous]

RemoveElemenetFromLRUList(l, key, pos) ==
    IF l.Element[pos].key # key THEN l
    ELSE PutElementToFreeElementList(
            [IF l.Len > 1 THEN Unlink(l, pos) ELSE l EXCEPT !.Len = @ - 1], pos)

LinkAtHead(l, pos) ==
    [l EXCEPT !.Element[pos].next = l.Head, !.Element[l.Head].previous = pos,
              !.Element[pos].previous = NULL, !.Head = pos]

MoveElemenetToTheHeadofLRUList(l, key, pos) ==
    IF l.Element[pos].key # key \/ l.Len <= 1 THEN l ELSE LinkAtHead(Unlink(l, pos), pos)

RemoveTheTailElemenetFromLRUList(l) ==
    LET pos == l.Tail
        before == l.Element[pos].previous
    IN  PutElementToFreeElementList(
            IF l.Len > 1 THEN [l EXCEPT !.Len = @ - 1, !.Tail = before,
                                        !.Element[before].next = NULL]
            ELSE [l EXCEPT !.Len = @ - 1], pos)

\* The list is not full.
PutElementToTheHeadOfLRUList(l, key) ==
    LET g == GetElementFromFreeElementList(l)
        pos == g.pos
        keyed == [g.l EXCEPT !.Element[pos].key = key, !.Len = @ + 1]
    IN  [pos |-> pos,
         l |-> IF keyed.Len = 1
               THEN [keyed EXCEPT !.Element[pos].next = NULL, !.Element[pos].previous = NULL,
                                  !.Head = pos, !.Tail = pos]
               ELSE LinkAtHead(keyed, pos)]

\* Remove from the tail until there is room; the key may be in the list already.
PutElemenetToLRUList(l, key) ==
    PutElementToTheHeadOfLRUList(
        IF l.FreeLen = 0 THEN RemoveTheTailElemenetFromLRUList(l) ELSE l, key)

-----------------------------------------------------------------------------
(* Walking a linked list by `next' and by `previous'.                      *)
Forward(l, start, n)  == LET w[k \in 0 .. n] == IF k = 0 THEN start ELSE l.Element[w[k-1]].next
                         IN  [k \in 1 .. n |-> w[k - 1]]
Backward(l, start, n) == LET w[k \in 0 .. n] == IF k = 0 THEN start ELSE l.Element[w[k-1]].previous
                         IN  [k \in 1 .. n |-> w[k - 1]]
\* The links of both lists agree in both directions and every element is in
\* exactly one of the two lists.
WellLinked(l) ==
    LET used == Forward(l, l.Head, l.Len)
        free == Forward(l, l.FreeHead, l.FreeLen)
    IN  /\ \A k \in 1 .. l.Len : Backward(l, l.Tail, l.Len)[k] = used[l.Len + 1 - k]
        /\ \A k \in 1 .. l.FreeLen : Backward(l, l.FreeTail, l.FreeLen)[k] = free[l.FreeLen + 1 - k]
        /\ {used[k] : k \in 1 .. l.Len} \cup {free[k] : k \in 1 .. l.FreeLen} = DOMAIN l.Element
        /\ l.Len + l.FreeLen = Cardinality(DOMAIN l.Element)
        /\ \A i \in DOMAIN l.Element :
             (l.Element[i].key = LRU_ELEMENT_FREE) <=> \E k \in 1 .. l.FreeLen : free[k] = i
=============================================================================
