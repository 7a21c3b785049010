--------------------------- MODULE MemTableProofs ---------------------------
(***************************************************************************)
(* Proofs about MemTable, for any number of entries, user keys and levels. *)
(*                                                                         *)
(* The argument.  At each level a link leads to the immediate successor,   *)
(* in the order of the comparator, among the nodes of that level (LinkInv);*)
(* Publish keeps that because prev still is the immediate predecessor of   *)
(* the new node there, and the new node's own link is already right        *)
(* (InsertInv).  A node of a level is a node of every level below, so a    *)
(* reader that goes down stays on a node of its level (ReaderInv), and     *)
(* where it stops there is nothing between its node and the next one.      *)
(***************************************************************************)
EXTENDS MemTable, FiniteSetTheorems, TLAPS

Entry == [key : Nat, seq : Nat, type : {0, 1}]

\* p comes before the entry e; the head comes before every entry.
After(p, e) == p = Head_ \/ Before(p, e)

\* n is what the link of p must be in a list of the entries of L ...
Succ(L, p, n) ==
    IF n = NULL
    THEN \A q \in L : ~After(p, q)
    ELSE n \in L /\ After(p, n) /\ \A q \in L : After(p, q) => q = n \/ After(n, q)

\* ... and p is the node that e must be linked to.
IsPrev(L, p, e) ==
    /\ p \in L \cup {Head_} /\ After(p, e)
    /\ \A q \in L \cup {Head_} : After(q, e) => q = p \/ After(q, p)

Nodes == DOMAIN next_ \ {Head_}
Inserting == insert.step # "none"

TypeInv ==
    /\ IsFiniteSet(DOMAIN next_) /\ Head_ \in DOMAIN next_
    /\ Nodes \subseteq Entry
    /\ next_ \in [DOMAIN next_ -> [Level -> Nodes \cup {NULL, Undef}]]
    /\ LastSequence \in Nat
    /\ insert.step \in {"none", "init", "publish"}
    /\ op \in {"none", "get", "ge", "lt", "last"} /\ running \in BOOLEAN

\* Sequence numbers are given out in order, and LastSequence covers only
\* entries that are in the list.
SequenceInv ==
    /\ \A e \in Nodes : e.seq < Cardinality(DOMAIN next_)
    /\ LastSequence < Cardinality(DOMAIN next_)
    /\ \A e, f \in Nodes : e.seq = f.seq => e = f
    /\ \A e \in Nodes : e \in Inserted \/ (Inserting /\ e = insert.x)
    /\ \A e \in Nodes : e.seq <= LastSequence => e \in Inserted

HeightInv ==
    /\ heights \subseteq 1 .. kMaxHeight
    /\ max_height_ \in heights
    /\ \A h \in heights : h <= max_height_
    /\ \A l \in Level : Linked(l) # {} => l < max_height_

\* At each level every link is the right one, and every entry has its place.
LinkInv ==
    \A l \in Level :
        /\ \A p \in Linked(l) \cup {Head_} : Succ(Linked(l), p, next_[p][l])
        /\ \A e \in Entry : \E p \in Linked(l) \cup {Head_} : IsPrev(Linked(l), p, e)
        /\ \A k \in 0 .. l : Linked(l) \subseteq Linked(k)

\* The node being inserted: in the levels below i, not yet in the others, and
\* prev is right for those.
InsertInv ==
    Inserting =>
        /\ insert.x \in Nodes
        /\ insert.height \in 1 .. max_height_ /\ insert.i \in 0 .. insert.height - 1
        /\ DOMAIN insert = {"x", "height", "prev", "i", "step"}
        /\ \A l \in 0 .. insert.i - 1 : insert.x \in Linked(l)
        /\ \A l \in Level : l >= insert.i => insert.x \notin Linked(l)
        /\ \A l \in insert.i .. insert.height - 1 :
              IsPrev(Linked(l), insert.prev[l], insert.x)
        /\ \A l \in Level :
              l > insert.i \/ (l = insert.i /\ insert.step = "init") => next_[insert.x][l] = Undef
        /\ insert.step = "publish" =>
              next_[insert.x][insert.i] = next_[insert.prev[insert.i]][insert.i]

ReaderInv ==
    /\ running => /\ level \in Level /\ x \in Linked(level) \cup {Head_}
                  /\ op # "none"
                  /\ op # "last" => target \in Entry /\ After(x, target)
    /\ node_ \in Inserted \cup {NULL}
    /\ present \subseteq Inserted

\* What a Get is after is in the list since it began.
GetInv ==
    op = "get" =>
        /\ target \in Entry /\ target.type = kTypeValue
        /\ target.seq <= LastSequence
        /\ \A e \in Nodes : e.seq <= target.seq => e \in present
        /\ ~running => node_ = NULL \/ ~Before(node_, target)

Inv == TypeInv /\ SequenceInv /\ HeightInv /\ LinkInv /\ InsertInv /\ ReaderInv /\ LandedRight /\ GetInv

-----------------------------------------------------------------------------
(* The order of the comparator.                                            *)

LEMMA Total ==
  ASSUME NEW a \in Entry, NEW b \in Entry
  PROVE  a = b \/ Before(a, b) \/ Before(b, a)
BY DEF Entry, Before

LEMMA Asymmetric ==
  ASSUME NEW a \in Entry, NEW b \in Entry, Before(a, b)
  PROVE  ~Before(b, a) /\ a # b
BY DEF Entry, Before

LEMMA Transitive ==
  ASSUME NEW a \in Entry, NEW b \in Entry, NEW c \in Entry, Before(a, b), Before(b, c)
  PROVE  Before(a, c)
BY DEF Entry, Before

\* The head, the end and an unwritten link are no entries.
LEMMA NoEntries ==
  /\ Head_ \notin Entry /\ NULL \notin Entry /\ Undef \notin Entry
  /\ Head_ # NULL /\ Head_ # Undef /\ NULL # Undef
  /\ \A e \in Entry : ~After(e, Head_)
BY DEF Head_, NULL, Undef, Entry, After, Before

\* The same for After, with the head as the first of all.
LEMMA AfterTransitive ==
  ASSUME NEW a \in Entry \cup {Head_}, NEW b \in Entry, NEW c \in Entry,
         After(a, b), After(b, c)
  PROVE  After(a, c)
BY NoEntries, Transitive DEF After

LEMMA AfterStrict ==
  ASSUME NEW a \in Entry \cup {Head_}, NEW b \in Entry, After(a, b)
  PROVE  ~After(b, a) /\ a # b
BY NoEntries, Asymmetric DEF After

LEMMA AfterTotal ==
  ASSUME NEW a \in Entry \cup {Head_}, NEW b \in Entry
  PROVE  a = b \/ After(a, b) \/ After(b, a)
BY Total DEF After

-----------------------------------------------------------------------------
(* Linking an entry where it belongs.                                      *)

\* The links that are right once x is linked behind its predecessor p.
LEMMA SuccInsert ==
  ASSUME NEW L \in SUBSET Entry, NEW y \in Entry \ L, NEW p, IsPrev(L, p, y),
         NEW n, Succ(L, p, n)
  PROVE  /\ Succ(L \cup {y}, p, y)
         /\ Succ(L \cup {y}, y, n)
         /\ \A q \in (L \cup {Head_}) \ {p} : \A m : Succ(L, q, m) => Succ(L \cup {y}, q, m)
<1>1. /\ p \in L \cup {Head_} /\ After(p, y) /\ p \in Entry \cup {Head_}
      /\ \A q \in L \cup {Head_} : After(q, y) => q = p \/ After(q, p)
  BY DEF IsPrev
<1>2. \A r \in L : After(p, r) => After(y, r)
  <2> SUFFICES ASSUME NEW r \in L, After(p, r) PROVE After(y, r)
    OBVIOUS
  <2>1. ~After(r, p) /\ r # p
    BY <1>1, AfterStrict
  <2>2. ~After(r, y)
    BY <1>1, <2>1
  <2> QED
    BY <2>2, AfterTotal
<1>3. \A r \in L : After(y, r) => After(p, r)
  BY <1>1, AfterTransitive
<1>4. ~After(y, y) /\ y # NULL
  BY AfterStrict, NoEntries
<1>5. Succ(L \cup {y}, p, y)
  BY <1>1, <1>2, <1>4 DEF Succ
<1>6. Succ(L \cup {y}, y, n)
  BY <1>2, <1>3, <1>4 DEF Succ
<1>7. ASSUME NEW q \in (L \cup {Head_}) \ {p}, NEW m, Succ(L, q, m)
      PROVE  Succ(L \cup {y}, q, m)
  <2>1. ASSUME After(q, y) PROVE m # NULL /\ After(m, y)
    <3>1. After(q, p)
      BY <1>1, <1>7, <2>1
    <3>2. p \in L
      BY <1>1, <1>7, <3>1, NoEntries
    <3>3. m # NULL /\ m \in L /\ (p = m \/ After(m, p))
      BY <1>7, <3>1, <3>2 DEF Succ
    <3> QED
      BY <1>1, <3>2, <3>3, AfterTransitive
  <2> QED
    BY <1>7, <2>1 DEF Succ
<1> QED
  BY <1>5, <1>6, <1>7

\* Every entry keeps a place.
LEMMA PrevInsert ==
  ASSUME NEW L \in SUBSET Entry, NEW y \in Entry, NEW e \in Entry, NEW p, IsPrev(L, p, e)
  PROVE  \E r \in L \cup {y} \cup {Head_} : IsPrev(L \cup {y}, r, e)
<1>1. /\ p \in L \cup {Head_} /\ After(p, e) /\ p \in Entry \cup {Head_}
      /\ \A q \in L \cup {Head_} : After(q, e) => q = p \/ After(q, p)
  BY DEF IsPrev
<1>2. CASE ~After(y, e)
  <2>1. IsPrev(L \cup {y}, p, e)
    BY <1>1, <1>2 DEF IsPrev
  <2> QED
    BY <1>1, <2>1
<1>3. CASE After(y, e) /\ After(p, y)
  <2>1. \A q \in L \cup {Head_} : After(q, e) => After(q, y)
    <3> SUFFICES ASSUME NEW q \in L \cup {Head_}, After(q, e) PROVE After(q, y)
      OBVIOUS
    <3>1. CASE q = p
      BY <1>3, <3>1
    <3>2. CASE q # p
      <4>1. After(q, p)
        BY <1>1, <3>2
      <4>2. CASE p = Head_
        BY <3>2, <4>1, <4>2, NoEntries
      <4>3. CASE p # Head_
        BY <1>1, <1>3, <4>1, <4>3, AfterTransitive
      <4> QED
        BY <4>2, <4>3
    <3> QED
      BY <3>1, <3>2
  <2>2. IsPrev(L \cup {y}, y, e)
    BY <1>3, <2>1 DEF IsPrev
  <2> QED
    BY <2>2
<1>4. CASE After(y, e) /\ ~After(p, y)
  <2>1. y = p \/ After(y, p)
    BY <1>1, <1>4, AfterTotal
  <2>2. IsPrev(L \cup {y}, p, e)
    BY <1>1, <2>1 DEF IsPrev
  <2> QED
    BY <1>1, <2>2
<1> QED
  BY <1>2, <1>3, <1>4

-----------------------------------------------------------------------------
(* Facts that the actions share.                                           *)

LEMMA LevelType == Level \subseteq Nat /\ 0 \in Level
BY MemTableAssumption DEF Level

LEMMA LinkedNodes ==
  ASSUME NEW l
  PROVE  Linked(l) \subseteq Nodes /\ Linked(l) \subseteq DOMAIN next_
BY DEF Linked, Nodes

LEMMA LinkedEntries ==
  ASSUME TypeInv, NEW l
  PROVE  Linked(l) \in SUBSET Entry
BY DEF TypeInv, Linked, Nodes

\* Where max_height_ is the largest of heights, it is the only such.
LEMMA MaxHeight ==
  ASSUME NEW H \in SUBSET Nat, NEW h \in H, \A g \in H : g <= h
  PROVE  (CHOOSE m \in H : \A g \in H : g <= m) = h
<1> DEFINE m == CHOOSE c \in H : \A g \in H : g <= c
<1>1. m \in H /\ \A g \in H : g <= m
  OBVIOUS
<1> HIDE DEF m
<1>2. m = h
  BY <1>1
<1> QED
  BY <1>2 DEF m

\* FindGreaterOrEqual returns the predecessors of a new entry.
LEMMA PrevAtFacts ==
  ASSUME TypeInv, HeightInv, LinkInv, NEW e \in Entry, NEW l \in Level
  PROVE  IsPrev(Linked(l), PrevAt(e, l), e)
<1>1. CASE l >= max_height_
  <2>1. Linked(l) = {}
    BY <1>1, LevelType DEF HeightInv
  <2>2. PrevAt(e, l) = Head_
    BY <1>1 DEF PrevAt
  <2> QED
    BY <2>1, <2>2 DEF IsPrev, After
<1>2. CASE ~(l >= max_height_)
  <2> DEFINE before == {Head_} \cup {p \in Linked(l) : Before(p, e)}
             Last(p) == \A q \in before : q = p \/ q = Head_ \/ (p # Head_ /\ Before(q, p))
  <2>1. PICK p \in Linked(l) \cup {Head_} : IsPrev(Linked(l), p, e)
    BY DEF LinkInv
  <2>2. p \in before /\ Last(p)
    BY <2>1, LinkedEntries, NoEntries DEF IsPrev, After
  <2>3. PrevAt(e, l) = CHOOSE c \in before : Last(c)
    BY <1>2 DEF PrevAt
  <2> HIDE DEF Last
  <2>4. PrevAt(e, l) \in before /\ Last(PrevAt(e, l))
    BY <2>2, <2>3
  <2> USE DEF Last
  <2> QED
    BY <2>4 DEF IsPrev, After
<1> QED
  BY <1>1, <1>2

\* A search that has ended is not touched by the writer.
LEMMA LandedSame ==
  ASSUME LandedRight, UNCHANGED readerVars
  PROVE  LandedRight'
BY DEF LandedRight, Ended, readerVars, Before

-----------------------------------------------------------------------------
(* The writer.                                                             *)

\* A new node is in no level yet.
LEMMA LinkedNew ==
  ASSUME TypeInv, NEW e \in Entry \ DOMAIN next_, NewNode(e)
  PROVE  /\ DOMAIN next_' = DOMAIN next_ \cup {e} /\ Nodes' = Nodes \cup {e}
         /\ \A p \in DOMAIN next_ : next_'[p] = next_[p]
         /\ next_'[e] = [l \in Level |-> Undef]
         /\ \A l \in Level : Linked(l)' = Linked(l)
         /\ next_' \in [DOMAIN next_' -> [Level -> Nodes' \cup {NULL, Undef}]]
<1>1. /\ DOMAIN next_' = DOMAIN next_ \cup {e}
      /\ \A p \in DOMAIN next_ : next_'[p] = next_[p]
      /\ next_'[e] = [l \in Level |-> Undef]
  BY DEF NewNode
<1>2. e # Head_ /\ e # Undef /\ Nodes' = Nodes \cup {e}
  BY <1>1, NoEntries DEF Nodes
<1>3. ASSUME NEW l \in Level PROVE Linked(l)' = Linked(l)
  <2>1. \A p \in DOMAIN next_ : next_[p][l] # e
    BY NoEntries DEF TypeInv, Nodes
  <2>2. \A d \in Nodes \cup {e} :
           (\E p \in DOMAIN next_ \cup {e} : next_'[p][l] = d) <=>
              d # e /\ \E p \in DOMAIN next_ : next_[p][l] = d
    BY <1>1, <1>2, <2>1, NoEntries DEF TypeInv
  <2> QED
    BY <1>1, <1>2, <2>2 DEF Linked, Nodes
<1>4. next_' \in [DOMAIN next_' -> [Level -> Nodes' \cup {NULL, Undef}]]
  BY <1>1, <1>2 DEF TypeInv, NewNode
<1> QED
  BY <1>1, <1>2, <1>3, <1>4

LEMMA AddStep ==
  ASSUME Inv, NEW k \in UserKeys, NEW t \in Types, NEW h \in RandomHeight, Add(k, t, h)
  PROVE  Inv'
<1> DEFINE e == [key |-> k, seq |-> Cardinality(DOMAIN next_), type |-> t]
<1>1. TypeInv /\ SequenceInv /\ HeightInv /\ LinkInv /\ ReaderInv /\ GetInv /\ LandedRight
  BY DEF Inv
<1>2. /\ insert.step = "none"
      /\ insert' = [x |-> e, height |-> h, i |-> 0, step |-> "init",
                    prev |-> [l \in 0 .. h - 1 |-> PrevAt(e, l)]]
      /\ heights' = IF h > max_height_ THEN heights \cup {h} ELSE heights
      /\ NewNode(e) /\ UNCHANGED <<LastSequence, readerVars>>
  BY DEF Add
<1>3. Cardinality(DOMAIN next_) \in Nat
  BY <1>1, FS_CardinalityType DEF TypeInv
<1>4. e \in Entry /\ e.seq = Cardinality(DOMAIN next_)
  BY <1>3, MemTableAssumption DEF Entry
<1> HIDE DEF e
<1>5. e \notin DOMAIN next_
  <2>1. e \notin Nodes
    BY <1>1, <1>3, <1>4 DEF SequenceInv
  <2> QED
    BY <1>4, <2>1, NoEntries DEF Nodes
<1>6. /\ DOMAIN next_' = DOMAIN next_ \cup {e} /\ Nodes' = Nodes \cup {e}
      /\ \A p \in DOMAIN next_ : next_'[p] = next_[p]
      /\ next_'[e] = [l \in Level |-> Undef]
      /\ \A l \in Level : Linked(l)' = Linked(l)
      /\ next_' \in [DOMAIN next_' -> [Level -> Nodes' \cup {NULL, Undef}]]
  BY <1>1, <1>2, <1>4, <1>5, LinkedNew
<1>7. /\ IsFiniteSet(DOMAIN next_')
      /\ Cardinality(DOMAIN next_') = Cardinality(DOMAIN next_) + 1
  BY <1>1, <1>5, <1>6, FS_AddElement DEF TypeInv
<1>8. Inserted' = Inserted
  BY <1>6, LevelType DEF Inserted
<1>9. TypeInv'
  BY <1>1, <1>2, <1>4, <1>6, <1>7 DEF TypeInv, readerVars
<1>10. SequenceInv'
  <2>1. Inserting' /\ insert'.x = e
    BY <1>2 DEF Inserting
  <2>2. \A f \in Nodes : f \in Inserted /\ f.seq \in Nat
    BY <1>1, <1>2 DEF SequenceInv, Inserting, TypeInv, Entry
  <2>3. LastSequence \in Nat /\ LastSequence' = LastSequence
    BY <1>1, <1>2 DEF TypeInv
  <2> QED
    BY <1>1, <1>3, <1>4, <1>6, <1>7, <1>8, <2>1, <2>2, <2>3 DEF SequenceInv
<1>11. h \in 1 .. kMaxHeight /\ kMaxHeight \in Nat
  BY MemTableAssumption DEF RandomHeight
<1>12. max_height_' = IF h > max_height_ THEN h ELSE max_height_
  <2>1. CASE h > max_height_
    <3>1. heights' \in SUBSET Nat /\ h \in heights' /\ \A g \in heights' : g <= h
      BY <1>1, <1>2, <1>11, <2>1 DEF HeightInv
    <3> QED
      BY <2>1, <3>1, MaxHeight DEF max_height_
  <2>2. CASE ~(h > max_height_)
    BY <1>2, <2>2 DEF max_height_
  <2> QED
    BY <2>1, <2>2
<1>13. HeightInv' /\ h <= max_height_'
  <2>1. max_height_ \in heights /\ max_height_ \in Nat /\ \A g \in heights : g <= max_height_ /\ g \in Nat
    BY <1>1, <1>11 DEF HeightInv
  <2>2. \A l \in Level : Linked(l)' # {} => l < max_height_ /\ l \in Nat
    BY <1>1, <1>6, LevelType DEF HeightInv
  <2>3. heights' \subseteq 1 .. kMaxHeight
    BY <1>1, <1>2, <1>11 DEF HeightInv
  <2>4. max_height_' \in heights' /\ \A g \in heights' : g <= max_height_'
    BY <1>2, <1>11, <1>12, <2>1
  <2>5. h <= max_height_' /\ \A l \in Level : Linked(l)' # {} => l < max_height_'
    BY <1>11, <1>12, <2>1, <2>2
  <2> QED
    BY <2>3, <2>4, <2>5 DEF HeightInv
<1>14. LinkInv'
  <2>1. \A l \in Level : l \in Nat /\ \A m \in 0 .. l : m \in Level
    BY MemTableAssumption DEF Level
  <2>2. \A l \in Level : \A p \in Linked(l) \cup {Head_} : next_'[p] = next_[p]
    BY <1>1, <1>6, LinkedNodes DEF TypeInv
  <2>3. \A l \in Level :
          /\ \A p \in Linked(l)' \cup {Head_} : Succ(Linked(l)', p, next_'[p][l])
          /\ \A d \in Entry : \E p \in Linked(l)' \cup {Head_} : IsPrev(Linked(l)', p, d)
          /\ \A m \in 0 .. l : Linked(l)' \subseteq Linked(m)'
    BY <1>1, <1>6, <2>1, <2>2 DEF LinkInv
  <2> QED
    BY <2>3 DEF LinkInv
<1>15. InsertInv'
  <2>1. \A l \in 0 .. h - 1 : l \in Level
    BY <1>11 DEF Level
  <2>2. \A l \in 0 .. h - 1 : IsPrev(Linked(l)', insert'.prev[l], e)
    BY <1>1, <1>2, <1>4, <1>6, <2>1, PrevAtFacts
  <2>3. \A l \in Level : e \notin Linked(l)'
    BY <1>5, <1>6, LinkedNodes
  <2>4. max_height_' \in Nat
    BY <1>13, <1>11 DEF HeightInv
  <2>5. /\ insert'.x = e /\ insert'.height = h /\ insert'.i = 0 /\ insert'.step = "init"
        /\ DOMAIN insert' = {"x", "height", "prev", "i", "step"}
    BY <1>2
  <2>6. e \in Nodes'
    BY <1>6
  <2>7. h \in 1 .. max_height_' /\ 0 \in 0 .. h - 1
    BY <1>11, <1>13, <2>4
  <2> QED
    BY <1>6, <2>2, <2>3, <2>5, <2>6, <2>7 DEF InsertInv
<1>16. ReaderInv'
  BY <1>1, <1>2, <1>6, <1>8, LevelType DEF ReaderInv, readerVars
<1>17. GetInv'
  BY <1>1, <1>2, <1>3, <1>4, <1>6 DEF GetInv, readerVars, SequenceInv, TypeInv, Entry
<1>18. LandedRight'
  BY <1>1, <1>2, LandedSame
<1> QED
  BY <1>9, <1>10, <1>13, <1>14, <1>15, <1>16, <1>17, <1>18 DEF Inv

\* A store to one link.
LEMMA SetNextFacts ==
  ASSUME TypeInv, NEW n \in DOMAIN next_, NEW i \in Level, NEW m \in Nodes \cup {NULL, Undef},
         SetNext(n, i, m)
  PROVE  /\ DOMAIN next_' = DOMAIN next_ /\ Nodes' = Nodes
         /\ next_' \in [DOMAIN next_' -> [Level -> Nodes' \cup {NULL, Undef}]]
         /\ next_'[n][i] = m
         /\ \A p \in DOMAIN next_, l \in Level : <<p, l>> # <<n, i>> => next_'[p][l] = next_[p][l]
         /\ \A l \in Level : l # i => Linked(l)' = Linked(l)
<1>1. /\ DOMAIN next_' = DOMAIN next_
      /\ next_'[n][i] = m
      /\ \A p \in DOMAIN next_, l \in Level : <<p, l>> # <<n, i>> => next_'[p][l] = next_[p][l]
  BY DEF TypeInv, SetNext
<1>2. Nodes' = Nodes
  BY <1>1 DEF Nodes
<1>3. next_' \in [DOMAIN next_' -> [Level -> Nodes' \cup {NULL, Undef}]]
  <2>1. [next_[n] EXCEPT ![i] = m] \in [Level -> Nodes \cup {NULL, Undef}]
    BY DEF TypeInv
  <2>2. next_' = [next_ EXCEPT ![n] = [next_[n] EXCEPT ![i] = m]]
    BY DEF SetNext
  <2> QED
    BY <1>1, <1>2, <2>1, <2>2 DEF TypeInv
<1>4. ASSUME NEW l \in Level, l # i PROVE Linked(l)' = Linked(l)
  <2>1. \A p \in DOMAIN next_ : next_'[p][l] = next_[p][l]
    BY <1>1, <1>4
  <2> QED
    BY <1>1, <2>1 DEF Linked
<1> QED
  BY <1>1, <1>2, <1>3, <1>4

\* The place where the running Insert stores next.
LEMMA InsertPlace ==
  ASSUME Inv, Inserting
  PROVE  /\ insert.i \in Level /\ insert.i \in Nat /\ insert.height \in Nat
         /\ insert.x \in Nodes /\ insert.x \in Entry
         /\ insert.prev[insert.i] \in Linked(insert.i) \cup {Head_}
         /\ insert.prev[insert.i] \in DOMAIN next_
         /\ insert.prev[insert.i] # insert.x
         /\ IsPrev(Linked(insert.i), insert.prev[insert.i], insert.x)
         /\ Succ(Linked(insert.i), insert.prev[insert.i], next_[insert.prev[insert.i]][insert.i])
         /\ next_[insert.prev[insert.i]][insert.i] \in Linked(insert.i) \cup {NULL}
<1>1. /\ insert.x \in Nodes /\ insert.height \in 1 .. max_height_
      /\ insert.i \in 0 .. insert.height - 1
      /\ \A l \in Level : l >= insert.i => insert.x \notin Linked(l)
      /\ \A l \in insert.i .. insert.height - 1 : IsPrev(Linked(l), insert.prev[l], insert.x)
  BY DEF Inv, InsertInv
<1>2. max_height_ \in 1 .. kMaxHeight /\ kMaxHeight \in Nat
  BY MemTableAssumption DEF Inv, HeightInv
<1>3. insert.i \in Level /\ insert.i \in Nat /\ insert.height \in Nat
  BY <1>1, <1>2 DEF Level
<1>4. IsPrev(Linked(insert.i), insert.prev[insert.i], insert.x)
  BY <1>1, <1>3
<1>5. insert.prev[insert.i] \in Linked(insert.i) \cup {Head_}
  BY <1>4 DEF IsPrev
<1>6. Succ(Linked(insert.i), insert.prev[insert.i], next_[insert.prev[insert.i]][insert.i])
  BY <1>3, <1>5 DEF Inv, LinkInv
<1>7. insert.x \in Entry /\ insert.prev[insert.i] \in DOMAIN next_
  BY <1>1, <1>5, LinkedNodes DEF Inv, TypeInv
<1>8. insert.prev[insert.i] # insert.x
  BY <1>1, <1>3, <1>5, <1>7, NoEntries
<1> QED
  BY <1>1, <1>3, <1>4, <1>5, <1>6, <1>7, <1>8 DEF Succ

LEMMA InitLinkStep ==
  ASSUME Inv, InitLink
  PROVE  Inv'
<1> DEFINE y == insert.x
           i == insert.i
           p == insert.prev[insert.i]
           n == next_[p][i]
<1>1. TypeInv /\ SequenceInv /\ HeightInv /\ LinkInv /\ InsertInv /\ ReaderInv /\ GetInv /\ LandedRight
  BY DEF Inv
<1>2. /\ insert.step = "init" /\ SetNext(y, i, n)
      /\ insert' = [insert EXCEPT !.step = "publish"]
      /\ UNCHANGED <<heights, LastSequence, readerVars>>
  BY DEF InitLink
<1>3. Inserting
  BY <1>2 DEF Inserting
<1>4. /\ i \in Level /\ y \in Nodes /\ y \in DOMAIN next_ /\ y \in Entry
      /\ p \in DOMAIN next_ /\ p # y /\ n \in Linked(i) \cup {NULL}
  BY <1>3, InsertPlace DEF Nodes
<1>5. DOMAIN insert = {"x", "height", "prev", "i", "step"}
  BY <1>1, <1>3 DEF InsertInv
<1>6. /\ insert'.x = y /\ insert'.i = i /\ insert'.height = insert.height
      /\ insert'.prev = insert.prev /\ insert'.step = "publish"
      /\ DOMAIN insert' = {"x", "height", "prev", "i", "step"}
  BY <1>2, <1>5
<1>7. n \in Nodes \cup {NULL, Undef}
  BY <1>4, LinkedNodes
<1> HIDE DEF y, i, p, n
<1>8. /\ DOMAIN next_' = DOMAIN next_ /\ Nodes' = Nodes
      /\ next_' \in [DOMAIN next_' -> [Level -> Nodes' \cup {NULL, Undef}]]
      /\ next_'[y][i] = n
      /\ \A q \in DOMAIN next_, l \in Level : <<q, l>> # <<y, i>> => next_'[q][l] = next_[q][l]
      /\ \A l \in Level : l # i => Linked(l)' = Linked(l)
  BY <1>1, <1>2, <1>4, <1>7, SetNextFacts
<1>9. y \notin Linked(i)
  BY <1>1, <1>3, <1>4, LevelType DEF InsertInv, y, i
<1>10. \A l \in Level : Linked(l)' = Linked(l)
  <2>1. next_[p][i] = n
    BY DEF n
  <2>2. ASSUME NEW d \in Nodes
        PROVE  (\E q \in DOMAIN next_ : next_'[q][i] = d) <=> (\E q \in DOMAIN next_ : next_[q][i] = d)
    <3>1. next_[y][i] = Undef
      BY <1>1, <1>2, <1>3, <1>4 DEF InsertInv, y, i
    <3>2. d # Undef
      BY <2>2, <1>1, NoEntries DEF TypeInv
    <3> QED
      BY <1>4, <1>8, <2>1, <3>1, <3>2
  <2> QED
    BY <1>8, <2>2 DEF Linked, Nodes
<1>11. Inserted' = Inserted
  BY <1>10, LevelType DEF Inserted
<1>12. TypeInv'
  BY <1>1, <1>2, <1>6, <1>8 DEF TypeInv, readerVars
<1>13. SequenceInv'
  BY <1>1, <1>2, <1>3, <1>6, <1>8, <1>11 DEF SequenceInv, Inserting, y
<1>14. max_height_' = max_height_ /\ HeightInv'
  BY <1>1, <1>2, <1>10 DEF HeightInv, max_height_
<1>15. LinkInv'
  <2>1. \A l \in Level : l \in Nat /\ \A m \in 0 .. l : m \in Level
    BY MemTableAssumption DEF Level
  <2>2. \A l \in Level : \A q \in Linked(l) \cup {Head_} : next_'[q][l] = next_[q][l]
    BY <1>1, <1>4, <1>8, <1>9, LinkedNodes, NoEntries DEF TypeInv
  <2>3. \A l \in Level :
          /\ \A q \in Linked(l)' \cup {Head_} : Succ(Linked(l)', q, next_'[q][l])
          /\ \A d \in Entry : \E q \in Linked(l)' \cup {Head_} : IsPrev(Linked(l)', q, d)
          /\ \A m \in 0 .. l : Linked(l)' \subseteq Linked(m)'
    BY <1>1, <1>10, <2>1, <2>2 DEF LinkInv
  <2> QED
    BY <2>3 DEF LinkInv
<1>16. InsertInv'
  <2>1. /\ \A l \in 0 .. i - 1 : y \in Linked(l) /\ l \in Level
        /\ \A l \in Level : l >= i => y \notin Linked(l)
        /\ \A l \in i .. insert.height - 1 : IsPrev(Linked(l), insert.prev[l], y) /\ l \in Level
        /\ \A l \in Level : l > i => next_[y][l] = Undef
        /\ insert.height \in 1 .. max_height_ /\ i \in 0 .. insert.height - 1
    <3>1. max_height_ \in 1 .. kMaxHeight /\ kMaxHeight \in Nat
      BY <1>1, MemTableAssumption DEF HeightInv
    <3> QED
      BY <1>1, <1>3, <1>4, <3>1 DEF InsertInv, y, i, Level
  <2>2. \A l \in Level : l > i => next_'[y][l] = Undef
    BY <1>4, <1>8, <2>1, LevelType
  <2>3. next_'[insert.prev[i]][i] = n
    BY <1>4, <1>8 DEF p, n, i
  <2> QED
    BY <1>4, <1>6, <1>8, <1>10, <1>14, <2>1, <2>2, <2>3 DEF InsertInv
<1>17. ReaderInv'
  BY <1>1, <1>2, <1>10, <1>11, LevelType DEF ReaderInv, readerVars
<1>18. GetInv'
  BY <1>1, <1>2, <1>8 DEF GetInv, readerVars
<1>19. LandedRight'
  BY <1>1, <1>2, LandedSame
<1> QED
  BY <1>12, <1>13, <1>14, <1>15, <1>16, <1>17, <1>18, <1>19 DEF Inv

LEMMA PublishStep ==
  ASSUME Inv, Publish
  PROVE  Inv'
<1>0. PICK y, i, p, n : /\ y = insert.x /\ i = insert.i
                        /\ p = insert.prev[insert.i] /\ n = next_[p][i]
  OBVIOUS
<1> DEFINE last == insert.i + 1 = insert.height
<1>1. TypeInv /\ SequenceInv /\ HeightInv /\ LinkInv /\ InsertInv /\ ReaderInv /\ GetInv /\ LandedRight
  BY DEF Inv
<1>2. /\ insert.step = "publish" /\ SetNext(p, i, y)
      /\ insert' = IF last THEN NoInsert ELSE [insert EXCEPT !.i = insert.i + 1, !.step = "init"]
      /\ UNCHANGED <<heights, LastSequence, readerVars>>
  BY <1>0 DEF Publish
<1>3. Inserting
  BY <1>2 DEF Inserting
<1>4. /\ i \in Level /\ i \in Nat /\ insert.height \in Nat
      /\ y \in Nodes /\ y \in DOMAIN next_ /\ y \in Entry
      /\ p \in DOMAIN next_ /\ p # y /\ p \in Linked(i) \cup {Head_}
      /\ IsPrev(Linked(i), p, y) /\ Succ(Linked(i), p, n) /\ n \in Linked(i) \cup {NULL}
  BY <1>0, <1>3, InsertPlace DEF Nodes
<1>5. /\ DOMAIN insert = {"x", "height", "prev", "i", "step"}
      /\ next_[y][i] = n
  BY <1>0, <1>1, <1>2, <1>3 DEF InsertInv
<1>6. ~last => /\ insert'.x = y /\ insert'.i = i + 1 /\ insert'.height = insert.height
               /\ insert'.prev = insert.prev /\ insert'.step = "init"
               /\ DOMAIN insert' = {"x", "height", "prev", "i", "step"}
  BY <1>0, <1>2, <1>5
<1>7. last => insert'.step = "none"
  BY <1>2 DEF NoInsert
<1>8. max_height_ \in 1 .. kMaxHeight /\ kMaxHeight \in Nat
  BY <1>1, MemTableAssumption DEF HeightInv
<1>9. /\ \A l \in 0 .. i - 1 : y \in Linked(l) /\ l \in Level
      /\ \A l \in Level : l >= i => y \notin Linked(l)
      /\ \A l \in i .. insert.height - 1 : IsPrev(Linked(l), insert.prev[l], y) /\ l \in Level
      /\ \A l \in Level : l > i => next_[y][l] = Undef
      /\ insert.height \in 1 .. max_height_ /\ i \in 0 .. insert.height - 1
  BY <1>0, <1>1, <1>3, <1>4, <1>8 DEF InsertInv, Level
<1>10. next_[p][i] = n
  BY <1>0
<1>11. y \notin Linked(i)
  BY <1>4, <1>9
<1>12. /\ DOMAIN next_' = DOMAIN next_ /\ Nodes' = Nodes
       /\ next_' \in [DOMAIN next_' -> [Level -> Nodes' \cup {NULL, Undef}]]
       /\ next_'[p][i] = y
       /\ \A q \in DOMAIN next_, l \in Level : <<q, l>> # <<p, i>> => next_'[q][l] = next_[q][l]
       /\ \A l \in Level : l # i => Linked(l)' = Linked(l)
  BY <1>1, <1>2, <1>4, SetNextFacts
<1>13. Linked(i)' = Linked(i) \cup {y}
  <2>1. ASSUME NEW d \in Nodes
        PROVE  (\E q \in DOMAIN next_ : next_'[q][i] = d) <=>
                  d = y \/ (\E q \in DOMAIN next_ : next_[q][i] = d)
    <3>1. ASSUME NEW q \in DOMAIN next_, next_[q][i] = d
          PROVE  \E r \in DOMAIN next_ : next_'[r][i] = d
      <4>1. CASE q = p
        BY <1>4, <1>5, <1>10, <1>12, <3>1, <4>1
      <4>2. CASE q # p
        BY <1>4, <1>12, <3>1, <4>2
      <4> QED
        BY <4>1, <4>2
    <3>2. ASSUME NEW q \in DOMAIN next_, next_'[q][i] = d, d # y
          PROVE  next_[q][i] = d
      BY <1>4, <1>12, <3>2
    <3> QED
      BY <1>4, <1>12, <3>1, <3>2
  <2> QED
    BY <1>4, <1>12, <2>1 DEF Linked, Nodes
<1>14. \A l \in Level : Linked(l) \subseteq Linked(l)'
  BY <1>12, <1>13
<1>15. Inserted \subseteq Inserted' /\ y \in Inserted' /\ Inserted' \subseteq Inserted \cup {y}
  <2>1. CASE i = 0
    BY <1>13, <2>1 DEF Inserted
  <2>2. CASE i # 0
    BY <1>4, <1>9, <1>12, <2>2, LevelType DEF Inserted
  <2> QED
    BY <2>1, <2>2
<1>16. TypeInv'
  BY <1>1, <1>2, <1>6, <1>7, <1>12 DEF TypeInv, readerVars
<1>17. SequenceInv'
  <2>1. \A e \in Nodes : e \in Inserted'
    BY <1>0, <1>1, <1>15 DEF SequenceInv
  <2> QED
    BY <1>1, <1>2, <1>12, <2>1 DEF SequenceInv
<1>18. max_height_' = max_height_ /\ heights' = heights
  BY <1>2 DEF max_height_
<1>19. HeightInv'
  <2>1. i < max_height_
    BY <1>4, <1>8, <1>9
  <2>2. \A l \in Level : Linked(l)' # {} => l < max_height_
    BY <1>1, <1>12, <2>1 DEF HeightInv
  <2> QED
    BY <1>1, <1>18, <2>2 DEF HeightInv
<1>20. LinkInv'
  <2>1. \A l \in Level : l \in Nat /\ \A m \in 0 .. l : m \in Level /\ m \in Nat
    BY MemTableAssumption DEF Level
  <2>2. Linked(i) \in SUBSET Entry /\ Linked(i) \subseteq DOMAIN next_ /\ Head_ \in DOMAIN next_
    BY <1>1, LinkedEntries, LinkedNodes DEF TypeInv
  <2>3. ASSUME NEW l \in Level, NEW q \in Linked(l)' \cup {Head_}
        PROVE  Succ(Linked(l)', q, next_'[q][l])
    <3>1. CASE l # i
      <4>1. q \in Linked(l) \cup {Head_} /\ q \in DOMAIN next_
        BY <1>12, <2>2, <2>3, <3>1, LinkedNodes
      <4>2. next_'[q][l] = next_[q][l]
        BY <1>12, <3>1, <4>1
      <4> QED
        BY <1>1, <1>12, <3>1, <4>1, <4>2 DEF LinkInv
    <3>2. CASE l = i
      <4>1. /\ Succ(Linked(i) \cup {y}, p, y)
            /\ Succ(Linked(i) \cup {y}, y, n)
            /\ \A r \in (Linked(i) \cup {Head_}) \ {p} :
                  \A m : Succ(Linked(i), r, m) => Succ(Linked(i) \cup {y}, r, m)
        BY <1>4, <1>11, <2>2, SuccInsert
      <4>2. CASE q = p
        BY <1>12, <1>13, <3>2, <4>1, <4>2
      <4>3. CASE q = y
        BY <1>4, <1>5, <1>12, <1>13, <3>2, <4>1, <4>3
      <4>4. CASE q # p /\ q # y
        <5>1. q \in (Linked(i) \cup {Head_}) \ {p} /\ q \in DOMAIN next_
          BY <1>13, <2>2, <2>3, <3>2, <4>4
        <5>2. next_'[q][i] = next_[q][i]
          BY <1>4, <1>12, <4>4, <5>1
        <5>3. Succ(Linked(i), q, next_[q][i])
          BY <1>1, <1>4, <5>1 DEF LinkInv
        <5> QED
          BY <1>13, <3>2, <4>1, <5>1, <5>2, <5>3
      <4> QED
        BY <4>2, <4>3, <4>4
    <3> QED
      BY <3>1, <3>2
  <2>4. ASSUME NEW l \in Level, NEW e \in Entry
        PROVE  \E q \in Linked(l)' \cup {Head_} : IsPrev(Linked(l)', q, e)
    <3>1. PICK q \in Linked(l) \cup {Head_} : IsPrev(Linked(l), q, e)
      BY <1>1 DEF LinkInv
    <3>2. CASE l # i
      BY <1>12, <3>1, <3>2
    <3>3. CASE l = i
      <4>1. IsPrev(Linked(i), q, e)
        BY <3>1, <3>3
      <4>2. PICK r \in Linked(i) \cup {y} \cup {Head_} : IsPrev(Linked(i) \cup {y}, r, e)
        BY <1>4, <2>2, <4>1, PrevInsert
      <4> QED
        BY <1>13, <3>3, <4>2
    <3> QED
      BY <3>2, <3>3
  <2>5. ASSUME NEW l \in Level, NEW m \in 0 .. l
        PROVE  Linked(l)' \subseteq Linked(m)'
    <3>1. Linked(l) \subseteq Linked(m) /\ m \in Level
      BY <1>1, <2>1 DEF LinkInv
    <3>2. CASE l # i
      BY <1>12, <1>14, <3>1, <3>2
    <3>3. CASE l = i
      <4>1. y \in Linked(m)'
        <5>1. CASE m = i
          BY <1>13, <5>1
        <5>2. CASE m # i
          BY <1>9, <1>12, <2>1, <3>1, <3>3, <5>2
        <5> QED
          BY <5>1, <5>2
      <4> QED
        BY <1>13, <1>14, <3>1, <3>3, <4>1
    <3> QED
      BY <3>2, <3>3
  <2> QED
    BY <2>3, <2>4, <2>5 DEF LinkInv
<1>21. InsertInv'
  <2>1. CASE last
    BY <1>7, <2>1 DEF InsertInv, Inserting
  <2>2. CASE ~last
    <3>1. insert.height \in 1 .. max_height_ /\ i + 1 \in 0 .. insert.height - 1
      BY <1>0, <1>4, <1>9, <2>2
    <3>2. \A l \in 0 .. i : y \in Linked(l)'
      <4> SUFFICES ASSUME NEW l \in 0 .. i PROVE y \in Linked(l)'
        OBVIOUS
      <4>1. CASE l = i
        BY <1>13, <4>1
      <4>2. CASE l # i
        BY <1>4, <1>9, <1>12, <4>2
      <4> QED
        BY <4>1, <4>2
    <3>3. \A l \in Level : l >= i + 1 => y \notin Linked(l)'
      BY <1>4, <1>9, <1>12, LevelType
    <3>4. \A l \in i + 1 .. insert.height - 1 : IsPrev(Linked(l)', insert.prev[l], y)
      BY <1>4, <1>9, <1>12
    <3>5. \A l \in Level : l > i + 1 \/ l = i + 1 => next_'[y][l] = Undef
      BY <1>4, <1>9, <1>12, LevelType
    <3>6. /\ insert'.x = y /\ insert'.i = i + 1 /\ insert'.height = insert.height
          /\ insert'.prev = insert.prev /\ insert'.step = "init"
          /\ DOMAIN insert' = {"x", "height", "prev", "i", "step"}
          /\ i + 1 - 1 = i
      BY <1>4, <1>6, <2>2
    <3> HIDE DEF last
    <3> QED
      BY <1>4, <1>12, <1>18, <3>1, <3>2, <3>3, <3>4, <3>5, <3>6 DEF InsertInv
  <2> QED
    BY <2>1, <2>2
<1>22. ReaderInv'
  BY <1>1, <1>2, <1>14, <1>15 DEF ReaderInv, readerVars
<1>23. GetInv'
  BY <1>1, <1>2, <1>12 DEF GetInv, readerVars
<1>24. LandedRight'
  BY <1>1, <1>2, LandedSame
<1> QED
  BY <1>16, <1>17, <1>19, <1>20, <1>21, <1>22, <1>23, <1>24 DEF Inv

LEMMA SetLastSequenceStep ==
  ASSUME Inv, SetLastSequence
  PROVE  Inv'
<1>1. TypeInv /\ SequenceInv /\ HeightInv /\ LinkInv /\ InsertInv /\ ReaderInv /\ GetInv /\ LandedRight
  BY DEF Inv
<1>2. /\ insert.step = "none" /\ LastSequence < Cardinality(DOMAIN next_) - 1
      /\ LastSequence' = Cardinality(DOMAIN next_) - 1
      /\ UNCHANGED <<next_, heights, insert, readerVars>>
  BY DEF SetLastSequence
<1>3. Cardinality(DOMAIN next_) \in Nat /\ LastSequence \in Nat /\ LastSequence' \in Nat
  BY <1>1, <1>2, FS_CardinalityType DEF TypeInv
<1>4. TypeInv'
  BY <1>1, <1>2, <1>3 DEF TypeInv, readerVars, Nodes
<1>5. SequenceInv'
  BY <1>1, <1>2, <1>3 DEF SequenceInv, Nodes, Inserting, Inserted, Linked
<1>6. HeightInv'
  BY <1>1, <1>2 DEF HeightInv, max_height_, Linked
<1>7. LinkInv'
  <2>1. \A l : Linked(l)' = Linked(l)
    BY <1>2 DEF Linked
  <2> QED
    BY <1>1, <1>2, <2>1 DEF LinkInv
<1>8. InsertInv'
  BY <1>2 DEF InsertInv, Inserting
<1>9. ReaderInv'
  BY <1>1, <1>2 DEF ReaderInv, readerVars, Inserted, Linked
<1>10. GetInv'
  <2>1. op = "get" => target \in Entry /\ target.seq \in Nat
    BY <1>1 DEF GetInv, Entry
  <2>2. op = "get" => target.seq <= LastSequence'
    BY <1>1, <1>2, <1>3, <2>1 DEF GetInv
  <2> QED
    BY <1>1, <1>2, <2>2 DEF GetInv, readerVars, Nodes
<1>11. LandedRight'
  BY <1>1, <1>2, LandedSame
<1> QED
  BY <1>4, <1>5, <1>6, <1>7, <1>8, <1>9, <1>10, <1>11 DEF Inv

-----------------------------------------------------------------------------
(* The reader.                                                             *)

\* A reader leaves the list as it is.
LEMMA ListSame ==
  ASSUME Inv, UNCHANGED listVars
  PROVE  /\ SequenceInv' /\ HeightInv' /\ LinkInv' /\ InsertInv'
         /\ Nodes' = Nodes /\ Inserted' = Inserted /\ LastSequence' = LastSequence
         /\ \A l \in Level : Linked(l)' = Linked(l)
         /\ op' \in {"none", "get", "ge", "lt", "last"} /\ running' \in BOOLEAN => TypeInv'
<1> USE DEF listVars
<1>1. SequenceInv'
  BY DEF Inv, SequenceInv, Nodes, Inserting, Inserted, Linked
<1>2. HeightInv'
  BY DEF Inv, HeightInv, max_height_, Linked
<1>3. LinkInv'
  <2>1. \A l : Linked(l)' = Linked(l)
    BY DEF Linked
  <2> QED
    BY <2>1 DEF Inv, LinkInv
<1>4. InsertInv'
  <2>1. (\A l : Linked(l)' = Linked(l)) /\ Nodes' = Nodes /\ max_height_' = max_height_
    BY DEF Linked, Nodes, max_height_
  <2> QED
    BY <2>1 DEF Inv, InsertInv, Inserting
<1>5. /\ Nodes' = Nodes /\ Inserted' = Inserted /\ LastSequence' = LastSequence
      /\ \A l \in Level : Linked(l)' = Linked(l)
  BY DEF Nodes, Inserted, Linked
<1>6. op' \in {"none", "get", "ge", "lt", "last"} /\ running' \in BOOLEAN => TypeInv'
  BY DEF Inv, TypeInv, Nodes
<1> QED
  BY <1>1, <1>2, <1>3, <1>4, <1>5, <1>6

\* Whatever a search looks for, it starts at the head.
LEMMA SearchStep ==
  ASSUME Inv, NEW o \in {"get", "ge", "lt", "last"}, NEW t, Search(o, t),
         o # "last" => t \in Entry,
         o = "get" => t.type = kTypeValue /\ t.seq = LastSequence
  PROVE  Inv'
<1>1. /\ op' = o /\ running' = TRUE /\ target' = t /\ x' = Head_ /\ present' = Inserted
      /\ node_' = node_ /\ \E h \in heights : level' = h - 1
      /\ UNCHANGED listVars
  BY DEF Search
<1>2. /\ SequenceInv' /\ HeightInv' /\ LinkInv' /\ InsertInv' /\ TypeInv'
      /\ Nodes' = Nodes /\ Inserted' = Inserted /\ LastSequence' = LastSequence
  BY <1>1, ListSame
<1>3. level' \in Level
  BY <1>1, MemTableAssumption DEF Inv, HeightInv, Level
<1>4. ReaderInv'
  BY <1>1, <1>2, <1>3 DEF Inv, ReaderInv, After
<1>5. GetInv'
  <2>1. LastSequence \in Nat
    BY DEF Inv, TypeInv
  <2> QED
    BY <1>1, <1>2, <2>1 DEF Inv, SequenceInv, GetInv
<1>6. LandedRight'
  BY <1>1 DEF LandedRight, Ended
<1> QED
  BY <1>2, <1>4, <1>5, <1>6 DEF Inv

LEMMA MoveStep ==
  ASSUME Inv, NEW q \in Inserted \cup {Head_}, Move(next_[q][0])
  PROVE  Inv'
<1>1. /\ ~running /\ node_' = next_[q][0] /\ present' = {} /\ op' = "none"
      /\ UNCHANGED <<listVars, running>>
  BY DEF Move
<1>2. next_[q][0] \in Inserted \cup {NULL}
  BY LevelType DEF Inv, LinkInv, Inserted, Succ
<1>3. running' = FALSE
  BY <1>1 DEF Inv, TypeInv
<1>4. /\ SequenceInv' /\ HeightInv' /\ LinkInv' /\ InsertInv' /\ TypeInv'
      /\ Inserted' = Inserted
  BY <1>1, <1>3, ListSame
<1>5. ReaderInv'
  BY <1>1, <1>2, <1>3, <1>4 DEF ReaderInv
<1>6. GetInv' /\ LandedRight'
  BY <1>1 DEF GetInv, LandedRight, Ended
<1> QED
  BY <1>4, <1>5, <1>6 DEF Inv

\* Where a search stops at level 0, nothing lies between x and the next node.
LEMMA StepStep ==
  ASSUME Inv, Step
  PROVE  Inv'
<1>1. PICK n : n = next_[x][level]
  OBVIOUS
<1>2. /\ running
      /\ \/ GoesOn(n) /\ x' = n /\ UNCHANGED <<running, level, node_>>
         \/ ~GoesOn(n) /\ level > 0 /\ level' = level - 1 /\ UNCHANGED <<running, x, node_>>
         \/ /\ ~GoesOn(n) /\ level = 0 /\ running' = FALSE /\ UNCHANGED <<x, level>>
            /\ node_' = CASE op \in {"get", "ge"} -> n
                          [] op \in {"lt", "last"} /\ x = Head_ -> NULL
                          [] OTHER -> x
      /\ UNCHANGED <<listVars, op, target, present>>
  BY <1>1 DEF Step
<1>3. TypeInv /\ LinkInv /\ ReaderInv /\ GetInv
  BY DEF Inv
<1>4. running' \in BOOLEAN
  BY <1>2, <1>3 DEF TypeInv
<1>5. /\ SequenceInv' /\ HeightInv' /\ LinkInv' /\ InsertInv' /\ TypeInv'
      /\ Nodes' = Nodes /\ Inserted' = Inserted /\ LastSequence' = LastSequence
      /\ \A l \in Level : Linked(l)' = Linked(l)
  BY <1>2, <1>3, <1>4, ListSame DEF TypeInv
<1>6. /\ level \in Level /\ x \in Linked(level) \cup {Head_} /\ op # "none"
      /\ op # "last" => target \in Entry /\ After(x, target)
      /\ op \in {"get", "ge", "lt", "last"}
  BY <1>2, <1>3 DEF ReaderInv, TypeInv
<1>7. Succ(Linked(level), x, n) /\ n \in Linked(level) \cup {NULL}
  BY <1>1, <1>3, <1>6 DEF LinkInv, Succ
<1>8. /\ n = NULL => ~GoesOn(n)
      /\ n # NULL /\ op = "last" => GoesOn(n)
      /\ n # NULL /\ op # "last" => (GoesOn(n) <=> Before(n, target))
  BY DEF GoesOn
<1>9. x' \in Linked(level) \cup {Head_} /\ (op # "last" => After(x', target))
  BY <1>2, <1>6, <1>7, <1>8 DEF After
<1>10. CASE running' = TRUE
  <2>1. level' \in Level /\ x' \in Linked(level') \cup {Head_}
    <3>1. CASE level' = level
      BY <1>6, <1>9, <3>1
    <3>2. CASE level' = level - 1 /\ level > 0 /\ x' = x
      <4>1. level' \in Level /\ level' \in 0 .. level
        BY <1>6, <3>2, MemTableAssumption DEF Level
      <4>2. Linked(level) \subseteq Linked(level')
        BY <1>3, <1>6, <4>1 DEF LinkInv
      <4> QED
        BY <1>6, <3>2, <4>1, <4>2
    <3> QED
      BY <1>2, <1>10, <3>1, <3>2
  <2>2. Linked(level)' = Linked(level')
    BY <1>5, <2>1 DEF Linked, listVars
  <2>3. node_' = node_
    BY <1>2, <1>10
  <2>4. ReaderInv'
    BY <1>2, <1>3, <1>5, <1>6, <1>9, <2>1, <2>2, <2>3 DEF ReaderInv
  <2>5. GetInv'
    BY <1>2, <1>3, <1>5, <1>10 DEF GetInv
  <2>6. LandedRight'
    BY <1>10 DEF LandedRight, Ended
  <2> QED
    BY <1>5, <2>4, <2>5, <2>6 DEF Inv
<1>11. CASE running' # TRUE
  <2>1. /\ ~GoesOn(n) /\ level = 0 /\ running' = FALSE
        /\ node_' = CASE op \in {"get", "ge"} -> n
                      [] op \in {"lt", "last"} /\ x = Head_ -> NULL
                      [] OTHER -> x
    BY <1>2, <1>11
  <2>2. /\ Succ(Inserted, x, n) /\ n \in Inserted \cup {NULL} /\ x \in Inserted \cup {Head_}
        /\ Inserted \in SUBSET Entry
    BY <1>3, <1>6, <1>7, <2>1, LinkedEntries DEF Inserted
  <2>3. /\ op \in {"get", "ge"} => node_' = n
        /\ op \in {"lt", "last"} => node_' = IF x = Head_ THEN NULL ELSE x
    BY <1>6, <2>1
  <2>4. node_' \in Inserted \cup {NULL}
    BY <1>6, <2>2, <2>3
  <2>5. ReaderInv'
    BY <1>2, <1>3, <1>5, <2>1, <2>4 DEF ReaderInv
  <2>6. GetInv'
    <3>1. op = "get" => node_' = NULL \/ ~Before(node_', target)
      BY <1>8, <2>1, <2>3
    <3> QED
      BY <1>2, <1>3, <1>5, <3>1 DEF GetInv
  <2>7. present \subseteq Inserted
    BY <1>3 DEF ReaderInv
  <2>8. ASSUME NEW e \in present, op \in {"get", "ge"}, ~Before(e, target)
        PROVE  node_' # NULL /\ ~Before(e, node_')
    <3>1. e \in Entry /\ target \in Entry /\ After(x, target)
      BY <1>6, <2>2, <2>7, <2>8
    <3>2. After(x, e)
      <4>1. target = e \/ After(target, e)
        BY <2>8, <3>1, Total DEF After
      <4> QED
        BY <2>2, <3>1, <4>1, AfterTransitive
    <3>3. n # NULL /\ n \in Entry /\ (e = n \/ After(n, e))
      BY <2>2, <2>7, <3>2 DEF Succ
    <3>4. ~After(e, n)
      BY <3>1, <3>3, AfterStrict
    <3> QED
      BY <2>3, <2>8, <3>3, <3>4 DEF After
  <2>9. ASSUME NEW e \in present, op = "last" \/ (op = "lt" /\ Before(e, target))
        PROVE  node_' # NULL /\ ~Before(node_', e)
    <3>1. e \in Entry /\ e \in Inserted
      BY <2>2, <2>7
    <3>2. ~After(x, e)
      <4>1. SUFFICES ASSUME After(x, e) PROVE FALSE
        OBVIOUS
      <4>2. n # NULL /\ n \in Entry /\ (e = n \/ After(n, e))
        BY <2>2, <3>1, <4>1 DEF Succ
      <4>3. op = "lt" /\ Before(e, target) /\ ~Before(n, target) /\ target \in Entry
        BY <1>6, <1>8, <2>1, <2>9, <4>2
      <4>4. CASE e = n
        BY <4>3, <4>4
      <4>5. CASE After(n, e)
        BY <3>1, <4>2, <4>3, <4>5, Transitive, NoEntries DEF After
      <4> QED
        BY <4>2, <4>4, <4>5
    <3>3. x # Head_ /\ x \in Entry /\ x # NULL
      BY <2>2, <3>2, NoEntries DEF After
    <3>4. node_' = x
      BY <2>3, <2>9, <3>3
    <3> QED
      BY <3>2, <3>3, <3>4 DEF After
  <2>10. LandedRight'
    <3>1. op' = op /\ present' = present /\ target' = target
      BY <1>2
    <3>2. CASE op = "last"
      <4>1. \A e \in present' : node_' # NULL /\ ~Before(node_', e)
        BY <2>9, <3>1, <3>2
      <4> QED
        BY <3>1, <3>2, <4>1 DEF LandedRight, Before
    <3>3. CASE op = "lt"
      <4>1. \A e \in present' : Before(e, target') => node_' # NULL /\ ~Before(node_', e)
        BY <2>9, <3>1, <3>3
      <4> QED
        BY <3>1, <3>3, <4>1 DEF LandedRight, Before
    <3>4. CASE op \in {"get", "ge"}
      <4>1. \A e \in present' : ~Before(e, target') => node_' # NULL /\ ~Before(e, node_')
        BY <2>8, <3>1, <3>4
      <4> QED
        BY <3>1, <3>4, <4>1 DEF LandedRight, Before
    <3> QED
      BY <1>6, <3>2, <3>3, <3>4
  <2> QED
    BY <1>5, <2>5, <2>6, <2>10 DEF Inv
<1> QED
  BY <1>10, <1>11

-----------------------------------------------------------------------------
LEMMA InitInv == Init => Inv
<1> SUFFICES ASSUME Init PROVE Inv
  OBVIOUS
<1> USE DEF Init
<1>1. /\ DOMAIN next_ = {Head_} /\ Nodes = {} /\ \A l \in Level : next_[Head_][l] = NULL
      /\ next_ \in [DOMAIN next_ -> [Level -> Nodes \cup {NULL, Undef}]]
  BY DEF Nodes
<1>2. \A l : Linked(l) = {}
  BY <1>1 DEF Linked
<1>3. Inserted = {}
  BY <1>2 DEF Inserted
<1>4. IsFiniteSet(DOMAIN next_) /\ Cardinality(DOMAIN next_) = 1
  BY <1>1, FS_Singleton
<1>5. TypeInv
  BY <1>1, <1>4 DEF TypeInv, NoInsert
<1>6. SequenceInv
  BY <1>1, <1>4 DEF SequenceInv
<1>7. HeightInv
  <2>1. heights \in SUBSET Nat /\ 1 \in heights /\ \A g \in heights : g <= 1
    OBVIOUS
  <2>2. max_height_ = 1
    BY <2>1, MaxHeight DEF max_height_
  <2> QED
    BY <1>2, <2>1, <2>2, MemTableAssumption DEF HeightInv
<1>8. LinkInv
  BY <1>1, <1>2 DEF LinkInv, Succ, IsPrev, After
<1>9. InsertInv
  BY DEF InsertInv, Inserting, NoInsert
<1>10. ReaderInv /\ LandedRight /\ GetInv
  BY DEF ReaderInv, LandedRight, Ended, GetInv
<1> QED
  BY <1>5, <1>6, <1>7, <1>8, <1>9, <1>10 DEF Inv

LEMMA NextInv == Inv /\ [Next]_vars => Inv'
<1>1. ASSUME Inv, Writer PROVE Inv'
  BY <1>1, AddStep, InitLinkStep, PublishStep, SetLastSequenceStep DEF Writer
<1>2. ASSUME Inv, NEW k \in UserKeys, Get(k) PROVE Inv'
  <2> DEFINE t == [key |-> k, seq |-> LastSequence, type |-> kTypeValue]
  <2>1. Search("get", t)
    BY <1>2 DEF Get
  <2>2. t \in Entry /\ t.type = kTypeValue /\ t.seq = LastSequence
    BY <1>2, MemTableAssumption DEF Inv, TypeInv, Entry, kTypeValue
  <2> HIDE DEF t
  <2> QED
    BY <1>2, <2>1, <2>2, SearchStep
<1>3. ASSUME Inv, NEW k \in UserKeys, Seek([key |-> k, seq |-> MaxSequence, type |-> kTypeValue])
      PROVE  Inv'
  <2> DEFINE t == [key |-> k, seq |-> MaxSequence, type |-> kTypeValue]
  <2>1. Search("ge", t)
    BY <1>3 DEF Seek
  <2>2. t \in Entry
    BY MemTableAssumption DEF Entry, kTypeValue
  <2> HIDE DEF t
  <2> QED
    BY <1>3, <2>1, <2>2, SearchStep
<1>4. ASSUME Inv, Prev PROVE Inv'
  <2>1. Search("lt", node_) /\ node_ \in Entry
    BY <1>4, LinkedEntries DEF Prev, Inv, ReaderInv, Inserted
  <2> QED
    BY <1>4, <2>1, SearchStep
<1>5. ASSUME Inv, SeekToLast PROVE Inv'
  BY <1>5, SearchStep DEF SeekToLast
<1>6. ASSUME Inv, SeekToFirst PROVE Inv'
  BY <1>6, MoveStep DEF SeekToFirst
<1>7. ASSUME Inv, Next0 PROVE Inv'
  BY <1>7, MoveStep DEF Next0, Inv, ReaderInv
<1>8. ASSUME Inv, Step PROVE Inv'
  BY <1>8, StepStep
<1>9. ASSUME Inv, UNCHANGED vars PROVE Inv'
  <2>1. /\ SequenceInv' /\ HeightInv' /\ LinkInv' /\ InsertInv' /\ TypeInv'
        /\ Nodes' = Nodes /\ Inserted' = Inserted /\ LastSequence' = LastSequence
        /\ \A l \in Level : Linked(l)' = Linked(l)
    BY <1>9, ListSame DEF vars, readerVars, Inv, TypeInv
  <2>2. UNCHANGED readerVars
    BY <1>9 DEF vars
  <2>3. ReaderInv' /\ GetInv'
    BY <1>9, <2>1, <2>2 DEF Inv, ReaderInv, GetInv, readerVars
  <2>4. LandedRight'
    BY <1>9, <2>2, LandedSame DEF Inv
  <2> QED
    BY <2>1, <2>3, <2>4 DEF Inv
<1> QED
  BY <1>1, <1>2, <1>3, <1>4, <1>5, <1>6, <1>7, <1>8, <1>9 DEF Next, Reader

\* The invariant holds throughout: what SkipList::Insert keeps of the list, link
\* by link, and what a reader's search keeps of its position.
THEOREM InvHolds == Spec => []Inv
BY InitInv, NextInv, PTL DEF Spec

\* No reader follows a link that Insert has not written (skiplist.h).
THEOREM NoTornNodeHolds == Spec => []NoTornNode
<1>1. Inv => NoTornNode
  <2> SUFFICES ASSUME Inv PROVE NoTornNode
    OBVIOUS
  <2>1. ASSUME NEW l \in Level, NEW p \in Linked(l) \cup {Head_} PROVE next_[p][l] # Undef
    BY <2>1, LinkedEntries, NoEntries DEF Inv, LinkInv, Succ
  <2> QED
    BY <2>1, LevelType DEF Inv, ReaderInv, NoTornNode, Inserted
<1> QED
  BY <1>1, InvHolds, PTL

\* FindGreaterOrEqual, FindLessThan and FindLast miss no entry that was in the
\* list when they began.
THEOREM LandedRightHolds == Spec => []LandedRight
<1>1. Inv => LandedRight
  BY DEF Inv
<1> QED
  BY <1>1, InvHolds, PTL

\* MemTable::Get returns the newest entry of its snapshot.
THEOREM GetNewestHolds == Spec => []GetNewest
<1>1. Inv => GetNewest
  <2> SUFFICES ASSUME Inv, Ended, op = "get" PROVE GetNewest
    BY DEF GetNewest
  <2> DEFINE visible == AtSnapshot(target.key, target.seq)
             found == node_ # NULL /\ node_.key = target.key
  <2>1. /\ target \in Entry /\ target.type = 1
        /\ \A e \in Nodes : e.seq <= target.seq => e \in present
        /\ node_ = NULL \/ ~Before(node_, target)
        /\ node_ \in Inserted \cup {NULL}
        /\ \A e \in present : ~Before(e, target) => node_ # NULL /\ ~Before(e, node_)
    BY DEF Inv, GetInv, ReaderInv, LandedRight, Ended, kTypeValue
  <2>2. Inserted \subseteq Nodes /\ Inserted \subseteq Entry
    BY LinkedNodes, LinkedEntries DEF Inserted, Inv
  <2>3. \A e, f \in Inserted : e.seq = f.seq => e = f
    BY <2>2 DEF Inv, SequenceInv
  <2>4. visible = {e \in Inserted : e.key = target.key /\ e.seq <= target.seq}
    BY DEF AtSnapshot
  <2> HIDE DEF visible
  <2>5. ASSUME found PROVE node_ \in visible
    BY <2>1, <2>2, <2>4, <2>5 DEF Before, Entry
  <2>6. ASSUME NEW e \in visible
        PROVE  found /\ node_ \in visible /\ e.seq <= node_.seq
    <3>1. e \in Inserted /\ e.key = target.key /\ e.seq <= target.seq /\ e \in Entry /\ e \in present
      BY <2>1, <2>2, <2>4
    <3>2. ~Before(e, target)
      BY <2>1, <3>1 DEF Before, Entry
    <3>3. node_ # NULL /\ ~Before(e, node_) /\ ~Before(node_, target) /\ node_ \in Entry
      BY <2>1, <2>2, <3>1, <3>2
    <3>4. node_.key = target.key /\ e.seq <= node_.seq
      BY <2>1, <3>1, <3>3 DEF Before, Entry
    <3> QED
      BY <2>5, <3>3, <3>4
  <2>7. CASE visible = {}
    BY <2>5, <2>7 DEF GetNewest, visible
  <2>8. CASE visible # {}
    <3>1. found /\ node_ \in visible /\ \A f \in visible : f.seq <= node_.seq
      BY <2>6, <2>8
    <3>2. \A e \in visible : (\A f \in visible : f.seq <= e.seq) => e = node_
      BY <2>2, <2>3, <2>4, <3>1 DEF Entry
    <3>3. node_ = CHOOSE e \in visible : \A f \in visible : f.seq <= e.seq
      BY <3>1, <3>2
    <3> QED
      BY <2>8, <3>1, <3>3 DEF GetNewest, visible
  <2> QED
    BY <2>7, <2>8
<1> QED
  BY <1>1, InvHolds, PTL
=============================================================================
