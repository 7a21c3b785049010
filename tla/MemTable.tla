------------------------------ MODULE MemTable ------------------------------
(***************************************************************************)
(* The memtable: the insert-only skip list of db/skiplist.h under          *)
(* db/memtable.cc.  One writer at a time inserts, under the protection of  *)
(* the writer queue of DBImpl; readers walk the list without any lock.     *)
(*                                                                         *)
(* A node is named by its entry.  Each load or store of a link is a step.  *)
(* max_height_ is stored and loaded without a barrier: a reader may see    *)
(* any value it ever had.  Readers do not affect one another, so one       *)
(* reader stands for all of them.                                          *)
(***************************************************************************)
EXTENDS InternalKey, Integers, Sequences, FiniteSets

CONSTANTS
    UserKeys,       \* numbers, in the order of the user comparator
    kMaxHeight,
    Types,          \* bound: value types of the entries added
    MaxSequence     \* bound: entries added

ASSUME MemTableAssumption ==
    /\ UserKeys \subseteq Nat /\ UserKeys # {}
    /\ Types \subseteq {0, 1}
    /\ kMaxHeight \in Nat \ {0} /\ MaxSequence \in Nat

\* No node: the head, the end of a list, a link not yet written.
Head_ == [key |-> -1, seq |-> 0, type |-> 0]
NULL  == [key |-> -2, seq |-> 0, type |-> 0]
Undef == [key |-> -3, seq |-> 0, type |-> 0]
Level == 0 .. kMaxHeight - 1

VARIABLES
    next_,        \* [entry or Head_ -> [Level -> entry or NULL or Undef]]
    heights,      \* values max_height_ has had; the last one is the largest
    LastSequence, \* DBImpl: entries up to it are visible
    insert,       \* the running Insert: [x, height, prev, i, step]
    op,           \* the reader's last search: "none", "get", "ge", "lt", "last"
    running,      \* that search has not ended
    target, x, level,
    node_,        \* Iterator::node_
    present       \* entries in the list when the search began

listVars   == <<next_, heights, LastSequence, insert>>
readerVars == <<op, running, target, x, level, node_, present>>
vars == <<listVars, readerVars>>

NoInsert == [x |-> NULL, height |-> 0, prev |-> <<>>, i |-> 0, step |-> "none"]
max_height_ == CHOOSE h \in heights : \A g \in heights : g <= h
\* The nodes of the list at level l, other than the head.
Linked(l) == {e \in DOMAIN next_ \ {Head_} : \E p \in DOMAIN next_ : next_[p][l] = e}
Inserted == Linked(0)

Init ==
    /\ next_ = [n \in {Head_} |-> [l \in Level |-> NULL]]
    /\ heights = {1} /\ LastSequence = 0 /\ insert = NoInsert
    /\ op = "none" /\ target = NULL /\ x = NULL /\ level = 0
    /\ node_ = NULL /\ present = {} /\ running = FALSE

-----------------------------------------------------------------------------
(* The writer.                                                             *)

\* FindGreaterOrEqual(key, prev) as the only writer runs it: the last node
\* before e at every level below max_height_, the head above.
PrevAt(e, l) ==
    LET before == {Head_} \cup {p \in Linked(l) : Before(p, e)}
    IN  IF l >= max_height_ THEN Head_
        ELSE CHOOSE p \in before : \A q \in before :
                q = p \/ q = Head_ \/ (p # Head_ /\ Before(q, p))

\* NewNode: no link of the node is set.
NewNode(e) ==
    next_' = [n \in DOMAIN next_ \cup {e} |->
                IF n = e THEN [l \in Level |-> Undef] ELSE next_[n]]

\* Mutant: the new node's links are not filled before it is published.
AddUnlinked(k, t, height) ==
    LET e == [key |-> k, seq |-> Cardinality(DOMAIN next_), type |-> t]
    IN  /\ insert.step = "none" /\ e.seq <= MaxSequence
        /\ insert' = [x |-> e, height |-> height, i |-> 0, step |-> "publish",
                      prev |-> [l \in 0 .. height - 1 |-> PrevAt(e, l)]]
        /\ heights' = heights \cup {height}
        /\ NewNode(e)
        /\ UNCHANGED <<LastSequence, readerVars>>
\* MemTable::Add and the start of Insert: RandomHeight, prev and max_height_.
\* A batch has several entries; LastSequence is set after the last of them.
Add(k, t, height) ==
    LET e == [key |-> k, seq |-> Cardinality(DOMAIN next_), type |-> t]
    IN  /\ insert.step = "none" /\ e.seq <= MaxSequence
        /\ insert' = [x |-> e, height |-> height, i |-> 0, step |-> "init",
                      prev |-> [l \in 0 .. height - 1 |-> PrevAt(e, l)]]
        /\ heights' = IF height > max_height_ THEN heights \cup {height} ELSE heights
        /\ NewNode(e)
        /\ UNCHANGED <<LastSequence, readerVars>>

\* Any height is possible.
RandomHeight == 1 .. kMaxHeight

\* SetNext, a release store, and NoBarrier_SetNext: the latter is only used on
\* a node that no link refers to at that level yet.
SetNext(n, i, m) == next_' = [next_ EXCEPT ![n][i] = m]

\* x->NoBarrier_SetNext(i, prev[i]->NoBarrier_Next(i)).
InitLink ==
    /\ insert.step = "init"
    /\ SetNext(insert.x, insert.i, next_[insert.prev[insert.i]][insert.i])
    /\ insert' = [insert EXCEPT !.step = "publish"]
    /\ UNCHANGED <<heights, LastSequence, readerVars>>

\* prev[i]->SetNext(i, x).
Publish ==
    LET last == insert.i + 1 = insert.height
    IN  /\ insert.step = "publish"
        /\ SetNext(insert.prev[insert.i], insert.i, insert.x)
        /\ insert' = IF last THEN NoInsert ELSE [insert EXCEPT !.i = @ + 1, !.step = "init"]
        /\ UNCHANGED <<heights, LastSequence, readerVars>>

\* Mutant: the sequence is published before the batch is in the memtable.
SetLastSequenceEarly ==
    /\ LastSequence < Cardinality(DOMAIN next_) - 1
    /\ LastSequence' = Cardinality(DOMAIN next_) - 1
    /\ UNCHANGED <<next_, heights, insert, readerVars>>
\* DBImpl::Write: versions_->SetLastSequence after the batch is in the memtable.
SetLastSequence ==
    /\ insert.step = "none" /\ LastSequence < Cardinality(DOMAIN next_) - 1
    /\ LastSequence' = Cardinality(DOMAIN next_) - 1
    /\ UNCHANGED <<next_, heights, insert, readerVars>>

-----------------------------------------------------------------------------
(* A reader.                                                               *)

Search(o, t) ==
    /\ ~running
    /\ op' = o /\ running' = TRUE /\ target' = t
    /\ x' = Head_ /\ \E h \in heights : level' = h - 1
    /\ present' = Inserted
    /\ UNCHANGED <<listVars, node_>>

Seek(t)    == Search("ge", t)
Prev       == node_ # NULL /\ Search("lt", node_)
SeekToLast == Search("last", NULL)
\* LookupKey(user_key, snapshot): the first possible entry at the snapshot.
Get(k) == Search("get", [key |-> k, seq |-> LastSequence, type |-> kTypeValue])

Move(n) == /\ ~running /\ n # Undef
           /\ node_' = n /\ present' = {} /\ op' = "none" /\ target' = NULL
           /\ x' = NULL /\ level' = 0
           /\ UNCHANGED <<listVars, running>>
SeekToFirst == Move(next_[Head_][0])
Next0       == node_ # NULL /\ Move(next_[node_][0])

\* Mutant: an equal key is stepped over.
GoesOnPastEqual(n) ==
    CASE n = NULL -> FALSE
      [] n # NULL /\ op = "last" -> TRUE
      [] OTHER -> ~Before(target, n)
\* Does the search go on behind n at this level?
GoesOn(n) ==
    CASE n = NULL -> FALSE
      [] n # NULL /\ op = "last" -> TRUE
      [] OTHER -> Before(n, target)

\* One iteration of FindGreaterOrEqual, FindLessThan or FindLast.
Step ==
    LET n == next_[x][level]
    IN  /\ running /\ n # Undef
        /\ \/ /\ GoesOn(n)
              /\ x' = n /\ UNCHANGED <<running, level, node_>>
           \/ /\ ~GoesOn(n) /\ level > 0
              /\ level' = level - 1 /\ UNCHANGED <<running, x, node_>>
           \/ /\ ~GoesOn(n) /\ level = 0
              /\ node_' = CASE op \in {"get", "ge"} -> n
                            [] op \in {"lt", "last"} /\ x = Head_ -> NULL
                            [] OTHER -> x
              /\ running' = FALSE /\ UNCHANGED <<x, level>>
        /\ UNCHANGED <<listVars, op, target, present>>

-----------------------------------------------------------------------------
Writer == \/ \E k \in UserKeys, t \in Types, h \in RandomHeight :
                Add(k, t, h)
          \/ InitLink \/ Publish \/ SetLastSequence
Reader == \/ \E k \in UserKeys : Get(k) \/ Seek([key |-> k, seq |-> MaxSequence, type |-> kTypeValue])
          \/ Prev \/ SeekToLast \/ SeekToFirst \/ Next0 \/ Step
Next == Writer \/ Reader
Spec == Init /\ [][Next]_vars

-----------------------------------------------------------------------------
(* Properties.                                                             *)

\* A reader only follows links that were written before it could reach them,
\* whatever stale max_height_ it started from: Insert fills a node's link
\* before it publishes the node at that level.
NoTornNode ==
    /\ running => next_[x][level] # Undef
    /\ node_ # NULL => next_[node_][0] # Undef

\* The search has just ended at node_.  It skipped no entry that was in the
\* list when it began: concurrent inserts may be seen or not, committed entries
\* are never missed, in either direction.
Ended == ~running /\ op # "none"
LandedRight ==
    Ended =>
      CASE op = "last" -> \A e \in present : node_ # NULL /\ ~Before(node_, e)
        [] op = "lt"   -> \A e \in present : Before(e, target) =>
                             node_ # NULL /\ ~Before(node_, e)
        [] OTHER       -> \A e \in present : ~Before(e, target) =>
                             node_ # NULL /\ ~Before(e, node_)

\* MemTable::Get at a snapshot returns the newest entry of the key that is not
\* newer than the snapshot, though newer entries are being inserted.
AtSnapshot(k, s) == {e \in Inserted : e.key = k /\ e.seq <= s}
GetNewest ==
    (Ended /\ op = "get") =>
        LET visible == AtSnapshot(target.key, target.seq)
            found   == node_ # NULL /\ node_.key = target.key
        IN  IF visible = {} THEN ~found
            ELSE found /\ node_ = CHOOSE e \in visible : \A f \in visible : f.seq <= e.seq

=============================================================================
