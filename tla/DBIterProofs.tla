---------------------------- MODULE DBIterProofs ----------------------------
(***************************************************************************)
(* Proof that the database iterator shows what its snapshot holds, for any *)
(* number of entries, keys, files of the deeper level and writes.          *)
(*                                                                         *)
(* The argument has three layers.  A child is at the first or last of its  *)
(* entries on one side of a key (the Child lemmas).  The merge is at the   *)
(* next entry of all children that the snapshot may see, in the direction  *)
(* it moves (MergeOK and the Merge lemmas).  The loops of DBIter pass over *)
(* no entry they should show (Fwd, Back, Rev and the lemmas on them, which *)
(* speak of sets of entries only).                                         *)
(***************************************************************************)
EXTENDS DBIter, TLAPS, WellFoundedInduction, SequenceTheorems

\* User keys are numbers, and there is a largest one; the initial entries are
\* numbered.
KeysAssumption == \E n \in Nat : Keys \subseteq 0 .. n
LoadedAssumption == Loaded \in Nat

Types == {kTypeDeletion, kTypeValue}
Entry == [key : Nat, seq : Nat, type : Types]
Rec == [key : Int, seq : Int, type : Int]

-----------------------------------------------------------------------------
(* The inductive invariant.                                                 *)

DataTyped ==
    /\ ent \in [Children -> SUBSET Entry] /\ last \in Nat /\ sequence_ \in Nat
    /\ sequence_ <= last
MergeTyped ==
    /\ pos \in [Children -> Entry \cup {None}] /\ current_ \in 0 .. 3
    /\ mdir \in {kForward, kReverse}
IterTyped ==
    /\ direction_ \in {kForward, kReverse} /\ valid_ \in BOOLEAN /\ skipping \in BOOLEAN
    /\ saved_key_ \in Int /\ value_type \in Types /\ expect \in Int
    /\ pc \in {"idle", "fwd", "back", "rev"}
TypeOK == DataTyped /\ MergeTyped /\ IterTyped

\* A sequence number names one entry of one child.
EntriesOK ==
    /\ \A c \in Children : \A e \in ent[c] : e.key \in Keys /\ e.seq <= last
    /\ \A c, d \in Children : \A e \in ent[c], f \in ent[d] : e.seq = f.seq => c = d /\ e = f

\* The files of the deeper level hold its entries, in order.
FilesOK ==
    /\ files_ \in Seq(SUBSET ent[3])
    /\ \A i \in DOMAIN files_ : files_[i] # {}
    /\ \A e \in ent[3] : \E i \in DOMAIN files_ : e \in files_[i]
    /\ \A i, j \in DOMAIN files_ : i < j => \A e \in files_[i], f \in files_[j] : Before(e, f)

\* A child is at one of its entries; the deeper level knows its file.
PlaceOK(c, at) ==
    at.pos # None => /\ at.pos \in ent[c]
                     /\ c = 3 => at.file \in 0 .. NumFiles - 1 /\ at.pos \in FileSet(at.file)

Seen(c) == {e \in ent[c] : e.seq <= sequence_}

\* The children that are not current are beyond the current key in the direction
\* of the merge, and passed over nothing the snapshot sees.
MergeOK ==
    /\ \A c \in Children : PlaceOK(c, Here(c))
    /\ current_ # 0 =>
         /\ MKey # None
         /\ mdir = kForward => \A c \in Children \ {current_} :
              /\ pos[c] # None => Before(MKey, pos[c])
              /\ \A e \in Seen(c) : Before(MKey, e) => pos[c] # None /\ ~Before(e, pos[c])
         /\ mdir = kReverse => \A c \in Children \ {current_} :
              /\ pos[c] # None => Before(pos[c], MKey)
              /\ \A e \in Seen(c) : Before(e, MKey) => pos[c] # None /\ ~Before(pos[c], e)

\* What the snapshot sees, what is left of it from the current entry on in
\* either direction, and the newest entry of each key.
Visible == {e \in AllEntries : e.seq <= sequence_}
Onward == {e \in Visible : current_ # 0 /\ ~Before(e, MKey)}
Behind == {e \in Visible : current_ # 0 /\ ~Before(MKey, e)}
Newest == [k \in Keys |-> NewestOf(k)]

\* FindNextUserEntry: R is left, x is looked for, sk is saved_key_.
FwdOK(N, L, R, x, skip, sk) ==
    /\ x # -1 => x \in L /\ N[x] \in R /\ (skip => sk < x)
    /\ \A e \in R : x = -1 \/ e.key < x =>
          (skip /\ e.key <= sk) \/ (e.key \notin L /\ N[e.key] \in R)
    /\ skip => \A e \in R : e.key >= sk

\* FindPrevUserEntry: Q is left; s is the entry that was saved, if any.
RevOK(V, N, L, Q, x, vt, sk, sv) ==
    /\ \A e \in Q : e.key \in L => x # -1 /\ e.key <= x
    /\ x # -1 => x \in L
    /\ vt = kTypeDeletion => (x # -1 => N[x] \in Q)
    /\ vt = kTypeValue => \E s \in V :
         /\ s.key = sk /\ s.seq = sv /\ s.type = kTypeValue
         /\ \A e \in Q : Before(e, s)
         /\ \A e \in V : e \in Q \/ e = s \/ Before(s, e)
         /\ s.key \in L => x # -1 /\ s.key <= x
         /\ x # -1 => N[x] \in Q \/ N[x] = s

\* Prev after a forward move: the entries of keys before sk are left.
BackOK(V, L, Q, x, sk) ==
    /\ \A e \in V : e.key < sk => e \in Q
    /\ x # -1 => x \in L /\ x < sk
    /\ \A k \in L : k < sk => x # -1 /\ k <= x

IdleOK ==
    IF valid_
    THEN /\ expect \in Live
         /\ direction_ = kForward => current_ # 0 /\ MKey = Newest[expect]
         /\ direction_ = kReverse =>
              /\ saved_key_ = expect /\ saved_value_ = Newest[expect].seq
              /\ \A e \in Visible : e \in Behind <=> e.key < expect
    ELSE expect = -1

LoopOK ==
    /\ pc = "idle" => IdleOK
    /\ pc = "fwd" => direction_ = kForward /\ FwdOK(Newest, Live, Onward, expect, skipping, saved_key_)
    /\ pc = "back" => BackOK(Visible, Live, Behind, expect, saved_key_)
    /\ pc = "rev" => /\ direction_ = kReverse
                     /\ RevOK(Visible, Newest, Live, Behind, expect, value_type, saved_key_, saved_value_)

IInv == TypeOK /\ EntriesOK /\ FilesOK /\ MergeOK /\ LoopOK

-----------------------------------------------------------------------------
(* The order of the entries, and the ends of a set of them.                 *)

\* InternalKeyComparator is a strict total order.
LEMMA OrderIrreflexive == ASSUME NEW a \in Rec PROVE ~Before(a, a)
  BY SMT DEF Before, Rec

LEMMA OrderTransitive ==
  ASSUME NEW a \in Rec, NEW b \in Rec, NEW c \in Rec, Before(a, b), Before(b, c)
  PROVE  Before(a, c)
  BY SMT DEF Before, Rec

LEMMA OrderTotal ==
  ASSUME NEW a \in Rec, NEW b \in Rec, a # b, ~Before(a, b)
  PROVE  Before(b, a)
<1>1. a = [key |-> a.key, seq |-> a.seq, type |-> a.type] /\ b = [key |-> b.key, seq |-> b.seq, type |-> b.type]
  BY DEF Rec
<1>2. a.key # b.key \/ a.seq # b.seq \/ a.type # b.type
  BY <1>1, Zenon
<1> QED
  BY <1>2, SMT DEF Before, Rec

\* The order agrees with the order of the user keys.
LEMMA OrderKeys ==
  ASSUME NEW a \in Rec, NEW b \in Rec
  PROVE  /\ a.key < b.key => Before(a, b)
         /\ Before(a, b) => a.key <= b.key
         /\ a.key \in Int /\ b.key \in Int
  BY SMT DEF Before, Rec

LEMMA EntryIsRec == Entry \subseteq Rec /\ None \in Rec /\ None \notin Entry
  BY SMT DEF Entry, Rec, None, Types, kTypeDeletion, kTypeValue

\* All the facts on the order in one form.
LEMMA Order ==
  /\ \A a \in Rec : ~Before(a, a)
  /\ \A a, b, c \in Rec : Before(a, b) /\ Before(b, c) => Before(a, c)
  /\ \A a, b \in Rec : a = b \/ Before(a, b) \/ Before(b, a)
  BY OrderIrreflexive, OrderTransitive, OrderTotal, Zenon

\* A set of naturals that is not empty has a least element, and a greatest if
\* it is bounded.
LEMMA LeastNat ==
  ASSUME NEW S, S \subseteq Nat, S # {}
  PROVE  \E n \in S : \A m \in S : n <= m
<1> DEFINE R == {ss \in Nat \X Nat : ss[1] < ss[2]}
<1>1. IsWellFoundedOn(R, Nat)
  BY NatLessThanWellFounded DEF OpToRel
<1>2. \A x, y \in Nat : y < x => <<y, x>> \in R
  BY SMT
<1> HIDE DEF R
<1>3. PICK n \in S : \A y \in S : ~(<<y, n>> \in R)
  BY <1>1, WFMin, Zenon
<1>4. ASSUME NEW m \in S PROVE n <= m
  <2>1. ~(<<m, n>> \in R) /\ n \in Nat /\ m \in Nat
    BY <1>3
  <2> QED
    BY <2>1, <1>2
<1> QED
  BY <1>4, Zenon

LEMMA GreatestNat ==
  ASSUME NEW b \in Nat, NEW S, S \subseteq 0 .. b, S # {}
  PROVE  \E n \in S : \A m \in S : m <= n
<1> DEFINE T == {b - n : n \in S}
<1>1. \A n \in S : b - n \in Nat
  BY SMT
<1>2. T \subseteq Nat /\ T # {}
  BY <1>1, Zenon
<1> HIDE DEF T
<1>3. PICK t \in T : \A u \in T : t <= u
  BY <1>2, LeastNat, Zenon
<1>4. PICK n \in S : t = b - n
  BY <1>3 DEF T
<1>5. ASSUME NEW m \in S PROVE m <= n
  <2>1. b - m \in T
    BY DEF T
  <2>2. t <= b - m
    BY <2>1, <1>3, Zenon
  <2>3. m \in 0 .. b /\ n \in 0 .. b
    BY Zenon
  <2> QED
    BY <2>2, <1>4, <2>3
<1> QED
  BY <1>5, Zenon

\* A set of entries whose keys and sequence numbers are bounded.
Box(n, l) == [key : 0 .. n, seq : 0 .. l, type : Types]
First(p, S) == IF S = {} THEN p = None ELSE p \in S /\ \A f \in S : f = p \/ Before(p, f)
Last_(p, S) == IF S = {} THEN p = None ELSE p \in S /\ \A f \in S : f = p \/ Before(f, p)

LEMMA BoxIsEntry == ASSUME NEW n \in Nat, NEW l \in Nat PROVE Box(n, l) \subseteq Entry
  BY SMT DEF Box, Entry

\* One key and one sequence number leave at most two entries.
LEMMA SameButType ==
  ASSUME NEW a \in Entry, NEW b \in Entry, a.key = b.key, a.seq = b.seq, a # b
  PROVE  \/ a.type = kTypeValue /\ Before(a, b)
         \/ b.type = kTypeValue /\ Before(b, a)
<1>1. a = [key |-> a.key, seq |-> a.seq, type |-> a.type] /\ b = [key |-> b.key, seq |-> b.seq, type |-> b.type]
  BY DEF Entry
<1>2. a.type # b.type
  BY <1>1, Zenon
<1> QED
  BY <1>2, SMT DEF Before, Entry, Types, kTypeValue, kTypeDeletion

LEMMA SmallestExists ==
  ASSUME NEW n \in Nat, NEW l \in Nat, NEW S, S \subseteq Box(n, l), S # {}
  PROVE  \E e \in S : \A f \in S : f = e \/ Before(e, f)
<1> DEFINE Ks == {e.key : e \in S}
<1>1. Ks \subseteq Nat /\ Ks # {}
  BY DEF Box
<1> HIDE DEF Ks
<1>2. PICK k \in Ks : \A m \in Ks : k <= m
  BY <1>1, LeastNat, Zenon
<1> DEFINE Sk == {e \in S : e.key = k}
           Qs == {e.seq : e \in Sk}
<1>3. Qs \subseteq 0 .. l /\ Qs # {}
  BY <1>2 DEF Ks, Box
<1> HIDE DEF Qs
<1>4. PICK q \in Qs : \A m \in Qs : m <= q
  BY <1>3, GreatestNat, Zenon
<1>5. PICK a \in Sk : a.seq = q
  BY <1>4 DEF Qs
<1>6. PICK e \in Sk : e.seq = q /\ (e.type = kTypeValue \/ \A b \in Sk : b.seq = q => b.type # kTypeValue)
  BY <1>5
<1>7. ASSUME NEW f \in S, f # e PROVE Before(e, f)
  <2>1. e \in Entry /\ f \in Entry /\ e \in S /\ e.key = k
    BY BoxIsEntry
  <2>2. k <= f.key /\ k \in Nat
    BY <1>2, <1>1 DEF Ks
  <2>3. CASE f.key # k
    BY <2>1, <2>2, <2>3, SMT DEF Before, Entry
  <2>4. CASE f.key = k /\ f.seq # q
    <3>1. f.seq <= q
      BY <2>4, <1>4 DEF Qs
    <3> QED
      BY <3>1, <2>4, <2>1, <1>6, SMT DEF Before, Entry
  <2>5. CASE f.key = k /\ f.seq = q
    <3>1. f \in Sk
      BY <2>5
    <3>2. e.type = kTypeValue \/ f.type # kTypeValue
      BY <3>1, <2>5, <1>6
    <3>3. CASE f.type # kTypeValue
      BY <3>3, SameButType, <2>1, <2>5, <1>6, <1>7
    <3>4. CASE f.type = kTypeValue
      <4>1. e.type = f.type
        BY <3>4, <3>2
      <4>2. e.key = f.key /\ e.seq = f.seq
        BY <2>1, <2>5, <1>6
      <4>3. ~Before(f, e)
        BY <4>1, <4>2, <2>1, SMT DEF Before, Entry, Types, kTypeDeletion, kTypeValue
      <4> QED
        BY <4>2, <4>3, <1>7, <2>1, SameButType
    <3> QED
      BY <3>3, <3>4
  <2> QED
    BY <2>3, <2>4, <2>5
<1> QED
  BY <1>7, <1>6

LEMMA LargestExists ==
  ASSUME NEW n \in Nat, NEW l \in Nat, NEW S, S \subseteq Box(n, l), S # {}
  PROVE  \E e \in S : \A f \in S : f = e \/ Before(f, e)
<1> DEFINE Ks == {e.key : e \in S}
<1>1. Ks \subseteq 0 .. n /\ Ks # {}
  BY DEF Box
<1> HIDE DEF Ks
<1>2. PICK k \in Ks : \A m \in Ks : m <= k
  BY <1>1, GreatestNat, Zenon
<1> DEFINE Sk == {e \in S : e.key = k}
           Qs == {e.seq : e \in Sk}
<1>3. Qs \subseteq Nat /\ Qs # {}
  BY <1>2 DEF Ks, Box
<1> HIDE DEF Qs
<1>4. PICK q \in Qs : \A m \in Qs : q <= m
  BY <1>3, LeastNat, Zenon
<1>5. PICK a \in Sk : a.seq = q
  BY <1>4 DEF Qs
<1>6. PICK e \in Sk : e.seq = q /\ (e.type # kTypeValue \/ \A b \in Sk : b.seq = q => b.type = kTypeValue)
  BY <1>5
<1>7. ASSUME NEW f \in S, f # e PROVE Before(f, e)
  <2>1. e \in Entry /\ f \in Entry /\ e \in S /\ e.key = k
    BY BoxIsEntry
  <2>2. f.key <= k /\ k \in 0 .. n
    BY <1>2, <1>1 DEF Ks
  <2>3. CASE f.key # k
    BY <2>1, <2>2, <2>3, SMT DEF Before, Entry
  <2>4. CASE f.key = k /\ f.seq # q
    <3>1. q <= f.seq
      BY <2>4, <1>4 DEF Qs
    <3> QED
      BY <3>1, <2>4, <2>1, <1>6, SMT DEF Before, Entry
  <2>5. CASE f.key = k /\ f.seq = q
    <3>1. f \in Sk
      BY <2>5
    <3>2. e.type # kTypeValue \/ f.type = kTypeValue
      BY <3>1, <2>5, <1>6
    <3>3. CASE e.type # kTypeValue
      BY <3>3, SameButType, <2>1, <2>5, <1>6, <1>7
    <3>4. CASE e.type = kTypeValue
      <4>1. e.type = f.type
        BY <3>4, <3>2
      <4>2. e.key = f.key /\ e.seq = f.seq
        BY <2>1, <2>5, <1>6
      <4>3. ~Before(e, f)
        BY <4>1, <4>2, <2>1, SMT DEF Before, Entry, Types, kTypeDeletion, kTypeValue
      <4> QED
        BY <4>2, <4>3, <1>7, <2>1, SameButType
    <3> QED
      BY <3>3, <3>4
  <2> QED
    BY <2>3, <2>4, <2>5
<1> QED
  BY <1>7, <1>6

\* Smallest and Largest give the ends of every set of entries that a child can hold.
LEMMA SmallestIsFirst ==
  ASSUME NEW n \in Nat, NEW l \in Nat, NEW S, S \subseteq Box(n, l)
  PROVE  First(Smallest(S), S)
<1>1. CASE S = {}
  BY <1>1 DEF First, Smallest
<1>2. CASE S # {}
  <2>1. \E e \in S : \A f \in S : f = e \/ Before(e, f)
    BY <1>2, SmallestExists
  <2> QED
    BY <2>1, <1>2, Zenon DEF First, Smallest
<1> QED
  BY <1>1, <1>2

LEMMA LargestIsLast ==
  ASSUME NEW n \in Nat, NEW l \in Nat, NEW S, S \subseteq Box(n, l)
  PROVE  Last_(Largest(S), S)
<1>1. CASE S = {}
  BY <1>1 DEF Last_, Largest
<1>2. CASE S # {}
  <2>1. \E e \in S : \A f \in S : f = e \/ Before(f, e)
    BY <1>2, LargestExists
  <2> QED
    BY <2>1, <1>2, Zenon DEF Last_, Largest
<1> QED
  BY <1>1, <1>2

-----------------------------------------------------------------------------
(* The children.                                                            *)

StaticOK == TypeOK /\ EntriesOK /\ FilesOK /\ KeysAssumption

LEMMA EntriesBoxed ==
  ASSUME StaticOK
  PROVE  \E n, l \in Nat : AllEntries \subseteq Box(n, l)
<1>1. PICK n \in Nat : Keys \subseteq 0 .. n
  BY DEF StaticOK, KeysAssumption
<1>2. last \in Nat
  BY DEF StaticOK, TypeOK, DataTyped
<1>3. ASSUME NEW c \in Children, NEW e \in ent[c] PROVE e \in Box(n, last)
  <2>1. e \in Entry /\ e.key \in Keys /\ e.seq <= last
    BY <1>3 DEF StaticOK, TypeOK, DataTyped, EntriesOK
  <2> QED
    BY <2>1, <1>1, <1>2, SMT DEF Box, Entry
<1>4. AllEntries \subseteq Box(n, last)
  BY <1>3, Zenon DEF AllEntries
<1> QED
  BY <1>2, <1>4, Zenon

\* Every set of entries has its ends, and they are entries.
LEMMA Ends ==
  ASSUME StaticOK, NEW S, S \subseteq AllEntries
  PROVE  First(Smallest(S), S) /\ Last_(Largest(S), S)
<1>1. PICK n, l \in Nat : AllEntries \subseteq Box(n, l)
  BY EntriesBoxed
<1>2. S \subseteq Box(n, l)
  BY <1>1, Zenon
<1> QED
  BY <1>2, SmallestIsFirst, LargestIsLast, Zenon

LEMMA EntriesTyped ==
  ASSUME StaticOK
  PROVE  /\ AllEntries \subseteq Entry /\ AllEntries \subseteq Rec /\ None \notin AllEntries
         /\ \A c \in Children : ent[c] \subseteq AllEntries
         /\ ent[3] \subseteq AllEntries
         /\ \A e \in AllEntries : e.key \in Keys /\ e.key \in Nat /\ e.seq \in Nat /\ e.type \in Types
<1>1. ent \in [Children -> SUBSET Entry]
  BY DEF StaticOK, TypeOK, DataTyped
<1>2. AllEntries \subseteq Entry
  BY <1>1, Zenon DEF AllEntries
<1>3. \A c \in Children : ent[c] \subseteq AllEntries
  BY Zenon DEF AllEntries
<1>4. AllEntries \subseteq Rec /\ None \notin AllEntries
  BY <1>2, EntryIsRec, Zenon
<1>5. \A e \in AllEntries : e.key \in Keys
  BY Zenon DEF AllEntries, StaticOK, EntriesOK
<1>6. \A e \in AllEntries : e.key \in Nat /\ e.seq \in Nat /\ e.type \in Types
  BY <1>2, SMT DEF Entry
<1>7. 3 \in Children
  BY SMT DEF Children
<1> QED
  BY <1>2, <1>3, <1>4, <1>5, <1>6, <1>7, Zenon

\* The files with their numbers from 0.
LEMMA FileFacts ==
  ASSUME StaticOK
  PROVE  /\ NumFiles \in Nat
         /\ \A i \in 0 .. NumFiles - 1 : FileSet(i) \subseteq ent[3] /\ FileSet(i) # {}
         /\ \A e \in ent[3] : \E i \in 0 .. NumFiles - 1 : e \in FileSet(i)
         /\ \A i, j \in 0 .. NumFiles - 1 : i < j => \A e \in FileSet(i), f \in FileSet(j) : Before(e, f)
<1>1. files_ \in Seq(SUBSET ent[3])
  BY DEF StaticOK, FilesOK
<1>2. NumFiles \in Nat /\ DOMAIN files_ = 1 .. NumFiles /\ \A i \in 1 .. NumFiles : files_[i] \in SUBSET ent[3]
  BY <1>1, SMT DEF NumFiles
<1>3. \A i \in 0 .. NumFiles - 1 : i + 1 \in DOMAIN files_
  BY <1>2, SMT
<1>4. \A i \in DOMAIN files_ : i - 1 \in 0 .. NumFiles - 1 /\ (i - 1) + 1 = i
  BY <1>2, SMT
<1>5. \A i \in 0 .. NumFiles - 1 : FileSet(i) \subseteq ent[3] /\ FileSet(i) # {}
  BY <1>2, <1>3, Zenon DEF FileSet, StaticOK, FilesOK
<1>6. \A e \in ent[3] : \E i \in 0 .. NumFiles - 1 : e \in FileSet(i)
  <2>1. SUFFICES ASSUME NEW e \in ent[3] PROVE \E i \in 0 .. NumFiles - 1 : e \in FileSet(i)
    OBVIOUS
  <2>2. PICK i \in DOMAIN files_ : e \in files_[i]
    BY Zenon DEF StaticOK, FilesOK
  <2>3. e \in FileSet(i - 1)
    BY <2>2, <1>4, Zenon DEF FileSet
  <2> QED
    BY <2>3, <1>4, Zenon
<1>7. ASSUME NEW i \in 0 .. NumFiles - 1, NEW j \in 0 .. NumFiles - 1, i < j,
             NEW e \in FileSet(i), NEW f \in FileSet(j)
      PROVE  Before(e, f)
  <2>1. i + 1 < j + 1
    BY <1>7, <1>2, SMT
  <2> QED
    BY <2>1, <1>3, Zenon DEF FileSet, StaticOK, FilesOK
<1> QED
  BY <1>2, <1>5, <1>6, <1>7, Zenon

From(i) == {e \in ent[3] : \E j \in i .. NumFiles - 1 : e \in FileSet(j)}
UpTo(i) == {e \in ent[3] : \E j \in 0 .. i : e \in FileSet(j)}

\* The first entry of the files from i on, and the last one of those up to i.
LEMMA LevelAtFirst ==
  ASSUME StaticOK, NEW i \in 0 .. NumFiles
  PROVE  First(LevelAt(i).pos, From(i)) /\ PlaceOK(3, LevelAt(i))
<1>0. NumFiles \in Nat /\ i \in Int
  BY FileFacts, SMT
<1>1. CASE i < NumFiles
  <2> DEFINE p == Smallest(FileSet(i))
  <2>1. i \in 0 .. NumFiles - 1 /\ i \in i .. NumFiles - 1
    BY <1>0, <1>1, SMT
  <2>2. FileSet(i) \subseteq ent[3] /\ FileSet(i) # {} /\ FileSet(i) \subseteq AllEntries
    BY <2>1, FileFacts, EntriesTyped, Zenon
  <2>3. First(p, FileSet(i))
    BY <2>2, Ends, Zenon
  <2>4. p \in FileSet(i) /\ \A f \in FileSet(i) : f = p \/ Before(p, f)
    BY <2>2, <2>3, Zenon DEF First
  <2>5. LevelAt(i).pos = p /\ LevelAt(i).file = i
    BY <2>1, <1>1, SMT DEF LevelAt, At
  <2> HIDE DEF p
  <2>6. p \in From(i)
    BY <2>1, <2>2, <2>4, Zenon DEF From
  <2>7. ASSUME NEW f \in From(i), f # p PROVE Before(p, f)
    <3>1. PICK j \in i .. NumFiles - 1 : f \in FileSet(j)
      BY DEF From
    <3>2. j \in 0 .. NumFiles - 1 /\ (j = i \/ i < j)
      BY <1>0, <3>1, SMT
    <3> QED
      BY <3>1, <3>2, <2>1, <2>4, <2>7, FileFacts, Zenon
  <2> QED
    BY <2>1, <2>2, <2>4, <2>5, <2>6, <2>7, Zenon DEF First, PlaceOK
<1>2. CASE ~(i < NumFiles)
  <2>1. i .. NumFiles - 1 = {} /\ LevelAt(i).pos = None
    BY <1>0, <1>2, SMT DEF LevelAt, At
  <2>2. From(i) = {}
    BY <2>1, Zenon DEF From
  <2> QED
    BY <2>1, <2>2, Zenon DEF First, PlaceOK
<1> QED
  BY <1>1, <1>2

LEMMA LevelBackAtLast ==
  ASSUME StaticOK, NEW i \in -1 .. NumFiles - 1
  PROVE  Last_(LevelBackAt(i).pos, UpTo(i)) /\ PlaceOK(3, LevelBackAt(i))
<1>0. NumFiles \in Nat /\ i \in Int
  BY FileFacts, SMT
<1>1. CASE i >= 0
  <2> DEFINE p == Largest(FileSet(i))
  <2>1. i \in 0 .. NumFiles - 1 /\ i \in 0 .. i
    BY <1>0, <1>1, SMT
  <2>2. FileSet(i) \subseteq ent[3] /\ FileSet(i) # {} /\ FileSet(i) \subseteq AllEntries
    BY <2>1, FileFacts, EntriesTyped, Zenon
  <2>3. Last_(p, FileSet(i))
    BY <2>2, Ends, Zenon
  <2>4. p \in FileSet(i) /\ \A f \in FileSet(i) : f = p \/ Before(f, p)
    BY <2>2, <2>3, Zenon DEF Last_
  <2>5. LevelBackAt(i).pos = p /\ LevelBackAt(i).file = i
    <3>1. i >= 0 /\ i < NumFiles
      BY <2>1, <1>0, SMT
    <3>2. LevelBackAt(i) = At(p, i)
      BY <3>1, Zenon DEF LevelBackAt
    <3> QED
      BY <3>2, SMT DEF At
  <2> HIDE DEF p
  <2>6. p \in UpTo(i)
    BY <2>1, <2>2, <2>4, Zenon DEF UpTo
  <2>7. ASSUME NEW f \in UpTo(i), f # p PROVE Before(f, p)
    <3>1. PICK j \in 0 .. i : f \in FileSet(j)
      BY DEF UpTo
    <3>2. j \in 0 .. NumFiles - 1 /\ (j = i \/ j < i)
      BY <1>0, <3>1, SMT
    <3> QED
      BY <3>1, <3>2, <2>1, <2>4, <2>7, FileFacts, Zenon
  <2> QED
    BY <2>1, <2>2, <2>4, <2>5, <2>6, <2>7, Zenon DEF Last_, PlaceOK
<1>2. CASE ~(i >= 0)
  <2>1. 0 .. i = {} /\ LevelBackAt(i).pos = None
    BY <1>0, <1>2, SMT DEF LevelBackAt, At
  <2>2. UpTo(i) = {}
    BY <2>1, Zenon DEF UpTo
  <2> QED
    BY <2>1, <2>2, Zenon DEF Last_, PlaceOK
<1> QED
  BY <1>1, <1>2

\* The position a child gets, as an entry of a set.
LEMMA FirstIn ==
  ASSUME StaticOK, NEW S, S \subseteq AllEntries, NEW p, First(p, S)
  PROVE  /\ p # None <=> S # {}
         /\ p # None => p \in S /\ \A f \in S : f = p \/ Before(p, f)
  BY EntriesTyped, Zenon DEF First

LEMMA LastIn ==
  ASSUME StaticOK, NEW S, S \subseteq AllEntries, NEW p, Last_(p, S)
  PROVE  /\ p # None <=> S # {}
         /\ p # None => p \in S /\ \A f \in S : f = p \/ Before(f, p)
  BY EntriesTyped, Zenon DEF Last_

\* A memtable and a table have one file.
LEMMA PlainChild ==
  ASSUME StaticOK, NEW c \in Children, c # 3, NEW S, S \subseteq ent[c]
  PROVE  /\ First(At(Smallest(S), file).pos, S) /\ PlaceOK(c, At(Smallest(S), file))
         /\ Last_(At(Largest(S), file).pos, S) /\ PlaceOK(c, At(Largest(S), file))
<1>1. S \subseteq AllEntries
  BY EntriesTyped, Zenon
<1>2. First(Smallest(S), S) /\ Last_(Largest(S), S)
  BY <1>1, Ends, Zenon
<1>3. \A e, f : At(e, f).pos = e
  BY SMT DEF At
<1>4. Smallest(S) # None => Smallest(S) \in ent[c]
  BY <1>1, <1>2, FirstIn, Zenon
<1>5. Largest(S) # None => Largest(S) \in ent[c]
  BY <1>1, <1>2, LastIn, Zenon
<1> QED
  BY <1>2, <1>3, <1>4, <1>5, Zenon DEF PlaceOK

\* Seek: the first entry at or after the target.
LEMMA ChildSeekFirst ==
  ASSUME StaticOK, NEW c \in Children, NEW t \in Rec
  PROVE  /\ First(ChildSeek(c, t).pos, {e \in ent[c] : ~Before(e, t)})
         /\ PlaceOK(c, ChildSeek(c, t))
<1> DEFINE S == {e \in ent[c] : ~Before(e, t)}
<1>1. CASE c # 3
  <2>1. ChildSeek(c, t) = At(Smallest(S), file)
    BY <1>1, Zenon DEF ChildSeek
  <2> HIDE DEF S
  <2>2. S \subseteq ent[c]
    BY Zenon DEF S
  <2>3. First(ChildSeek(c, t).pos, S) /\ PlaceOK(c, ChildSeek(c, t))
    BY <2>1, <2>2, <1>1, PlainChild, Zenon
  <2> QED
    BY <2>3 DEF S
<1>2. CASE c = 3
  <2> DEFINE ok == {i \in 0 .. NumFiles - 1 : ~Before(Largest(FileSet(i)), t)}
  <2>0. NumFiles \in Nat
    BY FileFacts, Zenon
  <2>1. \A j \in 0 .. NumFiles - 1 : /\ Largest(FileSet(j)) \in FileSet(j) /\ FileSet(j) \subseteq AllEntries
                                     /\ \A f \in FileSet(j) : f = Largest(FileSet(j)) \/ Before(f, Largest(FileSet(j)))
    <3>1. TAKE j \in 0 .. NumFiles - 1
    <3>2. FileSet(j) \subseteq AllEntries /\ FileSet(j) # {}
      BY FileFacts, EntriesTyped, Zenon
    <3>3. Last_(Largest(FileSet(j)), FileSet(j))
      BY <3>2, Ends, Zenon
    <3> QED
      BY <3>2, <3>3, Zenon DEF Last_
  <2>2. ASSUME NEW j \in 0 .. NumFiles - 1, j \notin ok, NEW f \in FileSet(j) PROVE Before(f, t)
    <3>1. Before(Largest(FileSet(j)), t)
      BY <2>2
    <3>2. f \in Rec /\ Largest(FileSet(j)) \in Rec
      BY <2>1, EntriesTyped, Zenon
    <3> QED
      BY <3>1, <3>2, <2>1, Order, Zenon
  <2>3. CASE ok = {}
    <3>1. FindFile(t) = NumFiles
      BY <2>3, Zenon DEF FindFile
    <3>2. ChildSeek(c, t) = At(None, NumFiles)
      BY <3>1, <1>2, Zenon DEF ChildSeek
    <3>3. ChildSeek(c, t).pos = None
      BY <3>2, SMT DEF At
    <3>4. S = {}
      BY <2>2, <2>3, <1>2, FileFacts, Zenon
    <3> QED
      BY <3>3, <3>4, Zenon DEF First, PlaceOK
  <2>4. CASE ok # {}
    <3> DEFINE i == FindFile(t)
    <3>1. ok \subseteq Nat
      BY <2>0, SMT
    <3>2. \E n \in ok : \A m \in ok : n <= m
      BY <3>1, <2>4, LeastNat, Zenon
    <3>3. i \in ok /\ \A m \in ok : i <= m
      BY <2>4, <3>2, Zenon DEF FindFile
    <3> HIDE DEF i
    <3>4. i \in 0 .. NumFiles - 1 /\ ~Before(Largest(FileSet(i)), t) /\ i # NumFiles
      BY <3>3, <2>0, SMT
    <3> DEFINE X == {x \in FileSet(i) : ~Before(x, t)}
               e == Smallest(X)
    <3>5. X \subseteq AllEntries /\ X # {}
      BY <3>4, <2>1, Zenon
    <3>6. First(e, X)
      BY <3>5, Ends, Zenon
    <3>7. e # None /\ e \in X /\ \A f \in X : f = e \/ Before(e, f)
      <4> HIDE DEF e, X
      <4> QED
        BY <3>5, <3>6, FirstIn, Zenon
    <3>8. ChildSeek(c, t) = At(e, i)
      BY <3>4, <3>7, <1>2, Zenon DEF ChildSeek, i
    <3>9. ChildSeek(c, t).pos = e /\ ChildSeek(c, t).file = i
      BY <3>8, SMT DEF At
    <3>10. e \in FileSet(i) /\ e \in ent[3] /\ ~Before(e, t)
      BY <3>7, <3>4, FileFacts, Zenon
    <3> HIDE DEF e
    <3>11. ASSUME NEW f \in ent[3], ~Before(f, t), f # e PROVE Before(e, f)
      <4>1. PICK j \in 0 .. NumFiles - 1 : f \in FileSet(j)
        BY FileFacts, Zenon
      <4>2. j \in ok
        BY <4>1, <2>2, <3>11, Zenon
      <4>3. i = j \/ i < j
        BY <3>3, <3>4, <4>2, <2>0, SMT
      <4> QED
        BY <4>1, <4>3, <3>4, <3>7, <3>10, <3>11, FileFacts, Zenon
    <3> QED
      BY <3>4, <3>9, <3>10, <3>11, <1>2, Zenon DEF First, PlaceOK
  <2> QED
    BY <2>3, <2>4, Zenon
<1> QED
  BY <1>1, <1>2, Zenon

\* Next: the first entry after the place the child is at.
LEMMA ChildNextFirst ==
  ASSUME StaticOK, NEW c \in Children, NEW at, PlaceOK(c, at), at.pos # None
  PROVE  /\ First(ChildNext(c, at).pos, {e \in ent[c] : Before(at.pos, e)})
         /\ PlaceOK(c, ChildNext(c, at))
<1> DEFINE S == {e \in ent[c] : Before(at.pos, e)}
<1>1. CASE c # 3
  <2>1. ChildNext(c, at) = At(Smallest(S), file)
    BY <1>1, Zenon DEF ChildNext
  <2> HIDE DEF S
  <2>2. S \subseteq ent[c]
    BY Zenon DEF S
  <2>3. First(ChildNext(c, at).pos, S) /\ PlaceOK(c, ChildNext(c, at))
    BY <2>1, <2>2, <1>1, PlainChild, Zenon
  <2> QED
    BY <2>3 DEF S
<1>2. CASE c = 3
  <2> DEFINE i == at.file
             X == {x \in FileSet(i) : Before(at.pos, x)}
             e == Smallest(X)
  <2>0. NumFiles \in Nat
    BY FileFacts, Zenon
  <2>1. i \in 0 .. NumFiles - 1 /\ at.pos \in FileSet(i) /\ at.pos \in ent[3]
    BY <1>2, Zenon DEF PlaceOK
  <2>2. X \subseteq AllEntries
    BY <2>1, FileFacts, EntriesTyped, Zenon
  <2>3. First(e, X)
    BY <2>2, Ends, Zenon
  <2>4. /\ e # None <=> X # {}
        /\ e # None => e \in X /\ \A f \in X : f = e \/ Before(e, f)
    <3> HIDE DEF e, X
    <3> QED
      BY <2>2, <2>3, FirstIn, Zenon
  <2>5. ASSUME NEW f \in ent[3], Before(at.pos, f)
        PROVE  f \in X \/ \E j \in i + 1 .. NumFiles - 1 : f \in FileSet(j)
    <3>1. PICK j \in 0 .. NumFiles - 1 : f \in FileSet(j)
      BY FileFacts, Zenon
    <3>2. j < i \/ j = i \/ j \in i + 1 .. NumFiles - 1
      BY <2>0, <2>1, SMT
    <3>3. CASE j < i
      <4>1. Before(f, at.pos)
        BY <3>1, <3>3, <2>1, FileFacts, Zenon
      <4>2. f \in Rec /\ at.pos \in Rec
        BY <2>1, EntriesTyped, Zenon
      <4> QED
        BY <4>1, <4>2, <2>5, Order, Zenon
    <3> QED
      BY <3>1, <3>2, <3>3, <2>5, Zenon
  <2>6. ASSUME NEW j \in i + 1 .. NumFiles - 1, NEW x \in FileSet(i), NEW f \in FileSet(j) PROVE Before(x, f)
    <3>1. j \in 0 .. NumFiles - 1 /\ i < j
      BY <2>0, <2>1, SMT
    <3> QED
      BY <3>1, <2>1, FileFacts, Zenon
  <2> HIDE DEF i
  <2>7. CASE e # None
    <3>1. ChildNext(c, at) = At(e, i)
      BY <1>2, <2>7, Zenon DEF ChildNext, i
    <3>2. ChildNext(c, at).pos = e /\ ChildNext(c, at).file = i
      BY <3>1, SMT DEF At
    <3>3. e \in FileSet(i) /\ Before(at.pos, e) /\ e \in ent[3]
      BY <2>4, <2>7, <2>1, FileFacts, Zenon
    <3> HIDE DEF e
    <3>4. \A f \in ent[3] : Before(at.pos, f) => f = e \/ Before(e, f)
      BY <2>4, <2>5, <2>6, <2>7, <3>3, Zenon
    <3> QED
      BY <3>2, <3>3, <3>4, <2>1, <1>2, Zenon DEF First, PlaceOK
  <2>8. CASE e = None
    <3>1. ChildNext(c, at) = LevelAt(i + 1)
      BY <1>2, <2>8, Zenon DEF ChildNext, i
    <3>2. i + 1 \in 0 .. NumFiles
      BY <2>0, <2>1, SMT
    <3>3. First(LevelAt(i + 1).pos, From(i + 1)) /\ PlaceOK(3, LevelAt(i + 1))
      BY <3>2, LevelAtFirst, Zenon
    <3>4. X = {}
      BY <2>4, <2>8, Zenon
    <3>5. From(i + 1) = S
      <4>1. \A f \in From(i + 1) : f \in S
        BY <2>6, <2>1, <1>2, Zenon DEF From
      <4>2. \A f \in S : f \in From(i + 1)
        BY <2>5, <3>4, <1>2, Zenon DEF From
      <4> QED
        BY <4>1, <4>2, Zenon
    <3> QED
      BY <3>1, <3>3, <3>5, <1>2, Zenon
  <2> QED
    BY <2>7, <2>8, Zenon
<1> QED
  BY <1>1, <1>2, Zenon

\* Prev: the last entry before the place the child is at.
LEMMA ChildPrevLast ==
  ASSUME StaticOK, NEW c \in Children, NEW at, PlaceOK(c, at), at.pos # None
  PROVE  /\ Last_(ChildPrev(c, at).pos, {e \in ent[c] : Before(e, at.pos)})
         /\ PlaceOK(c, ChildPrev(c, at))
<1> DEFINE S == {e \in ent[c] : Before(e, at.pos)}
<1>1. CASE c # 3
  <2>1. ChildPrev(c, at) = At(Largest(S), file)
    BY <1>1, Zenon DEF ChildPrev
  <2> HIDE DEF S
  <2>2. S \subseteq ent[c]
    BY Zenon DEF S
  <2>3. Last_(ChildPrev(c, at).pos, S) /\ PlaceOK(c, ChildPrev(c, at))
    BY <2>1, <2>2, <1>1, PlainChild, Zenon
  <2> QED
    BY <2>3 DEF S
<1>2. CASE c = 3
  <2> DEFINE i == at.file
             X == {x \in FileSet(i) : Before(x, at.pos)}
             e == Largest(X)
  <2>0. NumFiles \in Nat
    BY FileFacts, Zenon
  <2>1. i \in 0 .. NumFiles - 1 /\ at.pos \in FileSet(i) /\ at.pos \in ent[3]
    BY <1>2, Zenon DEF PlaceOK
  <2>2. X \subseteq AllEntries
    BY <2>1, FileFacts, EntriesTyped, Zenon
  <2>3. Last_(e, X)
    BY <2>2, Ends, Zenon
  <2>4. /\ e # None <=> X # {}
        /\ e # None => e \in X /\ \A f \in X : f = e \/ Before(f, e)
    <3> HIDE DEF e, X
    <3> QED
      BY <2>2, <2>3, LastIn, Zenon
  <2>5. ASSUME NEW f \in ent[3], Before(f, at.pos)
        PROVE  f \in X \/ \E j \in 0 .. i - 1 : f \in FileSet(j)
    <3>1. PICK j \in 0 .. NumFiles - 1 : f \in FileSet(j)
      BY FileFacts, Zenon
    <3>2. i < j \/ j = i \/ j \in 0 .. i - 1
      BY <2>0, <2>1, SMT
    <3>3. CASE i < j
      <4>1. Before(at.pos, f)
        BY <3>1, <3>3, <2>1, FileFacts, Zenon
      <4>2. f \in Rec /\ at.pos \in Rec
        BY <2>1, EntriesTyped, Zenon
      <4> QED
        BY <4>1, <4>2, <2>5, Order, Zenon
    <3> QED
      BY <3>1, <3>2, <3>3, <2>5, Zenon
  <2>6. ASSUME NEW j \in 0 .. i - 1, NEW x \in FileSet(i), NEW f \in FileSet(j) PROVE Before(f, x)
    <3>1. j \in 0 .. NumFiles - 1 /\ j < i
      BY <2>0, <2>1, SMT
    <3> QED
      BY <3>1, <2>1, FileFacts, Zenon
  <2> HIDE DEF i
  <2>7. CASE e # None
    <3>1. ChildPrev(c, at) = At(e, i)
      BY <1>2, <2>7, Zenon DEF ChildPrev, i
    <3>2. ChildPrev(c, at).pos = e /\ ChildPrev(c, at).file = i
      BY <3>1, SMT DEF At
    <3>3. e \in FileSet(i) /\ Before(e, at.pos) /\ e \in ent[3]
      BY <2>4, <2>7, <2>1, FileFacts, Zenon
    <3> HIDE DEF e
    <3>4. \A f \in ent[3] : Before(f, at.pos) => f = e \/ Before(f, e)
      BY <2>4, <2>5, <2>6, <2>7, <3>3, Zenon
    <3> QED
      BY <3>2, <3>3, <3>4, <2>1, <1>2, Zenon DEF Last_, PlaceOK
  <2>8. CASE e = None
    <3>1. ChildPrev(c, at) = LevelBackAt(i - 1)
      BY <1>2, <2>8, Zenon DEF ChildPrev, i
    <3>2. i - 1 \in -1 .. NumFiles - 1
      BY <2>0, <2>1, SMT
    <3>3. Last_(LevelBackAt(i - 1).pos, UpTo(i - 1)) /\ PlaceOK(3, LevelBackAt(i - 1))
      BY <3>2, LevelBackAtLast, Zenon
    <3>4. X = {}
      BY <2>4, <2>8, Zenon
    <3>5. UpTo(i - 1) = S
      <4>1. \A f \in UpTo(i - 1) : f \in S
        BY <2>6, <2>1, <1>2, Zenon DEF UpTo
      <4>2. \A f \in S : f \in UpTo(i - 1)
        BY <2>5, <3>4, <1>2, Zenon DEF UpTo
      <4> QED
        BY <4>1, <4>2, Zenon
    <3> QED
      BY <3>1, <3>3, <3>5, <1>2, Zenon
  <2> QED
    BY <2>7, <2>8, Zenon
<1> QED
  BY <1>1, <1>2, Zenon

\* SeekToFirst and SeekToLast.
LEMMA ChildEnds ==
  ASSUME StaticOK, NEW c \in Children
  PROVE  /\ First(ChildSeekToFirst(c).pos, ent[c]) /\ PlaceOK(c, ChildSeekToFirst(c))
         /\ Last_(ChildSeekToLast(c).pos, ent[c]) /\ PlaceOK(c, ChildSeekToLast(c))
<1>1. CASE c # 3
  <2>1. /\ ChildSeekToFirst(c) = At(Smallest(ent[c]), file)
        /\ ChildSeekToLast(c) = At(Largest(ent[c]), file)
    BY <1>1, Zenon DEF ChildSeekToFirst, ChildSeekToLast
  <2>2. ent[c] \subseteq ent[c]
    OBVIOUS
  <2> QED
    BY <2>1, <2>2, <1>1, PlainChild, Zenon
<1>2. CASE c = 3
  <2>0. NumFiles \in Nat
    BY FileFacts, Zenon
  <2>1. 0 \in 0 .. NumFiles /\ NumFiles - 1 \in -1 .. NumFiles - 1
    BY <2>0, SMT
  <2>2. From(0) = ent[3] /\ UpTo(NumFiles - 1) = ent[3]
    BY FileFacts, Zenon DEF From, UpTo
  <2>3. ChildSeekToFirst(c) = LevelAt(0) /\ ChildSeekToLast(c) = LevelBackAt(NumFiles - 1)
    BY <1>2, Zenon DEF ChildSeekToFirst, ChildSeekToLast
  <2> QED
    BY <1>2, <2>1, <2>2, <2>3, LevelAtFirst, LevelBackAtLast, Zenon
<1> QED
  BY <1>1, <1>2

-----------------------------------------------------------------------------
(* The merge.                                                               *)

\* No entry is in two children.
LEMMA ChildrenDisjoint ==
  ASSUME StaticOK, NEW c \in Children, NEW d \in Children, c # d, NEW e \in ent[c], NEW f \in ent[d]
  PROVE  e # f
  BY Zenon DEF StaticOK, EntriesOK

Places(to) == \A c \in Children : to[c].pos # None => to[c].pos \in ent[c]

\* FindSmallest and FindLargest take the child at the end, which is strictly
\* there because sequence numbers are not used twice.
LEMMA FindSmallestIs ==
  ASSUME StaticOK, NEW to, Places(to)
  PROVE  /\ FindSmallest(to) = 0 => \A c \in Children : to[c].pos = None
         /\ FindSmallest(to) # 0 =>
              /\ FindSmallest(to) \in Children /\ to[FindSmallest(to)].pos # None
              /\ \A c \in Children \ {FindSmallest(to)} :
                    to[c].pos # None => Before(to[FindSmallest(to)].pos, to[c].pos)
<1> DEFINE S == {to[c].pos : c \in Children} \ {None}
<1>1. S \subseteq AllEntries
  BY EntriesTyped, Zenon DEF Places
<1>2. First(Smallest(S), S)
  BY <1>1, Ends, Zenon
<1>3. CASE S = {}
  <2>1. FindSmallest(to) = 0
    BY <1>3, Zenon DEF FindSmallest
  <2> QED
    BY <2>1, <1>3, Zenon
<1>4. CASE S # {}
  <2>1. Smallest(S) \in S /\ \A f \in S : f = Smallest(S) \/ Before(Smallest(S), f)
    BY <1>2, <1>4, Zenon DEF First
  <2>2. \E c \in Children : to[c].pos = Smallest(S)
    BY <2>1, Zenon
  <2> DEFINE k == FindSmallest(to)
  <2>3. k \in Children /\ to[k].pos = Smallest(S)
    BY <1>4, <2>2, Zenon DEF FindSmallest
  <2>4. to[k].pos # None /\ k # 0
    <3>1. 0 \notin Children
      BY SMT DEF Children
    <3> QED
      BY <2>1, <2>3, <3>1, Zenon
  <2>5. ASSUME NEW c \in Children \ {k}, to[c].pos # None PROVE Before(to[k].pos, to[c].pos)
    <3>1. to[c].pos \in S
      BY <2>5, Zenon
    <3>2. to[c].pos \in ent[c] /\ to[k].pos \in ent[k]
      BY <2>3, <2>4, <2>5, Zenon DEF Places
    <3>3. to[c].pos # to[k].pos
      BY <3>2, <2>3, ChildrenDisjoint, Zenon
    <3> QED
      BY <3>1, <3>3, <2>1, <2>3, Zenon
  <2> QED
    BY <2>3, <2>4, <2>5, Zenon
<1> QED
  BY <1>3, <1>4, Zenon

LEMMA FindLargestIs ==
  ASSUME StaticOK, NEW to, Places(to)
  PROVE  /\ FindLargest(to) = 0 => \A c \in Children : to[c].pos = None
         /\ FindLargest(to) # 0 =>
              /\ FindLargest(to) \in Children /\ to[FindLargest(to)].pos # None
              /\ \A c \in Children \ {FindLargest(to)} :
                    to[c].pos # None => Before(to[c].pos, to[FindLargest(to)].pos)
<1> DEFINE S == {to[c].pos : c \in Children} \ {None}
<1>1. S \subseteq AllEntries
  BY EntriesTyped, Zenon DEF Places
<1>2. Last_(Largest(S), S)
  BY <1>1, Ends, Zenon
<1>3. CASE S = {}
  <2>1. FindLargest(to) = 0
    BY <1>3, Zenon DEF FindLargest
  <2> QED
    BY <2>1, <1>3, Zenon
<1>4. CASE S # {}
  <2>1. Largest(S) \in S /\ \A f \in S : f = Largest(S) \/ Before(f, Largest(S))
    BY <1>2, <1>4, Zenon DEF Last_
  <2>2. \E c \in Children : to[c].pos = Largest(S)
    BY <2>1, Zenon
  <2> DEFINE k == FindLargest(to)
  <2>3. k \in Children /\ to[k].pos = Largest(S)
    BY <1>4, <2>2, Zenon DEF FindLargest
  <2>4. to[k].pos # None /\ k # 0
    <3>1. 0 \notin Children
      BY SMT DEF Children
    <3> QED
      BY <2>1, <2>3, <3>1, Zenon
  <2>5. ASSUME NEW c \in Children \ {k}, to[c].pos # None PROVE Before(to[c].pos, to[k].pos)
    <3>1. to[c].pos \in S
      BY <2>5, Zenon
    <3>2. to[c].pos \in ent[c] /\ to[k].pos \in ent[k]
      BY <2>3, <2>4, <2>5, Zenon DEF Places
    <3>3. to[c].pos # to[k].pos
      BY <3>2, <2>3, ChildrenDisjoint, Zenon
    <3> QED
      BY <3>1, <3>3, <2>1, <2>3, Zenon
  <2> QED
    BY <2>3, <2>4, <2>5, Zenon
<1> QED
  BY <1>3, <1>4, Zenon

\* Every forward move of the merge has this form: A is what lies ahead of it,
\* and each child is put at its first entry in A, apart from entries the snapshot
\* does not see.
PutForward(to, A) ==
    /\ A \subseteq AllEntries
    /\ \A e \in A, f \in AllEntries : Before(e, f) => f \in A
    /\ \A c \in Children :
         /\ PlaceOK(c, to[c])
         /\ to[c].pos # None => to[c].pos \in A
         /\ \A e \in Seen(c) : e \in A => to[c].pos # None /\ ~Before(e, to[c].pos)

PutBackward(to, A) ==
    /\ A \subseteq AllEntries
    /\ \A e \in A, f \in AllEntries : Before(f, e) => f \in A
    /\ \A c \in Children :
         /\ PlaceOK(c, to[c])
         /\ to[c].pos # None => to[c].pos \in A
         /\ \A e \in Seen(c) : e \in A => to[c].pos # None /\ ~Before(to[c].pos, e)

LEMMA PlacedForward ==
  ASSUME StaticOK, NEW to, NEW A, PutForward(to, A),
         Place(to, FindSmallest(to), kForward), UNCHANGED <<ent, files_, sequence_>>
  PROVE  MergeOK' /\ MergeTyped' /\ Onward' = Visible \cap A
<1> DEFINE k == FindSmallest(to)
<1>0. Children = 1 .. 3 /\ 0 \notin Children
  BY SMT DEF Children
<1>1. /\ pos' = [c \in Children |-> to[c].pos] /\ file' = to[3].file
      /\ current_' = k /\ mdir' = kForward
  BY Zenon DEF Place
<1>2. \A c \in Children : pos'[c] = to[c].pos
  BY <1>1, Zenon
<1>3. Places(to)
  BY Zenon DEF Places, PutForward, PlaceOK
<1>4. /\ k = 0 => \A c \in Children : to[c].pos = None
      /\ k # 0 => /\ k \in Children /\ to[k].pos # None
                  /\ \A c \in Children \ {k} : to[c].pos # None => Before(to[k].pos, to[c].pos)
  BY <1>3, FindSmallestIs, Zenon
<1> HIDE DEF k
<1>5. MergeTyped'
  <2>1. \A c \in Children : to[c].pos \in Entry \cup {None}
    BY <1>3, EntriesTyped, Zenon DEF Places
  <2>2. k \in 0 .. 3
    BY <1>0, <1>4, SMT
  <2> QED
    BY <2>1, <2>2, <1>1, Zenon DEF MergeTyped
<1>6. k # 0 => MKey' = to[k].pos /\ MKey' \in A /\ MKey' \in Rec
  <2>1. k # 0 => to[k].pos \in A
    BY <1>4, Zenon DEF PutForward
  <2>2. A \subseteq Rec
    BY EntriesTyped, Zenon DEF PutForward
  <2>3. k # 0 => MKey' = to[k].pos
    BY <1>1, <1>2, <1>4, Zenon DEF MKey
  <2> QED
    BY <2>1, <2>2, <2>3, Zenon
<1>7. Visible' = Visible /\ \A c \in Children : Seen(c)' = Seen(c)
  BY Zenon DEF Visible, AllEntries, Seen
<1>8. MergeOK'
  <2>1. ASSUME NEW c \in Children PROVE PlaceOK(c, Here(c))'
    <3>1. At(pos'[c], file').pos = to[c].pos /\ At(pos'[c], file').file = to[3].file
      BY <1>1, <1>2, SMT DEF At
    <3>2. PlaceOK(c, to[c])
      BY Zenon DEF PutForward
    <3> QED
      BY <3>1, <3>2, Zenon DEF PlaceOK, Here, NumFiles, FileSet
  <2>2. ASSUME k # 0, NEW c \in Children \ {k}
        PROVE  /\ pos'[c] # None => Before(MKey', pos'[c])
               /\ \A e \in Seen(c) : Before(MKey', e) => pos'[c] # None /\ ~Before(e, pos'[c])
    <3>1. pos'[c] # None => Before(MKey', pos'[c])
      BY <2>2, <1>2, <1>4, <1>6, Zenon
    <3>2. ASSUME NEW e \in Seen(c), Before(MKey', e) PROVE pos'[c] # None /\ ~Before(e, pos'[c])
      <4>1. e \in AllEntries
        BY EntriesTyped, Zenon DEF Seen
      <4>2. e \in A
        BY <4>1, <3>2, <2>2, <1>6, Zenon DEF PutForward
      <4> QED
        BY <4>2, <1>2, Zenon DEF PutForward
    <3> QED
      BY <3>1, <3>2, Zenon
  <2>3. k # 0 => MKey' # None
    BY <1>4, <1>6, Zenon
  <2>4. mdir' # kReverse
    BY <1>1, SMT DEF kForward, kReverse
  <2>5. \A c \in Children : PlaceOK(c, Here(c))'
    BY <2>1, Zenon
  <2>6. k # 0 => \A c \in Children \ {k} :
              /\ pos'[c] # None => Before(MKey', pos'[c])
              /\ \A e \in Seen(c)' : Before(MKey', e) => pos'[c] # None /\ ~Before(e, pos'[c])
    BY <2>2, <1>7, Zenon
  <2> QED
    BY <2>3, <2>4, <2>5, <2>6, <1>1, Zenon DEF MergeOK
<1>9. Onward' = Visible \cap A
  <2>1. ASSUME NEW e \in Visible, e \in A PROVE k # 0 /\ ~Before(e, MKey')
    <3>1. PICK c \in Children : e \in Seen(c)
      BY Zenon DEF Visible, AllEntries, Seen
    <3>2. to[c].pos # None /\ ~Before(e, to[c].pos)
      BY <3>1, <2>1, Zenon DEF PutForward
    <3>3. k # 0 /\ (to[c].pos = MKey' \/ Before(MKey', to[c].pos))
      BY <3>2, <1>4, <1>6, Zenon
    <3>4. e \in Rec /\ to[c].pos \in Rec
      BY <3>2, <1>3, EntriesTyped, Zenon DEF Visible, Places
    <3> QED
      BY <3>2, <3>3, <3>4, <1>6, Order, Zenon
  <2>2. ASSUME NEW e \in Visible, k # 0, ~Before(e, MKey') PROVE e \in A
    <3>1. e \in AllEntries /\ e \in Rec
      BY EntriesTyped, Zenon DEF Visible
    <3>2. e = MKey' \/ Before(MKey', e)
      BY <3>1, <2>2, <1>6, Order, Zenon
    <3> QED
      BY <3>1, <3>2, <2>2, <1>6, Zenon DEF PutForward
  <2>3. Onward' = {e \in Visible : k # 0 /\ ~Before(e, MKey')}
    BY <1>1, <1>7, Zenon DEF Onward
  <2> QED
    BY <2>1, <2>2, <2>3, Zenon
<1> QED
  BY <1>5, <1>8, <1>9

LEMMA PlacedBackward ==
  ASSUME StaticOK, NEW to, NEW A, PutBackward(to, A),
         Place(to, FindLargest(to), kReverse), UNCHANGED <<ent, files_, sequence_>>
  PROVE  MergeOK' /\ MergeTyped' /\ Behind' = Visible \cap A
<1> DEFINE k == FindLargest(to)
<1>0. Children = 1 .. 3 /\ 0 \notin Children
  BY SMT DEF Children
<1>1. /\ pos' = [c \in Children |-> to[c].pos] /\ file' = to[3].file
      /\ current_' = k /\ mdir' = kReverse
  BY Zenon DEF Place
<1>2. \A c \in Children : pos'[c] = to[c].pos
  BY <1>1, Zenon
<1>3. Places(to)
  BY Zenon DEF Places, PutBackward, PlaceOK
<1>4. /\ k = 0 => \A c \in Children : to[c].pos = None
      /\ k # 0 => /\ k \in Children /\ to[k].pos # None
                  /\ \A c \in Children \ {k} : to[c].pos # None => Before(to[c].pos, to[k].pos)
  BY <1>3, FindLargestIs, Zenon
<1> HIDE DEF k
<1>5. MergeTyped'
  <2>1. \A c \in Children : to[c].pos \in Entry \cup {None}
    BY <1>3, EntriesTyped, Zenon DEF Places
  <2>2. k \in 0 .. 3
    BY <1>0, <1>4, SMT
  <2> QED
    BY <2>1, <2>2, <1>1, Zenon DEF MergeTyped
<1>6. k # 0 => MKey' = to[k].pos /\ MKey' \in A /\ MKey' \in Rec
  <2>1. k # 0 => to[k].pos \in A
    BY <1>4, Zenon DEF PutBackward
  <2>2. A \subseteq Rec
    BY EntriesTyped, Zenon DEF PutBackward
  <2>3. k # 0 => MKey' = to[k].pos
    BY <1>1, <1>2, <1>4, Zenon DEF MKey
  <2> QED
    BY <2>1, <2>2, <2>3, Zenon
<1>7. Visible' = Visible /\ \A c \in Children : Seen(c)' = Seen(c)
  BY Zenon DEF Visible, AllEntries, Seen
<1>8. MergeOK'
  <2>1. ASSUME NEW c \in Children PROVE PlaceOK(c, Here(c))'
    <3>1. At(pos'[c], file').pos = to[c].pos /\ At(pos'[c], file').file = to[3].file
      BY <1>1, <1>2, SMT DEF At
    <3>2. PlaceOK(c, to[c])
      BY Zenon DEF PutBackward
    <3> QED
      BY <3>1, <3>2, Zenon DEF PlaceOK, Here, NumFiles, FileSet
  <2>2. ASSUME k # 0, NEW c \in Children \ {k}
        PROVE  /\ pos'[c] # None => Before(pos'[c], MKey')
               /\ \A e \in Seen(c) : Before(e, MKey') => pos'[c] # None /\ ~Before(pos'[c], e)
    <3>1. pos'[c] # None => Before(pos'[c], MKey')
      BY <2>2, <1>2, <1>4, <1>6, Zenon
    <3>2. ASSUME NEW e \in Seen(c), Before(e, MKey') PROVE pos'[c] # None /\ ~Before(pos'[c], e)
      <4>1. e \in AllEntries
        BY EntriesTyped, Zenon DEF Seen
      <4>2. e \in A
        BY <4>1, <3>2, <2>2, <1>6, Zenon DEF PutBackward
      <4> QED
        BY <4>2, <1>2, Zenon DEF PutBackward
    <3> QED
      BY <3>1, <3>2, Zenon
  <2>3. k # 0 => MKey' # None
    BY <1>4, <1>6, Zenon
  <2>4. mdir' # kForward
    BY <1>1, SMT DEF kForward, kReverse
  <2>5. \A c \in Children : PlaceOK(c, Here(c))'
    BY <2>1, Zenon
  <2>6. k # 0 => \A c \in Children \ {k} :
              /\ pos'[c] # None => Before(pos'[c], MKey')
              /\ \A e \in Seen(c)' : Before(e, MKey') => pos'[c] # None /\ ~Before(pos'[c], e)
    BY <2>2, <1>7, Zenon
  <2> QED
    BY <2>3, <2>4, <2>5, <2>6, <1>1, Zenon DEF MergeOK
<1>9. Behind' = Visible \cap A
  <2>1. ASSUME NEW e \in Visible, e \in A PROVE k # 0 /\ ~Before(MKey', e)
    <3>1. PICK c \in Children : e \in Seen(c)
      BY Zenon DEF Visible, AllEntries, Seen
    <3>2. to[c].pos # None /\ ~Before(to[c].pos, e)
      BY <3>1, <2>1, Zenon DEF PutBackward
    <3>3. k # 0 /\ (to[c].pos = MKey' \/ Before(to[c].pos, MKey'))
      BY <3>2, <1>4, <1>6, Zenon
    <3>4. e \in Rec /\ to[c].pos \in Rec
      BY <3>2, <1>3, EntriesTyped, Zenon DEF Visible, Places
    <3> QED
      BY <3>2, <3>3, <3>4, <1>6, Order, Zenon
  <2>2. ASSUME NEW e \in Visible, k # 0, ~Before(MKey', e) PROVE e \in A
    <3>1. e \in AllEntries /\ e \in Rec
      BY EntriesTyped, Zenon DEF Visible
    <3>2. e = MKey' \/ Before(e, MKey')
      BY <3>1, <2>2, <1>6, Order, Zenon
    <3> QED
      BY <3>1, <3>2, <2>2, <1>6, Zenon DEF PutBackward
  <2>3. Behind' = {e \in Visible : k # 0 /\ ~Before(MKey', e)}
    BY <1>1, <1>7, Zenon DEF Behind
  <2> QED
    BY <2>1, <2>2, <2>3, Zenon
<1> QED
  BY <1>5, <1>8, <1>9

\* A child at the end of its part of A is placed as PutForward asks.
LEMMA FirstPuts ==
  ASSUME StaticOK, NEW c \in Children, NEW A, NEW p, First(p, ent[c] \cap A)
  PROVE  /\ p # None => p \in A
         /\ \A e \in Seen(c) : e \in A => p # None /\ ~Before(e, p)
<1>1. ent[c] \cap A \subseteq AllEntries
  BY EntriesTyped, Zenon
<1>2. /\ p # None <=> ent[c] \cap A # {}
      /\ p # None => p \in ent[c] \cap A /\ \A f \in ent[c] \cap A : f = p \/ Before(p, f)
  BY <1>1, FirstIn, Zenon
<1>3. ASSUME NEW e \in Seen(c), e \in A PROVE p # None /\ ~Before(e, p)
  <2>1. e \in ent[c] \cap A
    BY <1>3, Zenon DEF Seen
  <2>2. p # None /\ (e = p \/ Before(p, e)) /\ e \in Rec /\ p \in Rec
    BY <2>1, <1>2, <1>1, EntriesTyped, Zenon
  <2> QED
    BY <2>2, Order, Zenon
<1> QED
  BY <1>2, <1>3, Zenon

LEMMA LastPuts ==
  ASSUME StaticOK, NEW c \in Children, NEW A, NEW p, Last_(p, ent[c] \cap A)
  PROVE  /\ p # None => p \in A
         /\ \A e \in Seen(c) : e \in A => p # None /\ ~Before(p, e)
<1>1. ent[c] \cap A \subseteq AllEntries
  BY EntriesTyped, Zenon
<1>2. /\ p # None <=> ent[c] \cap A # {}
      /\ p # None => p \in ent[c] \cap A /\ \A f \in ent[c] \cap A : f = p \/ Before(f, p)
  BY <1>1, LastIn, Zenon
<1>3. ASSUME NEW e \in Seen(c), e \in A PROVE p # None /\ ~Before(p, e)
  <2>1. e \in ent[c] \cap A
    BY <1>3, Zenon DEF Seen
  <2>2. p # None /\ (e = p \/ Before(e, p)) /\ e \in Rec /\ p \in Rec
    BY <2>1, <1>2, <1>1, EntriesTyped, Zenon
  <2> QED
    BY <2>2, Order, Zenon
<1> QED
  BY <1>2, <1>3, Zenon

LEMMA MergeSeekToFirstMoves ==
  ASSUME StaticOK, MergeSeekToFirst, UNCHANGED <<ent, files_, sequence_>>
  PROVE  MergeOK' /\ MergeTyped' /\ Onward' = Visible
<1>1. PICK to : to = [c \in Children |-> ChildSeekToFirst(c)]
  OBVIOUS
<1>2. Place(to, FindSmallest(to), kForward)
  BY <1>1, Zenon DEF MergeSeekToFirst
<1>3. PICK A : A = AllEntries
  OBVIOUS
<1>4. PutForward(to, A)
  <2>1. ASSUME NEW c \in Children
        PROVE  /\ PlaceOK(c, to[c])
               /\ to[c].pos # None => to[c].pos \in A
               /\ \A e \in Seen(c) : e \in A => to[c].pos # None /\ ~Before(e, to[c].pos)
    <3>1. to[c] = ChildSeekToFirst(c)
      BY <1>1, Zenon
    <3>2. First(to[c].pos, ent[c]) /\ PlaceOK(c, to[c])
      BY <3>1, ChildEnds, Zenon
    <3>3. ent[c] \cap A = ent[c]
      BY <1>3, EntriesTyped, Zenon
    <3>4. First(to[c].pos, ent[c] \cap A)
      BY <3>2, <3>3
    <3> QED
      BY <3>2, <3>4, FirstPuts, Zenon
  <2> QED
    BY <2>1, <1>3, Zenon DEF PutForward
<1>5. Visible \cap A = Visible
  BY <1>3, Zenon DEF Visible
<1> QED
  BY <1>2, <1>4, <1>5, PlacedForward, Zenon

LEMMA MergeSeekToLastMoves ==
  ASSUME StaticOK, MergeSeekToLast, UNCHANGED <<ent, files_, sequence_>>
  PROVE  MergeOK' /\ MergeTyped' /\ Behind' = Visible
<1>1. PICK to : to = [c \in Children |-> ChildSeekToLast(c)]
  OBVIOUS
<1>2. Place(to, FindLargest(to), kReverse)
  BY <1>1, Zenon DEF MergeSeekToLast
<1>3. PICK A : A = AllEntries
  OBVIOUS
<1>4. PutBackward(to, A)
  <2>1. ASSUME NEW c \in Children
        PROVE  /\ PlaceOK(c, to[c])
               /\ to[c].pos # None => to[c].pos \in A
               /\ \A e \in Seen(c) : e \in A => to[c].pos # None /\ ~Before(to[c].pos, e)
    <3>1. to[c] = ChildSeekToLast(c)
      BY <1>1, Zenon
    <3>2. Last_(to[c].pos, ent[c]) /\ PlaceOK(c, to[c])
      BY <3>1, ChildEnds, Zenon
    <3>3. ent[c] \cap A = ent[c]
      BY <1>3, EntriesTyped, Zenon
    <3>4. Last_(to[c].pos, ent[c] \cap A)
      BY <3>2, <3>3
    <3> QED
      BY <3>2, <3>4, LastPuts, Zenon
  <2> QED
    BY <2>1, <1>3, Zenon DEF PutBackward
<1>5. Visible \cap A = Visible
  BY <1>3, Zenon DEF Visible
<1> QED
  BY <1>2, <1>4, <1>5, PlacedBackward, Zenon

LEMMA MergeSeekMoves ==
  ASSUME StaticOK, NEW t \in Rec, MergeSeek(t), UNCHANGED <<ent, files_, sequence_>>
  PROVE  MergeOK' /\ MergeTyped' /\ Onward' = {e \in Visible : ~Before(e, t)}
<1>1. PICK to : to = [c \in Children |-> ChildSeek(c, t)]
  OBVIOUS
<1>2. Place(to, FindSmallest(to), kForward)
  BY <1>1, Zenon DEF MergeSeek
<1>3. PICK A : A = {e \in AllEntries : ~Before(e, t)}
  OBVIOUS
<1>4. PutForward(to, A)
  <2>1. ASSUME NEW c \in Children
        PROVE  /\ PlaceOK(c, to[c])
               /\ to[c].pos # None => to[c].pos \in A
               /\ \A e \in Seen(c) : e \in A => to[c].pos # None /\ ~Before(e, to[c].pos)
    <3>1. to[c] = ChildSeek(c, t)
      BY <1>1, Zenon
    <3>2. First(to[c].pos, {e \in ent[c] : ~Before(e, t)}) /\ PlaceOK(c, to[c])
      BY <3>1, ChildSeekFirst, Zenon
    <3>3. ent[c] \cap A = {e \in ent[c] : ~Before(e, t)}
      BY <1>3, EntriesTyped, Zenon
    <3>4. First(to[c].pos, ent[c] \cap A)
      BY <3>2, <3>3, Zenon
    <3> QED
      BY <3>2, <3>4, FirstPuts, Zenon
  <2>2. ASSUME NEW e \in A, NEW f \in AllEntries, Before(e, f) PROVE f \in A
    <3>1. e \in Rec /\ f \in Rec /\ ~Before(e, t)
      BY <1>3, EntriesTyped, Zenon
    <3>2. ~Before(f, t)
      BY <3>1, <2>2, Order, Zenon
    <3> QED
      BY <3>2, <1>3, Zenon
  <2> QED
    BY <2>1, <2>2, <1>3, Zenon DEF PutForward
<1>5. Visible \cap A = {e \in Visible : ~Before(e, t)}
  BY <1>3, Zenon DEF Visible
<1> QED
  BY <1>2, <1>4, <1>5, PlacedForward, Zenon

\* MergingIterator::Next goes to the next entry of all children, whichever way
\* the merge moved before.
LEMMA MergeNextMoves ==
  ASSUME StaticOK, MergeOK, current_ # 0, MergeNext, UNCHANGED <<ent, files_, sequence_>>
  PROVE  MergeOK' /\ MergeTyped' /\ Onward' = {e \in Visible : Before(MKey, e)}
<1>0. current_ \in Children /\ mdir \in {kForward, kReverse}
  BY SMT DEF StaticOK, TypeOK, MergeTyped, Children
<1>1. PICK m : m = MKey
  OBVIOUS
<1> DEFINE After(c) == LET s == ChildSeek(c, MKey)
                       IN  IF s.pos # None /\ s.pos = MKey THEN ChildNext(c, s) ELSE s
<1>2. PICK to : to = [c \in Children |->
                        IF c = current_ THEN ChildNext(c, Here(c))
                        ELSE IF mdir # kForward THEN After(c) ELSE Here(c)]
  OBVIOUS
<1>3. Place(to, FindSmallest(to), kForward)
  BY <1>2, Zenon DEF MergeNext
<1>4. PICK A : A = {e \in AllEntries : Before(m, e)}
  OBVIOUS
<1>5. \A c \in Children : PlaceOK(c, Here(c)) /\ Here(c).pos = pos[c]
  BY SMT DEF MergeOK, Here, At
<1>6. m = pos[current_] /\ m # None /\ m \in ent[current_] /\ m \in Rec
  <2>1. m = pos[current_] /\ m # None
    BY <1>1, Zenon DEF MergeOK, MKey
  <2>2. m \in ent[current_]
    BY <2>1, <1>0, <1>5, Zenon DEF PlaceOK
  <2> QED
    BY <2>1, <2>2, <1>0, EntriesTyped, Zenon
<1>7. \A c \in Children : ent[c] \cap A = {e \in ent[c] : Before(m, e)}
  BY <1>4, EntriesTyped, Zenon
<1>8. ASSUME NEW c \in Children
      PROVE  /\ PlaceOK(c, to[c])
             /\ to[c].pos # None => to[c].pos \in A
             /\ \A e \in Seen(c) : e \in A => to[c].pos # None /\ ~Before(e, to[c].pos)
  <2>1. CASE c = current_
    <3>1. to[c] = ChildNext(c, Here(c))
      BY <2>1, <1>2, Zenon
    <3>2. First(to[c].pos, {e \in ent[c] : Before(Here(c).pos, e)}) /\ PlaceOK(c, to[c])
      BY <3>1, <2>1, <1>5, <1>6, ChildNextFirst, Zenon
    <3>3. First(to[c].pos, ent[c] \cap A)
      BY <3>2, <2>1, <1>5, <1>6, <1>7, Zenon
    <3> QED
      BY <3>2, <3>3, FirstPuts, Zenon
  <2>2. CASE c # current_ /\ mdir # kForward
    <3>1. PICK s : s = ChildSeek(c, m)
      OBVIOUS
    <3>2. First(s.pos, {e \in ent[c] : ~Before(e, m)}) /\ PlaceOK(c, s)
      BY <3>1, <1>6, ChildSeekFirst, Zenon
    <3>3. \A e \in ent[c] : e # m /\ e \in Rec
      BY <2>2, <1>0, <1>6, ChildrenDisjoint, EntriesTyped, Zenon
    <3>4. s.pos # m
      <4>1. {e \in ent[c] : ~Before(e, m)} \subseteq AllEntries
        BY EntriesTyped, Zenon
      <4>2. s.pos # None => s.pos \in ent[c]
        BY <4>1, <3>2, FirstIn, Zenon
      <4> QED
        BY <4>2, <3>3, <1>6, Zenon
    <3>5. to[c] = s
      BY <2>2, <3>1, <3>4, <1>1, <1>2, Zenon
    <3>6. {e \in ent[c] : ~Before(e, m)} = ent[c] \cap A
      <4>1. \A e \in ent[c] : ~Before(e, m) <=> Before(m, e)
        BY <3>3, <1>6, Order, Zenon
      <4> QED
        BY <4>1, <1>7, Zenon
    <3>7. First(to[c].pos, ent[c] \cap A)
      BY <3>2, <3>5, <3>6
    <3> QED
      BY <3>2, <3>5, <3>7, FirstPuts, Zenon
  <2>3. CASE c # current_ /\ mdir = kForward
    <3>1. to[c] = Here(c)
      BY <2>3, <1>2, Zenon
    <3>2. /\ pos[c] # None => Before(m, pos[c]) /\ pos[c] \in ent[c]
          /\ \A e \in Seen(c) : Before(m, e) => pos[c] # None /\ ~Before(e, pos[c])
      BY <2>3, <1>1, <1>5, Zenon DEF MergeOK, PlaceOK
    <3>3. to[c].pos = pos[c] /\ PlaceOK(c, to[c])
      BY <3>1, <1>5, Zenon
    <3>4. pos[c] # None => pos[c] \in A
      BY <3>2, <1>4, EntriesTyped, Zenon
    <3>5. \A e \in A : Before(m, e)
      BY <1>4, Zenon
    <3> QED
      BY <3>2, <3>3, <3>4, <3>5, Zenon
  <2> QED
    BY <2>1, <2>2, <2>3, Zenon
<1>9. ASSUME NEW e \in A, NEW f \in AllEntries, Before(e, f) PROVE f \in A
  <2>1. e \in Rec /\ f \in Rec /\ Before(m, e)
    BY <1>4, EntriesTyped, Zenon
  <2>2. Before(m, f)
    BY <2>1, <1>6, <1>9, Order, Zenon
  <2> QED
    BY <2>2, <1>4, Zenon
<1>10. A \subseteq AllEntries
  BY <1>4, Zenon
<1>11. PutForward(to, A)
  BY <1>8, <1>9, <1>10, Zenon DEF PutForward
<1>12. Visible \cap A = {e \in Visible : Before(m, e)}
  BY <1>4, Zenon DEF Visible
<1> QED
  BY <1>1, <1>3, <1>11, <1>12, PlacedForward, Zenon

\* MergingIterator::Prev.
LEMMA MergePrevMoves ==
  ASSUME StaticOK, MergeOK, current_ # 0, MergePrev, UNCHANGED <<ent, files_, sequence_>>
  PROVE  MergeOK' /\ MergeTyped' /\ Behind' = {e \in Visible : Before(e, MKey)}
<1>0. current_ \in Children /\ mdir \in {kForward, kReverse}
  BY SMT DEF StaticOK, TypeOK, MergeTyped, Children
<1>1. PICK m : m = MKey
  OBVIOUS
<1> DEFINE Before_(c) == LET s == ChildSeek(c, MKey)
                         IN  IF s.pos # None THEN ChildPrev(c, s) ELSE ChildSeekToLast(c)
<1>2. PICK to : to = [c \in Children |->
                        IF c = current_ THEN ChildPrev(c, Here(c))
                        ELSE IF mdir # kReverse THEN Before_(c) ELSE Here(c)]
  OBVIOUS
<1>3. Place(to, FindLargest(to), kReverse)
  BY <1>2, Zenon DEF MergePrev
<1>4. PICK A : A = {e \in AllEntries : Before(e, m)}
  OBVIOUS
<1>5. \A c \in Children : PlaceOK(c, Here(c)) /\ Here(c).pos = pos[c]
  BY SMT DEF MergeOK, Here, At
<1>6. m = pos[current_] /\ m # None /\ m \in ent[current_] /\ m \in Rec
  <2>1. m = pos[current_] /\ m # None
    BY <1>1, Zenon DEF MergeOK, MKey
  <2>2. m \in ent[current_]
    BY <2>1, <1>0, <1>5, Zenon DEF PlaceOK
  <2> QED
    BY <2>1, <2>2, <1>0, EntriesTyped, Zenon
<1>7. \A c \in Children : ent[c] \cap A = {e \in ent[c] : Before(e, m)}
  BY <1>4, EntriesTyped, Zenon
<1>8. ASSUME NEW c \in Children
      PROVE  /\ PlaceOK(c, to[c])
             /\ to[c].pos # None => to[c].pos \in A
             /\ \A e \in Seen(c) : e \in A => to[c].pos # None /\ ~Before(to[c].pos, e)
  <2>1. CASE c = current_
    <3>1. to[c] = ChildPrev(c, Here(c))
      BY <2>1, <1>2, Zenon
    <3>2. Last_(to[c].pos, {e \in ent[c] : Before(e, Here(c).pos)}) /\ PlaceOK(c, to[c])
      BY <3>1, <2>1, <1>5, <1>6, ChildPrevLast, Zenon
    <3>3. Last_(to[c].pos, ent[c] \cap A)
      BY <3>2, <2>1, <1>5, <1>6, <1>7, Zenon
    <3> QED
      BY <3>2, <3>3, LastPuts, Zenon
  <2>2. CASE c # current_ /\ mdir # kReverse
    <3>1. PICK s : s = ChildSeek(c, m)
      OBVIOUS
    <3>2. First(s.pos, {e \in ent[c] : ~Before(e, m)}) /\ PlaceOK(c, s)
      BY <3>1, <1>6, ChildSeekFirst, Zenon
    <3>3. \A e \in ent[c] : e \in Rec
      BY EntriesTyped, Zenon
    <3>4. {e \in ent[c] : ~Before(e, m)} \subseteq AllEntries
      BY EntriesTyped, Zenon
    <3>5. /\ s.pos # None <=> {e \in ent[c] : ~Before(e, m)} # {}
          /\ s.pos # None => /\ s.pos \in ent[c] /\ ~Before(s.pos, m)
                             /\ \A f \in ent[c] : ~Before(f, m) => f = s.pos \/ Before(s.pos, f)
      BY <3>2, <3>4, FirstIn, Zenon
    <3>6. CASE s.pos # None
      <4>1. to[c] = ChildPrev(c, s)
        BY <2>2, <3>1, <3>6, <1>1, <1>2, Zenon
      <4>2. Last_(to[c].pos, {e \in ent[c] : Before(e, s.pos)}) /\ PlaceOK(c, to[c])
        BY <4>1, <3>2, <3>6, ChildPrevLast, Zenon
      <4>3. \A e \in ent[c] : Before(e, s.pos) <=> Before(e, m)
        BY <3>3, <3>5, <3>6, <1>6, Order, Zenon
      <4>4. {e \in ent[c] : Before(e, s.pos)} = ent[c] \cap A
        BY <4>3, <1>7, Zenon
      <4>5. Last_(to[c].pos, ent[c] \cap A)
        BY <4>2, <4>4
      <4> QED
        BY <4>2, <4>5, LastPuts, Zenon
    <3>7. CASE s.pos = None
      <4>1. to[c] = ChildSeekToLast(c)
        BY <2>2, <3>1, <3>7, <1>1, <1>2, Zenon
      <4>2. Last_(to[c].pos, ent[c]) /\ PlaceOK(c, to[c])
        BY <4>1, ChildEnds, Zenon
      <4>3. ent[c] = ent[c] \cap A
        BY <3>5, <3>7, <1>7, Zenon
      <4>4. Last_(to[c].pos, ent[c] \cap A)
        BY <4>2, <4>3
      <4> QED
        BY <4>2, <4>4, LastPuts, Zenon
    <3> QED
      BY <3>6, <3>7, Zenon
  <2>3. CASE c # current_ /\ mdir = kReverse
    <3>1. to[c] = Here(c)
      BY <2>3, <1>2, Zenon
    <3>2. /\ pos[c] # None => Before(pos[c], m) /\ pos[c] \in ent[c]
          /\ \A e \in Seen(c) : Before(e, m) => pos[c] # None /\ ~Before(pos[c], e)
      BY <2>3, <1>1, <1>5, Zenon DEF MergeOK, PlaceOK
    <3>3. to[c].pos = pos[c] /\ PlaceOK(c, to[c])
      BY <3>1, <1>5, Zenon
    <3>4. pos[c] # None => pos[c] \in A
      BY <3>2, <1>4, EntriesTyped, Zenon
    <3>5. \A e \in A : Before(e, m)
      BY <1>4, Zenon
    <3> QED
      BY <3>2, <3>3, <3>4, <3>5, Zenon
  <2> QED
    BY <2>1, <2>2, <2>3, Zenon
<1>9. ASSUME NEW e \in A, NEW f \in AllEntries, Before(f, e) PROVE f \in A
  <2>1. e \in Rec /\ f \in Rec /\ Before(e, m)
    BY <1>4, EntriesTyped, Zenon
  <2>2. Before(f, m)
    BY <2>1, <1>6, <1>9, Order, Zenon
  <2> QED
    BY <2>2, <1>4, Zenon
<1>10. A \subseteq AllEntries
  BY <1>4, Zenon
<1>11. PutBackward(to, A)
  BY <1>8, <1>9, <1>10, Zenon DEF PutBackward
<1>12. Visible \cap A = {e \in Visible : Before(e, m)}
  BY <1>4, Zenon DEF Visible
<1> QED
  BY <1>1, <1>3, <1>11, <1>12, PlacedBackward, Zenon

-----------------------------------------------------------------------------
(* The loops of DBIter, over sets of entries.  V is what the snapshot sees, *)
(* N the newest entry of each key in it, L the keys whose newest is a value.*)

Snap(V, N, L) ==
    /\ V \subseteq Entry /\ L \subseteq Nat
    /\ \A e \in V : /\ N[e.key] \in V /\ N[e.key].key = e.key
                    /\ e = N[e.key] \/ Before(N[e.key], e)
                    /\ N[e.key].type = kTypeValue => e.key \in L
    /\ \A k \in L : N[k] \in V /\ N[k].key = k /\ N[k].type = kTypeValue

LEMMA SnapshotFacts ==
  ASSUME StaticOK
  PROVE  Snap(Visible, Newest, Live)
<1>1. Visible \subseteq AllEntries /\ Visible \subseteq Entry
  BY EntriesTyped, Zenon DEF Visible
<1>2. ASSUME NEW k \in Keys
      PROVE  /\ Newest[k] = NewestOf(k)
             /\ NewestOf(k) # None <=> \E e \in Visible : e.key = k
             /\ NewestOf(k) # None => /\ NewestOf(k) \in Visible /\ NewestOf(k).key = k
                                      /\ \A e \in Visible : e.key = k => e = NewestOf(k) \/ Before(NewestOf(k), e)
  <2> DEFINE S == {e \in AllEntries : e.key = k /\ e.seq <= sequence_}
             p == Smallest(S)
  <2>1. S \subseteq AllEntries
    BY Zenon
  <2>2. First(p, S)
    BY <2>1, Ends, Zenon
  <2>3. \A e : e \in S <=> e \in Visible /\ e.key = k
    BY Zenon DEF Visible
  <2>4. NewestOf(k) = p
    BY Zenon DEF NewestOf
  <2> HIDE DEF S, p
  <2>5. /\ p # None <=> S # {}
        /\ p # None => p \in S /\ \A f \in S : f = p \/ Before(p, f)
    BY <2>1, <2>2, FirstIn, Zenon
  <2>6. Newest[k] = NewestOf(k)
    BY Zenon DEF Newest
  <2> QED
    BY <2>3, <2>4, <2>5, <2>6, Zenon
<1>3. ASSUME NEW e \in Visible
      PROVE  /\ Newest[e.key] \in Visible /\ Newest[e.key].key = e.key
             /\ e = Newest[e.key] \/ Before(Newest[e.key], e)
             /\ Newest[e.key].type = kTypeValue => e.key \in Live
  <2>1. e.key \in Keys
    BY <1>1, EntriesTyped, Zenon
  <2> QED
    BY <2>1, <1>2, Zenon DEF Live
<1>4. ASSUME NEW k \in Live
      PROVE  Newest[k] \in Visible /\ Newest[k].key = k /\ Newest[k].type = kTypeValue
  <2>1. k \in Keys /\ NewestOf(k).type = kTypeValue /\ NewestOf(k) # None
    BY Zenon DEF Live
  <2> QED
    BY <2>1, <1>2, Zenon
<1>5. Live \subseteq Nat
  <2>1. PICK n \in Nat : Keys \subseteq 0 .. n
    BY Zenon DEF StaticOK, KeysAssumption
  <2>2. Keys \subseteq Nat
    BY <2>1, SMT
  <2> QED
    BY <2>2, Zenon DEF Live
<1> QED
  BY <1>1, <1>3, <1>4, <1>5, Zenon DEF Snap

\* FindNextUserEntry passes a deletion and hides the older entries of its key.
LEMMA FwdDeletion ==
  ASSUME NEW V, NEW N, NEW L, Snap(V, N, L), NEW R, R \subseteq V, NEW x \in Int, NEW skip \in BOOLEAN,
         NEW sk \in Int, FwdOK(N, L, R, x, skip, sk),
         NEW m \in R, \A e \in R : e = m \/ Before(m, e), m.type = kTypeDeletion
  PROVE  FwdOK(N, L, R \ {m}, x, TRUE, m.key)
<1>0. V \subseteq Rec /\ kTypeDeletion # kTypeValue /\ \A e \in V : e.key \in Nat
  BY EntryIsRec, SMT DEF Snap, Entry, kTypeDeletion, kTypeValue
<1>1. \A e \in R : e.key >= m.key
  BY <1>0, OrderKeys, SMT
<1>2. ASSUME x # -1 PROVE x \in L /\ N[x] \in R \ {m} /\ m.key < x
  <2>1. x \in L /\ N[x] \in R /\ N[x].key = x /\ N[x].type = kTypeValue
    BY <1>2, Zenon DEF FwdOK, Snap
  <2>2. N[x] # m
    BY <2>1, <1>0, Zenon
  <2>3. m.key <= x
    BY <2>1, <1>1, Zenon
  <2>4. m.key # x
    <3>1. SUFFICES ASSUME m.key = x PROVE FALSE
      OBVIOUS
    <3>2. m \in Rec /\ N[x] \in Rec
      BY <2>1, <1>0, Zenon
    <3>3. Before(N[x], m) /\ Before(m, N[x])
      BY <3>1, <2>1, <2>2, Zenon DEF Snap
    <3> QED
      BY <3>2, <3>3, Order, Zenon
  <2> QED
    BY <2>1, <2>2, <2>3, <2>4, <1>0, SMT
<1>3. ASSUME NEW e \in R \ {m}, x = -1 \/ e.key < x, ~(e.key <= m.key)
      PROVE  e.key \notin L /\ N[e.key] \in R \ {m}
  <2>1. m.key \in Nat /\ e.key \in Nat /\ m.key < e.key
    BY <1>0, <1>3, SMT
  <2>2. ~(skip /\ e.key <= sk)
    <3>1. skip => m.key >= sk
      BY Zenon DEF FwdOK
    <3> QED
      BY <3>1, <2>1, SMT
  <2>3. e.key \notin L /\ N[e.key] \in R
    BY <2>2, <1>3, Zenon DEF FwdOK
  <2>4. N[e.key].key = e.key
    BY Zenon DEF Snap
  <2> QED
    BY <2>1, <2>3, <2>4, SMT
<1> QED
  BY <1>1, <1>2, <1>3, Zenon DEF FwdOK

\* It passes a value that is hidden.
LEMMA FwdHidden ==
  ASSUME NEW V, NEW N, NEW L, Snap(V, N, L), NEW R, R \subseteq V, NEW x \in Int, NEW sk \in Int,
         FwdOK(N, L, R, x, TRUE, sk), NEW m \in R, m.key <= sk
  PROVE  FwdOK(N, L, R \ {m}, x, TRUE, sk)
<1>0. \A e \in V : e.key \in Nat
  BY SMT DEF Snap, Entry
<1>1. ASSUME x # -1 PROVE x \in L /\ N[x] \in R \ {m} /\ sk < x
  <2>1. x \in L /\ N[x] \in R /\ N[x].key = x /\ sk < x
    BY <1>1, Zenon DEF FwdOK, Snap
  <2> QED
    BY <2>1, <1>0, SMT
<1>2. ASSUME NEW e \in R \ {m}, x = -1 \/ e.key < x, ~(e.key <= sk)
      PROVE  e.key \notin L /\ N[e.key] \in R \ {m}
  <2>1. e.key \notin L /\ N[e.key] \in R
    BY <1>2, Zenon DEF FwdOK
  <2>2. N[e.key].key = e.key
    BY Zenon DEF Snap
  <2> QED
    BY <2>1, <2>2, <1>2, Zenon
<1>3. \A e \in R \ {m} : e.key >= sk
  BY Zenon DEF FwdOK
<1> QED
  BY <1>1, <1>2, <1>3, Zenon DEF FwdOK

\* The value it stops at is the newest of the key that is looked for.
LEMMA FwdFound ==
  ASSUME NEW V, NEW N, NEW L, Snap(V, N, L), NEW R, R \subseteq V, NEW x \in Int, NEW skip \in BOOLEAN,
         NEW sk \in Int, FwdOK(N, L, R, x, skip, sk), NEW m \in R, \A e \in R : e = m \/ Before(m, e),
         m.type = kTypeValue, ~(skip /\ m.key <= sk)
  PROVE  x # -1 /\ x \in L /\ m = N[x]
<1>0. V \subseteq Rec /\ \A e \in V : e.key \in Nat
  BY EntryIsRec, SMT DEF Snap, Entry
<1>1. \A k : N[k] \in R /\ (m = N[k] \/ Before(N[k], m)) => m = N[k]
  BY <1>0, Order, Zenon
<1>2. ~(x = -1 \/ m.key < x)
  <2>1. SUFFICES ASSUME x = -1 \/ m.key < x PROVE FALSE
    OBVIOUS
  <2>2. m.key \notin L /\ N[m.key] \in R
    BY <2>1, Zenon DEF FwdOK
  <2>3. m = N[m.key] \/ Before(N[m.key], m)
    BY Zenon DEF Snap
  <2>4. m = N[m.key]
    BY <2>2, <2>3, <1>1, Zenon
  <2> QED
    BY <2>2, <2>4, Zenon DEF Snap
<1>3. x \in L /\ N[x] \in R /\ N[x].key = x
  BY <1>2, Zenon DEF FwdOK, Snap
<1>4. m.key <= x
  <2>1. m = N[x] \/ Before(m, N[x])
    BY <1>3, Zenon
  <2>2. m \in Rec /\ N[x] \in Rec
    BY <1>3, <1>0, Zenon
  <2> QED
    BY <2>1, <2>2, <1>3, OrderKeys, SMT
<1>5. m.key = x
  BY <1>2, <1>4, <1>0, SMT
<1>6. m = N[x] \/ Before(N[x], m)
  BY <1>5, Zenon DEF Snap
<1> QED
  BY <1>1, <1>2, <1>3, <1>6, Zenon

\* FindPrevUserEntry may not find the newest entry of the key it saved and then
\* go on past it: the entry below would be a newer one of the same key.
LEMMA RevNotPassed ==
  ASSUME NEW V, NEW N, NEW L, Snap(V, N, L), NEW Q, Q \subseteq V, NEW x \in Int, NEW vt \in Types,
         NEW sk \in Int, NEW sv, RevOK(V, N, L, Q, x, vt, sk, sv), NEW m \in Q, x # -1,
         vt # kTypeDeletion => ~(m.key < sk)
  PROVE  x \in L /\ N[x] \in Q
<1>0. V \subseteq Rec /\ \A e \in V : e.key \in Nat
  BY EntryIsRec, SMT DEF Snap, Entry
<1>1. x \in L
  BY Zenon DEF RevOK
<1>2. CASE vt = kTypeDeletion
  BY <1>1, <1>2, Zenon DEF RevOK
<1>3. CASE vt # kTypeDeletion
  <2>1. vt = kTypeValue
    BY <1>3, Zenon DEF Types
  <2>2. PICK s \in V : /\ s.key = sk /\ Before(m, s)
                       /\ N[x] \in Q \/ N[x] = s
    BY <2>1, Zenon DEF RevOK
  <2>3. N[x] # s
    <3>1. SUFFICES ASSUME N[x] = s PROVE FALSE
      OBVIOUS
    <3>2. m \in Rec /\ s \in Rec /\ m \in V
      BY <1>0, Zenon
    <3>3. m.key <= s.key
      BY <2>2, <3>2, OrderKeys, Zenon
    <3>4. m.key = s.key
      BY <3>2, <3>3, <2>2, <1>0, <1>3, SMT
    <3>5. N[x].key = x
      BY <1>1, Zenon DEF Snap
    <3>6. m = s \/ Before(s, m)
      BY <3>1, <3>2, <3>4, <3>5, Zenon DEF Snap
    <3> QED
      BY <2>2, <3>2, <3>6, Order, Zenon
  <2> QED
    BY <2>2, <2>3, <1>1, Zenon
<1> QED
  BY <1>2, <1>3

LEMMA RevDeletion ==
  ASSUME NEW V, NEW N, NEW L, Snap(V, N, L), NEW Q, Q \subseteq V, NEW x \in Int, NEW vt \in Types,
         NEW sk \in Int, NEW sv, RevOK(V, N, L, Q, x, vt, sk, sv), NEW m \in Q,
         vt # kTypeDeletion => ~(m.key < sk), m.type = kTypeDeletion
  PROVE  RevOK(V, N, L, Q \ {m}, x, kTypeDeletion, -1, 0)
<1>1. kTypeDeletion # kTypeValue
  BY SMT DEF kTypeDeletion, kTypeValue
<1>2. x # -1 => x \in L /\ N[x] \in Q
  BY RevNotPassed, Zenon
<1>3. x # -1 => N[x] # m
  BY <1>1, <1>2, Zenon DEF Snap
<1>4. \A e \in Q \ {m} : e.key \in L => x # -1 /\ e.key <= x
  BY Zenon DEF RevOK
<1> QED
  BY <1>1, <1>2, <1>3, <1>4, Zenon DEF RevOK

LEMMA RevValue ==
  ASSUME NEW V, NEW N, NEW L, Snap(V, N, L), NEW Q, Q \subseteq V, NEW x \in Int, NEW vt \in Types,
         NEW sk \in Int, NEW sv, RevOK(V, N, L, Q, x, vt, sk, sv), NEW m \in Q,
         \A e \in Q : e = m \/ Before(e, m), \A e \in V : e \in Q \/ Before(m, e),
         vt # kTypeDeletion => ~(m.key < sk), m.type = kTypeValue
  PROVE  RevOK(V, N, L, Q \ {m}, x, kTypeValue, m.key, m.seq)
<1>1. kTypeDeletion # kTypeValue
  BY SMT DEF kTypeDeletion, kTypeValue
<1>2. x # -1 => x \in L /\ N[x] \in Q
  BY RevNotPassed, Zenon
<1>3. \A e \in Q : e.key \in L => x # -1 /\ e.key <= x
  BY Zenon DEF RevOK
<1>4. /\ m.key = m.key /\ m.seq = m.seq /\ m.type = kTypeValue
      /\ \A e \in Q \ {m} : Before(e, m)
      /\ \A e \in V : e \in Q \ {m} \/ e = m \/ Before(m, e)
      /\ m.key \in L => x # -1 /\ m.key <= x
      /\ x # -1 => N[x] \in Q \ {m} \/ N[x] = m
  BY <1>2, <1>3, Zenon
<1> QED
  BY <1>1, <1>2, <1>3, <1>4, Zenon DEF RevOK

\* It stops when only smaller keys are left: what it saved is then the newest
\* entry of the key that is looked for.
LEMMA RevDone ==
  ASSUME NEW V, NEW N, NEW L, Snap(V, N, L), NEW Q, Q \subseteq V, NEW x \in Int,
         NEW sk \in Int, NEW sv, RevOK(V, N, L, Q, x, kTypeValue, sk, sv), \A e \in Q : e.key < sk
  PROVE  x \in L /\ sk = x /\ sv = N[x].seq /\ \A e \in V : e \in Q <=> e.key < x
<1>0. V \subseteq Rec /\ \A e \in V : e.key \in Nat
  BY EntryIsRec, SMT DEF Snap, Entry
<1>1. PICK s \in V :
         /\ s.key = sk /\ s.seq = sv /\ s.type = kTypeValue
         /\ \A e \in Q : Before(e, s)
         /\ \A e \in V : e \in Q \/ e = s \/ Before(s, e)
         /\ s.key \in L => x # -1 /\ s.key <= x
         /\ x # -1 => N[x] \in Q \/ N[x] = s
  BY Zenon DEF RevOK
<1>2. s = N[s.key]
  <2>1. N[s.key] \in V /\ N[s.key].key = s.key /\ (s = N[s.key] \/ Before(N[s.key], s))
    BY Zenon DEF Snap
  <2>2. N[s.key] \notin Q
    BY <2>1, <1>0, <1>1, SMT
  <2>3. N[s.key] = s \/ Before(s, N[s.key])
    BY <2>1, <2>2, <1>1, Zenon
  <2>4. s \in Rec /\ N[s.key] \in Rec
    BY <2>1, <1>0, Zenon
  <2> QED
    BY <2>1, <2>3, <2>4, Order, Zenon
<1>3. s.key \in L
  BY <1>1, <1>2, Zenon DEF Snap
<1>4. x # -1 /\ sk <= x /\ x \in L /\ N[x].key = x
  BY <1>1, <1>3, Zenon DEF RevOK, Snap
<1>5. N[x] = s
  <2>1. N[x] \notin Q
    BY <1>0, <1>4, SMT
  <2> QED
    BY <2>1, <1>1, <1>4, Zenon
<1>6. sk = x
  BY <1>1, <1>4, <1>5, Zenon
<1>7. ASSUME NEW e \in V PROVE e \in Q <=> e.key < x
  <2>1. e \in Q => e.key < x
    BY <1>6, Zenon
  <2>2. ASSUME e \notin Q PROVE ~(e.key < x)
    <3>1. e = s \/ Before(s, e)
      BY <2>2, <1>1, Zenon
    <3>2. s.key <= e.key
      BY <3>1, <1>0, OrderKeys, SMT
    <3> QED
      BY <3>2, <1>0, <1>1, <1>6, SMT
  <2> QED
    BY <2>1, <2>2, Zenon
<1> QED
  BY <1>1, <1>4, <1>5, <1>6, <1>7, Zenon

\* What an operation looks for, as MinOf and MaxOf compute it.
LEMMA MinOfIs ==
  ASSUME NEW S, S \subseteq Nat
  PROVE  /\ MinOf(S) \in Int
         /\ S = {} => MinOf(S) = -1
         /\ S # {} => MinOf(S) \in S /\ \A k \in S : MinOf(S) <= k
<1>1. CASE S = {}
  BY <1>1, SMT DEF MinOf
<1>2. CASE S # {}
  <2>1. \E n \in S : \A m \in S : n <= m
    BY <1>2, LeastNat, Zenon
  <2>2. MinOf(S) \in S /\ \A k \in S : MinOf(S) <= k
    BY <2>1, <1>2, Zenon DEF MinOf
  <2>3. \A k \in S : k \in Int
    BY SMT
  <2> QED
    BY <2>2, <2>3, <1>2, Zenon
<1> QED
  BY <1>1, <1>2, Zenon

LEMMA MaxOfIs ==
  ASSUME NEW b \in Nat, NEW S, S \subseteq 0 .. b
  PROVE  /\ MaxOf(S) \in Int
         /\ S = {} => MaxOf(S) = -1
         /\ S # {} => MaxOf(S) \in S /\ \A k \in S : MaxOf(S) >= k
<1>1. CASE S = {}
  BY <1>1, SMT DEF MaxOf
<1>2. CASE S # {}
  <2>0. PICK n \in S : \A m \in S : m <= n
    BY <1>2, GreatestNat, Zenon
  <2>1. \A m \in S : n >= m
    BY <2>0, SMT
  <2>2. MaxOf(S) \in S /\ \A k \in S : MaxOf(S) >= k
    BY <2>1, <1>2, Zenon DEF MaxOf
  <2>3. \A k \in S : k \in Int
    BY SMT
  <2> QED
    BY <2>2, <2>3, <1>2, Zenon
<1> QED
  BY <1>1, <1>2, Zenon

\* FindNextUserEntry starts right, from lo on; what it skips is before lo.
LEMMA FwdStart ==
  ASSUME NEW V, NEW N, NEW L, Snap(V, N, L), NEW R, R \subseteq V, NEW lo \in Int, NEW skip \in BOOLEAN,
         NEW sk \in Int, \A e \in V : e.key >= lo => e \in R,
         \A e \in R : e.key >= lo \/ (skip /\ e.key <= sk),
         skip => sk < lo /\ \A e \in R : e.key >= sk,
         NEW T, \A k : k \in T <=> k \in L /\ k >= lo, NEW x, x = MinOf(T)
  PROVE  FwdOK(N, L, R, x, skip, sk) /\ x \in Int
<1>1. x = MinOf(T)
  OBVIOUS
<1>2. T \subseteq Nat
  BY Zenon DEF Snap
<1>3. /\ x \in Int
      /\ T = {} => x = -1
      /\ T # {} => x \in T /\ \A k \in T : x <= k
  BY <1>1, <1>2, MinOfIs, Zenon
<1>4. x # -1 => x \in L /\ x >= lo /\ N[x] \in V /\ N[x].key = x
  BY <1>3, Zenon DEF Snap
<1>5. ASSUME x # -1 PROVE x \in L /\ N[x] \in R /\ (skip => sk < x)
  <2>1. N[x] \in R
    BY <1>4, <1>5, Zenon
  <2>2. skip => sk < x
    BY <1>3, <1>4, <1>5, SMT
  <2> QED
    BY <2>1, <2>2, <1>4, <1>5, Zenon
<1>6. ASSUME NEW e \in R, x = -1 \/ e.key < x, ~(skip /\ e.key <= sk)
      PROVE  e.key \notin L /\ N[e.key] \in R
  <2>1. e.key >= lo
    BY <1>6, Zenon
  <2>2. N[e.key] \in V /\ N[e.key].key = e.key /\ e.key \in Nat
    <3>1. e \in V /\ e \in Entry
      BY Zenon DEF Snap
    <3>2. e.key \in Nat
      BY <3>1, SMT DEF Entry
    <3> QED
      BY <3>1, <3>2, Zenon DEF Snap
  <2>3. N[e.key] \in R
    BY <2>1, <2>2, Zenon
  <2>4. e.key \notin L
    <3>1. SUFFICES ASSUME e.key \in L PROVE FALSE
      OBVIOUS
    <3>2. e.key \in T
      BY <3>1, <2>1, Zenon
    <3>3. x <= e.key /\ x \in T
      BY <3>2, <1>3, Zenon
    <3>4. x # -1
      BY <3>3, <1>2, SMT
    <3> QED
      BY <3>3, <3>4, <1>3, <1>6, <2>2, SMT
  <2> QED
    BY <2>3, <2>4, Zenon
<1>7. FwdOK(N, L, R, x, skip, sk)
  BY <1>5, <1>6, Zenon DEF FwdOK
<1> QED
  BY <1>1, <1>3, <1>7, Zenon

\* The same when nothing is to be skipped.
LEMMA FwdStartFresh ==
  ASSUME NEW V, NEW N, NEW L, Snap(V, N, L), NEW R, R \subseteq V, NEW lo \in Int, NEW sk \in Int,
         \A e \in V : e.key >= lo => e \in R, \A e \in R : e.key >= lo,
         NEW T, \A k : k \in T <=> k \in L /\ k >= lo, NEW x, x = MinOf(T)
  PROVE  FwdOK(N, L, R, x, FALSE, sk) /\ x \in Int
<1>1. PICK skip \in BOOLEAN : skip = FALSE
  BY Zenon
<1>2. \A e \in R : e.key >= lo \/ (skip /\ e.key <= sk)
  BY Zenon
<1>3. skip => sk < lo /\ \A e \in R : e.key >= sk
  BY <1>1, Zenon
<1>4. FwdOK(N, L, R, x, skip, sk) /\ x \in Int
  BY <1>2, <1>3, FwdStart, ZenonT(60)
<1> QED
  BY <1>1, <1>4, Zenon

\* The same when key y is to be skipped.
LEMMA FwdStartAfter ==
  ASSUME NEW V, NEW N, NEW L, Snap(V, N, L), NEW R, R \subseteq V, NEW y \in L,
         \A e \in V : e.key > y => e \in R, \A e \in R : e.key >= y,
         NEW T, \A k : k \in T <=> k \in L /\ k > y, NEW x, x = MinOf(T)
  PROVE  FwdOK(N, L, R, x, TRUE, y) /\ x \in Int
<1>1. PICK skip \in BOOLEAN : skip = TRUE
  BY Zenon
<1>2. PICK lo \in Int : lo = y + 1
  BY SMT DEF Snap
<1>3. y \in Int /\ y \in Nat /\ y < lo
  BY <1>2, SMT DEF Snap
<1>4. \A e \in V : e.key \in Nat
  BY SMT DEF Snap, Entry
<1>5. \A e \in V : e.key >= lo => e \in R
  BY <1>2, <1>3, <1>4, SMT
<1>6. \A e \in R : e.key >= lo \/ (skip /\ e.key <= y)
  <2>1. \A k \in Nat : k >= y => k >= lo \/ k <= y
    BY <1>2, <1>3, SMT
  <2> QED
    BY <2>1, <1>1, <1>4, Zenon
<1>7. skip => y < lo /\ \A e \in R : e.key >= y
  BY <1>3, Zenon
<1>8. \A k : k \in T <=> k \in L /\ k >= lo
  <2>1. \A k \in L : k > y <=> k >= lo
    BY <1>2, <1>3, SMT DEF Snap
  <2> QED
    BY <2>1, Zenon
<1>9. FwdOK(N, L, R, x, skip, y) /\ x \in Int
  BY <1>3, <1>5, <1>6, <1>7, <1>8, FwdStart, SMT
<1> QED
  BY <1>1, <1>9, Zenon

\* FindPrevUserEntry starts right: T is the keys that are before it.
LEMMA RevStart ==
  ASSUME NEW V, NEW N, NEW L, Snap(V, N, L), NEW Q, Q \subseteq V, NEW b \in Nat, NEW T, T \subseteq L,
         T \subseteq 0 .. b, \A e \in V : e.key \in T => e \in Q, \A e \in Q : e.key \in L => e.key \in T,
         NEW sk, NEW sv
  PROVE  RevOK(V, N, L, Q, MaxOf(T), kTypeDeletion, sk, sv) /\ MaxOf(T) \in Int
<1>1. PICK x : x = MaxOf(T)
  OBVIOUS
<1>2. /\ x \in Int
      /\ T = {} => x = -1
      /\ T # {} => x \in T /\ \A k \in T : x >= k
  BY <1>1, MaxOfIs, Zenon
<1>3. kTypeDeletion # kTypeValue
  BY SMT DEF kTypeDeletion, kTypeValue
<1>4. x # -1 => x \in L /\ N[x] \in Q
  BY <1>2, Zenon DEF Snap
<1>5. ASSUME NEW e \in Q, e.key \in L PROVE x # -1 /\ e.key <= x
  <2>1. e.key \in T
    BY <1>5, Zenon
  <2>2. x \in T /\ x >= e.key
    BY <2>1, <1>2, Zenon
  <2>3. \A k \in T : k \in Nat
    BY SMT
  <2>4. x \in Nat /\ e.key \in Nat
    BY <2>1, <2>2, <2>3, Zenon
  <2> QED
    BY <2>2, <2>4, SMT
<1>6. RevOK(V, N, L, Q, x, kTypeDeletion, sk, sv)
  BY <1>3, <1>4, <1>5, Zenon DEF RevOK
<1> QED
  BY <1>1, <1>2, <1>6, Zenon

LEMMA BackStart ==
  ASSUME NEW V, NEW N, NEW L, Snap(V, N, L), NEW Q, NEW b \in Nat, L \subseteq 0 .. b, NEW sk \in Int,
         \A e \in V : e.key < sk => e \in Q
  PROVE  BackOK(V, L, Q, MaxOf({k \in L : k < sk}), sk) /\ MaxOf({k \in L : k < sk}) \in Int
<1> DEFINE T == {k \in L : k < sk}
<1>1. PICK x : x = MaxOf(T)
  OBVIOUS
<1>2. T \subseteq 0 .. b
  BY Zenon
<1>3. /\ x \in Int
      /\ T = {} => x = -1
      /\ T # {} => x \in T /\ \A k \in T : x >= k
  <2> HIDE DEF T
  <2> QED
    BY <1>1, <1>2, MaxOfIs, Zenon
<1>4. x # -1 => x \in L /\ x < sk
  BY <1>3, Zenon
<1>5. ASSUME NEW k \in L, k < sk PROVE x # -1 /\ k <= x
  <2>1. x \in T /\ x >= k
    BY <1>3, <1>5, Zenon
  <2>2. x \in Nat /\ k \in Nat
    BY <2>1, <1>2, SMT
  <2> QED
    BY <2>1, <2>2, SMT
<1>6. BackOK(V, L, Q, x, sk)
  BY <1>4, <1>5, Zenon DEF BackOK
<1> QED
  BY <1>1, <1>3, <1>6, Zenon

-----------------------------------------------------------------------------
(* The steps.                                                               *)

LEMMA IsStatic == ASSUME IInv, KeysAssumption PROVE StaticOK
  BY Zenon DEF IInv, StaticOK

LEMMA LiveBounded == ASSUME KeysAssumption PROVE \E b \in Nat : Live \subseteq 0 .. b
  BY Zenon DEF KeysAssumption, Live

\* The entries stay as they are, and with them what the snapshot sees.
LEMMA SameEntries ==
  ASSUME IInv, UNCHANGED <<ent, files_, last, sequence_>>
  PROVE  /\ DataTyped' /\ EntriesOK' /\ FilesOK'
         /\ Visible' = Visible /\ Newest' = Newest /\ Live' = Live
<1>1. DataTyped'
  BY Zenon DEF IInv, TypeOK, DataTyped
<1>2. EntriesOK'
  BY SMT DEF IInv, EntriesOK
<1>3. FilesOK'
  BY Zenon DEF IInv, FilesOK
<1>4. Visible' = Visible
  BY Zenon DEF Visible, AllEntries
<1>5. Newest' = Newest
  BY Zenon DEF Newest, NewestOf, AllEntries
<1>6. Live' = Live
  BY Zenon DEF Live, NewestOf, AllEntries
<1> QED
  BY <1>1, <1>2, <1>3, <1>4, <1>5, <1>6, Zenon

\* The merge stays where it is.
LEMMA SameMerge ==
  ASSUME IInv, UNCHANGED <<ent, files_, last, sequence_>>, UNCHANGED mergeVars
  PROVE  /\ MergeTyped' /\ MergeOK' /\ MKey' = MKey /\ current_' = current_
         /\ Onward' = Onward /\ Behind' = Behind
<1>1. UNCHANGED <<pos, file, current_, mdir>>
  BY Zenon DEF mergeVars
<1>2. MergeTyped'
  BY <1>1, Zenon DEF IInv, TypeOK, MergeTyped
<1>3. MergeOK'
  BY <1>1, Zenon DEF IInv, MergeOK, PlaceOK, Here, At, NumFiles, FileSet, MKey, Seen
<1>4. MKey' = MKey /\ current_' = current_
  BY <1>1, Zenon DEF MKey
<1>5. Visible' = Visible
  BY SameEntries, Zenon
<1>6. Onward' = Onward /\ Behind' = Behind
  BY <1>4, <1>5, Zenon DEF Onward, Behind
<1> QED
  BY <1>2, <1>3, <1>4, <1>6, Zenon

\* The current entry of the merge splits what the snapshot sees.
LEMMA CurrentEntry ==
  ASSUME StaticOK, MergeOK, current_ # 0
  PROVE  /\ MKey \in AllEntries /\ MKey \in Rec /\ MKey.key \in Nat
         /\ MKey.seq <= sequence_ <=> MKey \in Visible
         /\ MKey \in Visible <=> MKey \in Onward
         /\ MKey \in Visible <=> MKey \in Behind
         /\ \A e \in Onward : e = MKey \/ Before(MKey, e)
         /\ \A e \in Behind : e = MKey \/ Before(e, MKey)
         /\ \A e \in Visible : e \in Behind \/ Before(MKey, e)
         /\ {e \in Visible : Before(MKey, e)} = Onward \ {MKey}
         /\ {e \in Visible : Before(e, MKey)} = Behind \ {MKey}
<1>0. current_ \in Children
  BY SMT DEF StaticOK, TypeOK, MergeTyped, Children
<1>1. MKey \in ent[current_]
  <2>1. PlaceOK(current_, Here(current_)) /\ pos[current_] # None
    BY <1>0, Zenon DEF MergeOK, MKey
  <2>2. Here(current_).pos = pos[current_]
    BY SMT DEF Here, At
  <2> QED
    BY <2>1, <2>2, Zenon DEF PlaceOK, MKey
<1>2. PICK m : m = MKey
  OBVIOUS
<1>3. m \in AllEntries /\ m \in Rec /\ m.key \in Nat
  BY <1>0, <1>1, <1>2, EntriesTyped, Zenon
<1>4. Visible \subseteq Rec
  BY EntriesTyped, Zenon DEF Visible
<1>5. m.seq <= sequence_ <=> m \in Visible
  BY <1>3, Zenon DEF Visible
<1>6. ~Before(m, m)
  BY <1>3, Order, Zenon
<1>7. /\ Onward = {e \in Visible : ~Before(e, m)}
      /\ Behind = {e \in Visible : ~Before(m, e)}
  BY <1>2, Zenon DEF Onward, Behind
<1>8. \A e \in Visible : /\ ~Before(e, m) <=> e = m \/ Before(m, e)
                         /\ ~Before(m, e) <=> e = m \/ Before(e, m)
                         /\ ~(Before(m, e) /\ e = m) /\ ~(Before(e, m) /\ e = m)
  BY <1>3, <1>4, Order, Zenon
<1>9. {e \in Visible : Before(m, e)} = Onward \ {m} /\ {e \in Visible : Before(e, m)} = Behind \ {m}
  BY <1>7, <1>8, Zenon
<1> QED
  BY <1>2, <1>3, <1>5, <1>6, <1>7, <1>8, <1>9, Zenon

LEMMA Names ==
  /\ kForward # kReverse /\ kTypeValue # kTypeDeletion /\ Types = {kTypeDeletion, kTypeValue}
  /\ kForward \in {kForward, kReverse} /\ kReverse \in {kForward, kReverse}
  BY SMT DEF kForward, kReverse, kTypeValue, kTypeDeletion, Types

\* A round of FindNextUserEntry keeps the invariant.
LEMMA FindNextStep ==
  ASSUME IInv, KeysAssumption, FindNextUserEntry
  PROVE  IInv'
<1>1. /\ pc = "fwd" /\ UNCHANGED <<ent, files_, last, sequence_>>
      /\ direction_' = direction_ /\ value_type' = value_type /\ expect' = expect
  BY Zenon DEF FindNextUserEntry
<1>2. StaticOK /\ MergeOK /\ Snap(Visible, Newest, Live)
  BY IsStatic, SnapshotFacts, Zenon DEF IInv
<1>3. /\ DataTyped' /\ EntriesOK' /\ FilesOK'
      /\ Visible' = Visible /\ Newest' = Newest /\ Live' = Live
  BY <1>1, SameEntries, Zenon
<1>4. direction_ = kForward /\ FwdOK(Newest, Live, Onward, expect, skipping, saved_key_)
  BY <1>1, Zenon DEF IInv, LoopOK
<1>5. expect \in Int /\ skipping \in BOOLEAN /\ saved_key_ \in Int /\ Onward \subseteq Visible
  BY Zenon DEF IInv, TypeOK, IterTyped, Onward
<1> DEFINE visible == MKey.seq <= sequence_
           hidden == skipping /\ MKey.key <= saved_key_
           found == visible /\ MKey.type = kTypeValue /\ ~hidden
           deleted == visible /\ MKey.type = kTypeDeletion
<1>6. CASE current_ = 0 \/ found
  <2>1. /\ valid_' = (current_ # 0) /\ saved_key_' = -1 /\ pc' = "idle"
        /\ UNCHANGED mergeVars /\ skipping' = skipping
    BY <1>6, Zenon DEF FindNextUserEntry
  <2>2. /\ MergeTyped' /\ MergeOK' /\ MKey' = MKey /\ current_' = current_
    BY <1>1, <2>1, SameMerge, Zenon
  <2>3. IterTyped'
    <3>1. valid_' \in BOOLEAN /\ -1 \in Int
      BY <2>1, SMT
    <3> QED
      BY <3>1, <2>1, <1>1, Zenon DEF IInv, TypeOK, IterTyped
  <2>4. IdleOK'
    <3>1. CASE current_ = 0
      <4>1. Onward = {}
        BY <3>1, Zenon DEF Onward
      <4>2. expect = -1
        BY <4>1, <1>4, Zenon DEF FwdOK
      <4>3. valid_' = FALSE
        BY <2>1, <3>1, Zenon
      <4> QED
        BY <4>2, <4>3, <1>1, Zenon DEF IdleOK
    <3>2. CASE current_ # 0
      <4>1. PICK m : m = MKey
        OBVIOUS
      <4>2. m \in Onward /\ \A e \in Onward : e = m \/ Before(m, e)
        BY <1>2, <1>6, <3>2, <4>1, CurrentEntry, Zenon
      <4>3. m.type = kTypeValue /\ ~(skipping /\ m.key <= saved_key_)
        BY <1>6, <3>2, <4>1, Zenon
      <4>4. expect # -1 /\ expect \in Live /\ m = Newest[expect]
        BY <4>2, <4>3, <1>2, <1>4, <1>5, FwdFound, SMT
      <4>5. valid_' = TRUE /\ direction_' # kReverse
        BY <2>1, <3>2, <1>1, <1>4, Names, Zenon
      <4> QED
        BY <4>1, <4>4, <4>5, <3>2, <2>2, <1>1, <1>3, Zenon DEF IdleOK
    <3> QED
      BY <3>1, <3>2, Zenon
  <2>5. LoopOK'
    BY <2>1, <2>4, Zenon DEF LoopOK
  <2> QED
    BY <1>3, <2>2, <2>3, <2>5, Zenon DEF IInv, TypeOK
<1>7. CASE ~(current_ = 0 \/ found)
  <2>1. /\ MergeNext /\ skipping' = (skipping \/ deleted) /\ valid_' = valid_ /\ pc' = pc
        /\ saved_key_' = IF deleted THEN MKey.key ELSE saved_key_
    BY <1>7, Zenon DEF FindNextUserEntry
  <2>2. PICK m : m = MKey
    OBVIOUS
  <2>3. MergeOK' /\ MergeTyped' /\ Onward' = Onward \ {m}
    BY <1>1, <1>2, <1>7, <2>1, <2>2, MergeNextMoves, CurrentEntry, Zenon
  <2>4. /\ m.key \in Nat /\ (m.seq <= sequence_ <=> m \in Onward)
        /\ \A e \in Onward : e = m \/ Before(m, e)
    BY <1>2, <1>7, <2>2, CurrentEntry, Zenon
  <2>5. FwdOK(Newest, Live, Onward \ {m}, expect, skipping', saved_key_')
    <3>1. CASE deleted
      <4>1. skipping' = TRUE /\ saved_key_' = m.key /\ m.type = kTypeDeletion /\ m \in Onward
        BY <2>1, <2>2, <2>4, <3>1, Zenon
      <4> QED
        BY <4>1, <2>4, <1>2, <1>4, <1>5, FwdDeletion, Zenon
    <3>2. CASE visible /\ ~deleted
      <4>1. m \in Onward /\ m.type = kTypeValue
        <5>1. m.type \in Types
          BY <1>2, <1>7, <2>2, CurrentEntry, EntriesTyped, Zenon
        <5> QED
          BY <5>1, <3>2, <2>2, <2>4, Names, Zenon
      <4>2. skipping = TRUE /\ m.key <= saved_key_
        BY <4>1, <3>2, <1>7, <1>5, <2>2, Zenon
      <4>3. skipping' = TRUE /\ saved_key_' = saved_key_
        BY <2>1, <3>2, <4>2, Zenon
      <4>4. FwdOK(Newest, Live, Onward, expect, TRUE, saved_key_)
        BY <4>2, <1>4, Zenon
      <4> QED
        BY <4>1, <4>2, <4>3, <4>4, <1>2, <1>5, FwdHidden, Zenon
    <3>3. CASE ~visible
      <4>1. m \notin Onward
        BY <3>3, <2>2, <2>4, Zenon
      <4>2. Onward \ {m} = Onward
        BY <4>1, Zenon
      <4>3. skipping' = skipping /\ saved_key_' = saved_key_
        BY <2>1, <3>3, <1>5, Zenon
      <4> QED
        BY <4>2, <4>3, <1>4, Zenon
    <3> QED
      BY <3>1, <3>2, <3>3, Zenon
  <2>6. IterTyped'
    <3>1. saved_key_' \in Int
      BY <2>1, <2>2, <2>4, <1>5, SMT
    <3>2. skipping' \in BOOLEAN
      BY <2>1, <1>5, Zenon
    <3> QED
      BY <3>1, <3>2, <2>1, <1>1, Zenon DEF IInv, TypeOK, IterTyped
  <2>7. LoopOK'
    BY <1>1, <1>3, <1>4, <2>1, <2>3, <2>5, Zenon DEF LoopOK
  <2> QED
    BY <1>3, <2>3, <2>6, <2>7, Zenon DEF IInv, TypeOK
<1> QED
  BY <1>6, <1>7, Zenon

\* The fields that StartForward sets.
LEMMA ForwardTyped ==
  ASSUME IInv, NEW skip \in BOOLEAN, NEW k \in Int, StartForward(skip, k), expect' \in Int
  PROVE  IterTyped' /\ direction_' = kForward /\ skipping' = skip /\ saved_key_' = k /\ pc' = "fwd"
<1>1. /\ direction_' = kForward /\ skipping' = skip /\ saved_key_' = k /\ pc' = "fwd"
      /\ UNCHANGED <<valid_, value_type>>
  BY Zenon DEF StartForward
<1> QED
  BY <1>1, Names, Zenon DEF IInv, TypeOK, IterTyped

\* A loop that starts with what is right for it keeps the invariant.
LEMMA ForwardStarts ==
  ASSUME IInv, UNCHANGED <<ent, files_, last, sequence_>>, MergeOK', MergeTyped',
         NEW skip \in BOOLEAN, NEW k \in Int, StartForward(skip, k), expect' \in Int,
         FwdOK(Newest, Live, Onward', expect', skip, k)
  PROVE  IInv'
<1>1. /\ DataTyped' /\ EntriesOK' /\ FilesOK'
      /\ Visible' = Visible /\ Newest' = Newest /\ Live' = Live
  BY SameEntries, Zenon
<1>2. IterTyped' /\ direction_' = kForward /\ skipping' = skip /\ saved_key_' = k /\ pc' = "fwd"
  BY ForwardTyped, Zenon
<1>3. LoopOK'
  BY <1>1, <1>2, Zenon DEF LoopOK
<1> QED
  BY <1>1, <1>2, <1>3, Zenon DEF IInv, TypeOK

LEMMA SeekToFirstStep ==
  ASSUME IInv, KeysAssumption, SeekToFirstEntry
  PROVE  IInv'
<1>1. /\ UNCHANGED <<ent, files_, last, sequence_>> /\ expect' = MinOf(Live)
      /\ MergeSeekToFirst /\ StartForward(FALSE, saved_key_)
  BY Zenon DEF SeekToFirstEntry
<1>2. StaticOK /\ Snap(Visible, Newest, Live)
  BY IsStatic, SnapshotFacts, Zenon
<1>3. MergeOK' /\ MergeTyped' /\ Onward' = Visible
  BY <1>1, <1>2, MergeSeekToFirstMoves, Zenon
<1>4. saved_key_ \in Int /\ 0 \in Int
  BY SMT DEF IInv, TypeOK, IterTyped
<1>5. \A k \in Live : k >= 0
  BY <1>2, SMT DEF Snap
<1>6. \A e \in Visible : e.key >= 0
  BY <1>2, SMT DEF Snap, Entry
<1>7. PICK x : x = MinOf(Live)
  OBVIOUS
<1>8. \A k : k \in Live <=> k \in Live /\ k >= 0
  BY <1>5, Zenon
<1>9. FwdOK(Newest, Live, Visible, x, FALSE, saved_key_) /\ x \in Int
  BY <1>2, <1>4, <1>6, <1>7, <1>8, FwdStartFresh, Zenon
<1>10. FwdOK(Newest, Live, Onward', expect', FALSE, saved_key_) /\ expect' \in Int
  BY <1>1, <1>3, <1>7, <1>9
<1> QED
  BY <1>1, <1>3, <1>4, <1>10, ForwardStarts, Zenon

LEMMA SeekStep ==
  ASSUME IInv, KeysAssumption, NEW k \in Keys, SeekEntry(k)
  PROVE  IInv'
<1> DEFINE t == [key |-> k, seq |-> sequence_, type |-> kTypeValue]
<1>1. /\ UNCHANGED <<ent, files_, last, sequence_>> /\ expect' = MinOf({j \in Live : j >= k})
      /\ MergeSeek(t) /\ StartForward(FALSE, -1)
  BY Zenon DEF SeekEntry
<1>2. StaticOK /\ Snap(Visible, Newest, Live)
  BY IsStatic, SnapshotFacts, Zenon
<1>3. k \in Nat
  BY SMT DEF KeysAssumption
<1>4. t \in Rec
  BY <1>3, SMT DEF IInv, TypeOK, DataTyped, Rec, kTypeValue
<1>5. \A e \in Visible : ~Before(e, t) <=> e.key >= k
  <2>1. SUFFICES ASSUME NEW e \in Visible PROVE ~Before(e, t) <=> e.key >= k
    OBVIOUS
  <2>2. e \in Entry /\ e.seq <= sequence_ /\ sequence_ \in Nat
    BY <1>2, Zenon DEF Visible, Snap, IInv, TypeOK, DataTyped
  <2> QED
    BY <2>2, <1>3, SMT DEF Before, Entry, Types, kTypeValue, kTypeDeletion
<1>6. PICK u \in Rec : u = t
  BY <1>4, Zenon
<1> HIDE DEF t
<1>7. MergeOK' /\ MergeTyped' /\ Onward' = {e \in Visible : ~Before(e, u)}
  BY <1>1, <1>2, <1>6, MergeSeekMoves, Zenon
<1>8. PICK R : R = {e \in Visible : ~Before(e, u)}
  OBVIOUS
<1>9. R \subseteq Visible /\ (\A e \in Visible : e.key >= k => e \in R) /\ \A e \in R : e.key >= k
  BY <1>5, <1>6, <1>8, Zenon
<1>10. k \in Int /\ -1 \in Int
  BY <1>3, SMT
<1>11. PICK T : T = {j \in Live : j >= k}
  OBVIOUS
<1>12. PICK x : x = MinOf(T)
  OBVIOUS
<1>13. \A j : j \in T <=> j \in Live /\ j >= k
  BY <1>11, Zenon
<1>14. FwdOK(Newest, Live, R, x, FALSE, -1) /\ x \in Int
  BY <1>2, <1>9, <1>10, <1>12, <1>13, FwdStartFresh, Zenon
<1>15. FwdOK(Newest, Live, Onward', expect', FALSE, -1) /\ expect' \in Int
  BY <1>1, <1>7, <1>8, <1>11, <1>12, <1>14, Zenon
<1> QED
  BY <1>1, <1>7, <1>10, <1>15, ForwardStarts, Zenon

\* Next starts behind the key that is shown, in either direction.
LEMMA NextStep ==
  ASSUME IInv, KeysAssumption, NextEntry
  PROVE  IInv'
<1>1. /\ pc = "idle" /\ valid_ /\ UNCHANGED <<ent, files_, last, sequence_>>
      /\ expect' = MinOf({k \in Live : k > expect})
      /\ StartForward(TRUE, IF direction_ = kReverse THEN saved_key_ ELSE MKey.key)
  BY Zenon DEF NextEntry
<1>2. StaticOK /\ MergeOK /\ Snap(Visible, Newest, Live)
  BY IsStatic, SnapshotFacts, Zenon DEF IInv
<1>3. PICK y \in Live : y = expect
  BY <1>1, Zenon DEF IInv, LoopOK, IdleOK
<1>4. PICK T : T = {k \in Live : k > y}
  OBVIOUS
<1>5. \A k : k \in T <=> k \in Live /\ k > y
  BY <1>4, Zenon
<1>6. PICK x : x = MinOf(T)
  OBVIOUS
<1>7. \A e \in Visible : e.key \in Nat
  BY <1>2, SMT DEF Snap, Entry
<1>8. y \in Nat /\ y \in Int
  BY <1>2, SMT DEF Snap
<1>9. ASSUME StartForward(TRUE, y), MergeOK', MergeTyped', Onward' \subseteq Visible,
             \A e \in Visible : e.key > y => e \in Onward', \A e \in Onward' : e.key >= y
      PROVE  IInv'
  <2>1. PICK R : R = Onward'
    OBVIOUS
  <2>2. FwdOK(Newest, Live, R, x, TRUE, y) /\ x \in Int
    BY <2>1, <1>2, <1>5, <1>6, <1>9, FwdStartAfter, Zenon
  <2>3. FwdOK(Newest, Live, Onward', expect', TRUE, y) /\ expect' \in Int
    BY <2>1, <2>2, <1>1, <1>3, <1>4, <1>6
  <2> QED
    BY <2>3, <1>1, <1>8, <1>9, ForwardStarts, Zenon
<1>10. CASE direction_ = kReverse
  <2>1. saved_key_ = y /\ \A e \in Visible : e \in Behind <=> e.key < y
    BY <1>1, <1>3, <1>10, Zenon DEF IInv, LoopOK, IdleOK
  <2>2. StartForward(TRUE, y)
    BY <2>1, <1>1, <1>10, Zenon
  <2>3. \A e \in Visible : e \notin Behind <=> e.key >= y
    BY <2>1, <1>7, <1>8, SMT
  <2>4. \A e \in Visible : e.key > y => e.key >= y
    BY <1>7, <1>8, SMT
  <2>5. MergeOK' /\ MergeTyped' /\ Onward' = Visible \ Behind
    <3>1. CASE current_ = 0
      <4>1. MergeSeekToFirst
        BY <1>10, <3>1, Zenon DEF NextEntry
      <4>2. Behind = {}
        BY <3>1, Zenon DEF Behind
      <4>3. MergeOK' /\ MergeTyped' /\ Onward' = Visible
        BY <4>1, <1>1, <1>2, MergeSeekToFirstMoves, Zenon
      <4> QED
        BY <4>2, <4>3
    <3>2. CASE current_ # 0
      <4>1. MergeNext
        BY <1>10, <3>2, Zenon DEF NextEntry
      <4>2. MergeOK' /\ MergeTyped' /\ Onward' = {e \in Visible : Before(MKey, e)}
        BY <4>1, <3>2, <1>1, <1>2, MergeNextMoves, Zenon
      <4>3. {e \in Visible : Before(MKey, e)} = Visible \ Behind
        BY <3>2, Zenon DEF Behind
      <4> QED
        BY <4>2, <4>3
    <3> QED
      BY <3>1, <3>2, Zenon
  <2>6. /\ Onward' \subseteq Visible
        /\ \A e \in Visible : e.key > y => e \in Onward'
        /\ \A e \in Onward' : e.key >= y
    BY <2>3, <2>4, <2>5, Zenon
  <2> QED
    BY <2>2, <2>5, <2>6, <1>9, Zenon
<1>11. CASE direction_ # kReverse
  <2>1. direction_ = kForward
    BY <1>11, Zenon DEF IInv, TypeOK, IterTyped
  <2>2. current_ # 0 /\ MKey = Newest[y]
    BY <2>1, <1>1, <1>3, Zenon DEF IInv, LoopOK, IdleOK
  <2>3. MKey.key = y /\ MKey \in Rec
    BY <2>2, <1>2, CurrentEntry, Zenon DEF Snap
  <2>4. StartForward(TRUE, y)
    BY <2>3, <1>1, <1>11, Zenon
  <2>5. UNCHANGED mergeVars
    BY <1>11, Zenon DEF NextEntry
  <2>6. MergeTyped' /\ MergeOK' /\ Onward' = Onward
    BY <2>5, <1>1, SameMerge, Zenon
  <2>7. Onward \subseteq Visible /\ Visible \subseteq Rec
    BY <1>2, EntryIsRec, Zenon DEF Onward, Snap
  <2>8. \A e \in Onward : e.key >= y
    <3>1. SUFFICES ASSUME NEW e \in Onward PROVE e.key >= y
      OBVIOUS
    <3>2. e = MKey \/ Before(MKey, e)
      BY <2>2, <1>2, CurrentEntry, Zenon
    <3>3. e \in Rec
      BY <2>7, Zenon
    <3> QED
      BY <3>2, <3>3, <2>3, <1>8, OrderKeys, SMT
  <2>9. ASSUME NEW e \in Visible, e.key > y PROVE e \in Onward
    <3>1. Before(MKey, e) /\ e \in Rec
      BY <2>3, <2>7, <2>9, <1>7, <1>8, OrderKeys, SMT
    <3>2. ~Before(e, MKey)
      BY <3>1, <2>3, Order, Zenon
    <3> QED
      BY <3>2, <2>2, Zenon DEF Onward
  <2> QED
    BY <2>4, <2>6, <2>7, <2>8, <2>9, <1>9
<1> QED
  BY <1>10, <1>11, Zenon

\* FindPrevUserEntry starts.
LEMMA ReverseStarts ==
  ASSUME IInv, UNCHANGED <<ent, files_, last, sequence_>>, MergeOK', MergeTyped', StartReverse,
         saved_key_' \in Int, expect' \in Int,
         RevOK(Visible, Newest, Live, Behind', expect', kTypeDeletion, saved_key_', saved_value_')
  PROVE  IInv'
<1>1. /\ DataTyped' /\ EntriesOK' /\ FilesOK'
      /\ Visible' = Visible /\ Newest' = Newest /\ Live' = Live
  BY SameEntries, Zenon
<1>2. direction_' = kReverse /\ value_type' = kTypeDeletion /\ pc' = "rev" /\ UNCHANGED <<valid_, skipping>>
  BY Zenon DEF StartReverse
<1>3. IterTyped'
  BY <1>2, Names, Zenon DEF IInv, TypeOK, IterTyped
<1>4. LoopOK'
  BY <1>1, <1>2, Zenon DEF LoopOK
<1> QED
  BY <1>1, <1>3, <1>4, Zenon DEF IInv, TypeOK

LEMMA SeekToLastStep ==
  ASSUME IInv, KeysAssumption, SeekToLastEntry
  PROVE  IInv'
<1>1. /\ UNCHANGED <<ent, files_, last, sequence_>> /\ expect' = MaxOf(Live)
      /\ MergeSeekToLast /\ StartReverse /\ saved_key_' = saved_key_
  BY Zenon DEF SeekToLastEntry
<1>2. StaticOK /\ Snap(Visible, Newest, Live)
  BY IsStatic, SnapshotFacts, Zenon
<1>3. MergeOK' /\ MergeTyped' /\ Behind' = Visible
  BY <1>1, <1>2, MergeSeekToLastMoves, Zenon
<1>4. PICK b \in Nat : Live \subseteq 0 .. b
  BY LiveBounded
<1>5. PICK sk, sv : sk = saved_key_' /\ sv = saved_value_'
  OBVIOUS
<1>6. RevOK(Visible, Newest, Live, Visible, MaxOf(Live), kTypeDeletion, sk, sv) /\ MaxOf(Live) \in Int
  BY <1>2, <1>4, RevStart, Zenon
<1>7. /\ RevOK(Visible, Newest, Live, Behind', expect', kTypeDeletion, saved_key_', saved_value_')
      /\ expect' \in Int
  BY <1>1, <1>3, <1>5, <1>6
<1>8. saved_key_' \in Int
  BY <1>1, Zenon DEF IInv, TypeOK, IterTyped
<1> QED
  BY <1>1, <1>3, <1>7, <1>8, ReverseStarts, Zenon

\* Prev: from a forward position it first goes back over the key that is shown.
LEMMA PrevStep ==
  ASSUME IInv, KeysAssumption, PrevEntry
  PROVE  IInv'
<1>1. /\ pc = "idle" /\ valid_ /\ UNCHANGED <<ent, files_, last, sequence_>>
      /\ expect' = MaxOf({k \in Live : k < expect})
  BY Zenon DEF PrevEntry
<1>2. StaticOK /\ MergeOK /\ Snap(Visible, Newest, Live)
  BY IsStatic, SnapshotFacts, Zenon DEF IInv
<1>3. PICK y \in Live : y = expect
  BY <1>1, Zenon DEF IInv, LoopOK, IdleOK
<1>4. PICK T : T = {k \in Live : k < y}
  OBVIOUS
<1>5. PICK b \in Nat : Live \subseteq 0 .. b
  BY LiveBounded
<1>6. \A e \in Visible : e.key \in Nat
  BY <1>2, SMT DEF Snap, Entry
<1>7. y \in Nat /\ y \in Int
  BY <1>2, SMT DEF Snap
<1>8. expect' = MaxOf(T) /\ T \subseteq Live /\ T \subseteq 0 .. b
  BY <1>1, <1>3, <1>4, <1>5, Zenon
<1>9. CASE direction_ = kForward
  <2>1. /\ MergePrev /\ saved_key_' = MKey.key /\ pc' = "back"
        /\ UNCHANGED <<direction_, value_type, valid_, skipping>>
    BY <1>9, Zenon DEF PrevEntry
  <2>2. current_ # 0 /\ MKey = Newest[y]
    BY <1>1, <1>3, <1>9, Zenon DEF IInv, LoopOK, IdleOK
  <2>3. MKey.key = y /\ MKey \in Rec
    BY <2>2, <1>2, CurrentEntry, Zenon DEF Snap
  <2>4. MergeOK' /\ MergeTyped' /\ Behind' = {e \in Visible : Before(e, MKey)}
    BY <2>1, <2>2, <1>1, <1>2, MergePrevMoves, Zenon
  <2>5. \A e \in Visible : e.key < y => Before(e, MKey)
    <3>1. SUFFICES ASSUME NEW e \in Visible PROVE e.key < y => Before(e, MKey)
      OBVIOUS
    <3>2. e \in Rec
      BY <1>2, EntryIsRec, Zenon DEF Snap
    <3> QED
      BY <3>2, <2>3, OrderKeys, Zenon
  <2>6. PICK Q : Q = Behind'
    OBVIOUS
  <2>7. \A e \in Visible : e.key < y => e \in Q
    BY <2>4, <2>5, <2>6, Zenon
  <2>8. BackOK(Visible, Live, Q, MaxOf({k \in Live : k < y}), y) /\ MaxOf({k \in Live : k < y}) \in Int
    BY <2>7, <1>2, <1>5, <1>7, BackStart
  <2>9. BackOK(Visible, Live, Behind', expect', saved_key_') /\ expect' \in Int /\ saved_key_' = y
    BY <2>1, <2>3, <2>6, <2>8, <1>1, <1>3
  <2>10. /\ DataTyped' /\ EntriesOK' /\ FilesOK'
         /\ Visible' = Visible /\ Newest' = Newest /\ Live' = Live
    BY <1>1, SameEntries, Zenon
  <2>11. IterTyped'
    BY <2>1, <2>9, <1>7, Zenon DEF IInv, TypeOK, IterTyped
  <2>12. LoopOK'
    BY <2>1, <2>9, <2>10, Zenon DEF LoopOK
  <2> QED
    BY <2>4, <2>10, <2>11, <2>12, Zenon DEF IInv, TypeOK
<1>10. CASE direction_ # kForward
  <2>1. StartReverse /\ UNCHANGED mergeVars /\ saved_key_' = saved_key_ /\ saved_value_' = saved_value_
    BY <1>10, Zenon DEF PrevEntry
  <2>2. direction_ = kReverse
    BY <1>10, Zenon DEF IInv, TypeOK, IterTyped
  <2>3. \A e \in Visible : e \in Behind <=> e.key < y
    BY <2>2, <1>1, <1>3, Zenon DEF IInv, LoopOK, IdleOK
  <2>4. MergeTyped' /\ MergeOK' /\ Behind' = Behind
    BY <2>1, <1>1, SameMerge, Zenon
  <2>5. Behind \subseteq Visible
    BY Zenon DEF Behind
  <2>6. (\A e \in Visible : e.key \in T => e \in Behind) /\ \A e \in Behind : e.key \in Live => e.key \in T
    BY <2>3, <2>5, <1>4, Zenon
  <2>7. RevOK(Visible, Newest, Live, Behind, MaxOf(T), kTypeDeletion, saved_key_, saved_value_) /\ MaxOf(T) \in Int
    BY <2>5, <2>6, <1>2, <1>8, RevStart, Zenon
  <2>8. saved_key_' \in Int
    BY <2>1, Zenon DEF IInv, TypeOK, IterTyped
  <2>9. /\ RevOK(Visible, Newest, Live, Behind', expect', kTypeDeletion, saved_key_', saved_value_')
        /\ expect' \in Int
    BY <2>1, <2>4, <2>7, <1>8
  <2> QED
    BY <2>1, <2>4, <2>8, <2>9, <1>1, ReverseStarts, Zenon
<1> QED
  BY <1>9, <1>10, Zenon

\* Prev goes back until only smaller keys are left.
LEMMA BackStep ==
  ASSUME IInv, KeysAssumption, BackToPreviousKey
  PROVE  IInv'
<1>1. pc = "back" /\ UNCHANGED <<ent, files_, last, sequence_>> /\ expect' = expect
  BY Zenon DEF BackToPreviousKey
<1>2. StaticOK /\ MergeOK /\ Snap(Visible, Newest, Live)
  BY IsStatic, SnapshotFacts, Zenon DEF IInv
<1>3. /\ DataTyped' /\ EntriesOK' /\ FilesOK'
      /\ Visible' = Visible /\ Newest' = Newest /\ Live' = Live
  BY <1>1, SameEntries, Zenon
<1>4. BackOK(Visible, Live, Behind, expect, saved_key_) /\ expect \in Int /\ saved_key_ \in Int
  BY <1>1, Zenon DEF IInv, LoopOK, TypeOK, IterTyped
<1>5. \A e \in Visible : e.key \in Nat
  BY <1>2, SMT DEF Snap, Entry
<1>6. expect # -1 => expect \in Live /\ Newest[expect] \in Behind
  BY <1>2, <1>4, Zenon DEF Snap, BackOK
<1>7. CASE /\ current_ = 0
           /\ valid_' = FALSE /\ saved_key_' = -1 /\ pc' = "idle"
           /\ UNCHANGED <<mergeVars, direction_, value_type, skipping>>
  <2>1. Behind = {}
    BY <1>7, Zenon DEF Behind
  <2>2. expect = -1
    BY <2>1, <1>6, Zenon
  <2>3. MergeTyped' /\ MergeOK'
    BY <1>1, <1>7, SameMerge, Zenon
  <2>4. IterTyped'
    <3>1. valid_' = FALSE /\ saved_key_' = -1
      BY <1>7, Zenon
    <3>2. saved_key_' \in Int
      BY <3>1, SMT
    <3> QED
      BY <3>1, <3>2, <1>1, <1>7, Zenon DEF IInv, TypeOK, IterTyped
  <2>5. LoopOK'
    BY <2>2, <1>1, <1>7, Zenon DEF LoopOK, IdleOK
  <2> QED
    BY <2>3, <2>4, <2>5, <1>3, Zenon DEF IInv, TypeOK
<1>8. CASE /\ current_ # 0 /\ MKey.key < saved_key_
           /\ StartReverse /\ UNCHANGED <<mergeVars, saved_key_, saved_value_>>
  <2>1. MergeTyped' /\ MergeOK' /\ Behind' = Behind
    BY <1>1, <1>8, SameMerge, Zenon
  <2>2. ASSUME NEW e \in Behind, e.key \in Live PROVE expect # -1 /\ e.key <= expect
    <3>1. e \in Visible /\ (e = MKey \/ Before(e, MKey)) /\ MKey \in Rec /\ MKey.key \in Nat
      BY <1>2, <1>8, CurrentEntry, Zenon DEF Behind
    <3>2. e \in Rec
      BY <3>1, <1>2, EntryIsRec, Zenon DEF Snap
    <3>3. e.key <= MKey.key
      BY <3>1, <3>2, OrderKeys, SMT
    <3>4. e.key < saved_key_
      BY <3>1, <3>3, <1>4, <1>5, <1>8, SMT
    <3> QED
      BY <3>4, <2>2, <1>4, Zenon DEF BackOK
  <2>3. RevOK(Visible, Newest, Live, Behind, expect, kTypeDeletion, saved_key_, saved_value_)
    BY <2>2, <1>6, Names, Zenon DEF RevOK
  <2>4. RevOK(Visible, Newest, Live, Behind', expect', kTypeDeletion, saved_key_', saved_value_')
    BY <2>1, <2>3, <1>1, <1>8
  <2> QED
    BY <2>1, <2>4, <1>1, <1>4, <1>8, ReverseStarts, Zenon
<1>9. CASE /\ current_ # 0 /\ MKey.key >= saved_key_ /\ MergePrev
           /\ UNCHANGED <<direction_, valid_, saved_key_, saved_value_, value_type, skipping, pc>>
  <2>1. PICK m : m = MKey
    OBVIOUS
  <2>2. MergeOK' /\ MergeTyped' /\ Behind' = Behind \ {m} /\ m.key \in Nat
    BY <2>1, <1>1, <1>2, <1>9, MergePrevMoves, CurrentEntry, Zenon
  <2>3. \A e \in Visible : e.key < saved_key_ => e # m
    BY <2>1, <2>2, <1>4, <1>5, <1>9, SMT
  <2>4. BackOK(Visible, Live, Behind', expect, saved_key_)
    BY <2>2, <2>3, <1>4, Zenon DEF BackOK
  <2>5. IterTyped'
    BY <1>1, <1>9, Zenon DEF IInv, TypeOK, IterTyped
  <2>6. LoopOK'
    BY <2>4, <1>1, <1>3, <1>9, Zenon DEF LoopOK
  <2> QED
    BY <2>2, <2>5, <2>6, <1>3, Zenon DEF IInv, TypeOK
<1> QED
  BY <1>7, <1>8, <1>9, Zenon DEF BackToPreviousKey

\* A round of FindPrevUserEntry keeps the invariant.
LEMMA FindPrevStep ==
  ASSUME IInv, KeysAssumption, FindPrevUserEntry
  PROVE  IInv'
<1>1. /\ pc = "rev" /\ UNCHANGED <<ent, files_, last, sequence_>>
      /\ skipping' = skipping /\ expect' = expect
  BY Zenon DEF FindPrevUserEntry
<1>2. StaticOK /\ MergeOK /\ Snap(Visible, Newest, Live)
  BY IsStatic, SnapshotFacts, Zenon DEF IInv
<1>3. /\ DataTyped' /\ EntriesOK' /\ FilesOK'
      /\ Visible' = Visible /\ Newest' = Newest /\ Live' = Live
  BY <1>1, SameEntries, Zenon
<1>4. /\ direction_ = kReverse
      /\ RevOK(Visible, Newest, Live, Behind, expect, value_type, saved_key_, saved_value_)
  BY <1>1, Zenon DEF IInv, LoopOK
<1>5. /\ expect \in Int /\ value_type \in Types /\ saved_key_ \in Int /\ Behind \subseteq Visible
      /\ valid_ \in BOOLEAN /\ skipping \in BOOLEAN
  BY Zenon DEF IInv, TypeOK, IterTyped, Behind
<1>6. \A e \in Visible : e.key \in Nat
  BY <1>2, SMT DEF Snap, Entry
<1> DEFINE visible == MKey.seq <= sequence_
           done == \/ current_ = 0
                   \/ visible /\ value_type # kTypeDeletion /\ MKey.key < saved_key_
<1>7. CASE done
  <2>1. /\ pc' = "idle" /\ valid_' = (value_type # kTypeDeletion) /\ UNCHANGED mergeVars
        /\ direction_' = IF value_type = kTypeDeletion THEN kForward ELSE kReverse
        /\ value_type' = value_type
        /\ IF value_type = kTypeDeletion THEN saved_key_' = -1 /\ saved_value_' = 0
           ELSE UNCHANGED <<saved_key_, saved_value_>>
    BY <1>7, Zenon DEF FindPrevUserEntry
  <2>2. MergeTyped' /\ MergeOK' /\ MKey' = MKey /\ current_' = current_ /\ Behind' = Behind
    BY <1>1, <2>1, SameMerge, Zenon
  <2>3. CASE value_type = kTypeDeletion
    <3>1. Behind = {}
      BY <1>7, <2>3, Zenon DEF Behind
    <3>2. expect = -1
      BY <3>1, <2>3, <1>4, Zenon DEF RevOK
    <3>3. valid_' = FALSE /\ saved_key_' = -1 /\ direction_' = kForward
      BY <2>1, <2>3, Zenon
    <3>4. saved_key_' \in Int
      BY <3>3, SMT
    <3>5. IterTyped'
      BY <3>3, <3>4, <2>1, <1>1, <1>5, Names, Zenon DEF IterTyped
    <3>6. LoopOK'
      BY <3>2, <3>3, <2>1, <1>1, Zenon DEF LoopOK, IdleOK
    <3> QED
      BY <3>5, <3>6, <2>2, <1>3, Zenon DEF IInv, TypeOK
  <2>4. CASE value_type # kTypeDeletion
    <3>1. value_type = kTypeValue
      BY <2>4, <1>5, Names, Zenon
    <3>2. valid_' = TRUE /\ saved_key_' = saved_key_ /\ saved_value_' = saved_value_ /\ direction_' = kReverse
      BY <2>1, <2>4, Zenon
    <3>3. \A e \in Behind : e.key < saved_key_
      <4>1. CASE current_ = 0
        BY <4>1, Zenon DEF Behind
      <4>2. CASE current_ # 0
        <5>1. SUFFICES ASSUME NEW e \in Behind PROVE e.key < saved_key_
          OBVIOUS
        <5>2. (e = MKey \/ Before(e, MKey)) /\ MKey \in Rec /\ MKey.key \in Nat /\ e \in Visible
          BY <4>2, <1>2, <1>5, CurrentEntry, Zenon DEF Behind
        <5>3. e \in Rec /\ MKey.key < saved_key_
          BY <5>2, <4>2, <1>2, <1>7, EntryIsRec, Zenon DEF Snap
        <5>4. e.key <= MKey.key
          BY <5>2, <5>3, OrderKeys, SMT
        <5> QED
          BY <5>2, <5>3, <5>4, <1>5, <1>6, SMT
      <4> QED
        BY <4>1, <4>2, Zenon
    <3>4. RevOK(Visible, Newest, Live, Behind, expect, kTypeValue, saved_key_, saved_value_)
      BY <3>1, <1>4, Zenon
    <3>5. /\ expect \in Live /\ saved_key_ = expect /\ saved_value_ = Newest[expect].seq
          /\ \A e \in Visible : e \in Behind <=> e.key < expect
      BY <3>3, <3>4, <1>2, <1>5, RevDone, SMT
    <3>6. IterTyped'
      BY <3>2, <2>1, <1>1, <1>5, Names, Zenon DEF IterTyped
    <3>7. IdleOK'
      BY <3>2, <3>5, <2>2, <1>1, <1>3, Names, Zenon DEF IdleOK
    <3>8. LoopOK'
      BY <3>7, <2>1, Zenon DEF LoopOK
    <3> QED
      BY <3>6, <3>8, <2>2, <1>3, Zenon DEF IInv, TypeOK
  <2> QED
    BY <2>3, <2>4, Zenon
<1>8. CASE ~done
  <2>1. /\ MergePrev /\ UNCHANGED <<pc, valid_, direction_>>
        /\ value_type' = IF visible THEN MKey.type ELSE value_type
        /\ saved_key_' = IF ~visible THEN saved_key_
                         ELSE IF MKey.type = kTypeDeletion THEN -1 ELSE MKey.key
        /\ saved_value_' = IF ~visible THEN saved_value_
                           ELSE IF MKey.type = kTypeDeletion THEN 0 ELSE MKey.seq
    BY <1>8, Zenon DEF FindPrevUserEntry
  <2>2. PICK m : m = MKey
    OBVIOUS
  <2>3. current_ # 0
    BY <1>8, Zenon
  <2>4. MergeOK' /\ MergeTyped' /\ Behind' = Behind \ {m}
    BY <2>1, <2>2, <2>3, <1>1, <1>2, MergePrevMoves, CurrentEntry, Zenon
  <2>5. /\ m.key \in Nat /\ m.type \in Types /\ (m.seq <= sequence_ <=> m \in Behind)
        /\ \A e \in Behind : e = m \/ Before(e, m)
        /\ \A e \in Visible : e \in Behind \/ Before(m, e)
    BY <2>2, <2>3, <1>2, CurrentEntry, EntriesTyped, Zenon
  <2>6. /\ RevOK(Visible, Newest, Live, Behind \ {m}, expect, value_type', saved_key_', saved_value_')
        /\ value_type' \in Types /\ saved_key_' \in Int
    <3>1. CASE ~visible
      <4>1. m \notin Behind
        BY <3>1, <2>2, <2>5, Zenon
      <4>2. Behind \ {m} = Behind
        BY <4>1, Zenon
      <4>3. value_type' = value_type /\ saved_key_' = saved_key_ /\ saved_value_' = saved_value_
        BY <3>1, <2>1, Zenon
      <4> QED
        BY <4>2, <4>3, <1>4, <1>5
    <3>2. CASE visible /\ MKey.type = kTypeDeletion
      <4>1. m \in Behind /\ m.type = kTypeDeletion /\ (value_type # kTypeDeletion => ~(m.key < saved_key_))
        BY <3>2, <2>2, <2>5, <1>8, Zenon
      <4>2. value_type' = kTypeDeletion /\ saved_key_' = -1 /\ saved_value_' = 0
        BY <3>2, <2>1, Zenon
      <4>3. RevOK(Visible, Newest, Live, Behind \ {m}, expect, kTypeDeletion, -1, 0)
        BY <4>1, <1>2, <1>4, <1>5, RevDeletion, Zenon
      <4>4. saved_key_' \in Int
        BY <4>2, SMT
      <4> QED
        BY <4>2, <4>3, <4>4, Names, Zenon
    <3>3. CASE visible /\ MKey.type # kTypeDeletion
      <4>1. m \in Behind /\ m.type = kTypeValue /\ (value_type # kTypeDeletion => ~(m.key < saved_key_))
        BY <3>3, <2>2, <2>5, <1>8, Names, Zenon
      <4>2. value_type' = kTypeValue /\ saved_key_' = m.key /\ saved_value_' = m.seq
        BY <4>1, <3>3, <2>1, <2>2, Zenon
      <4>3. RevOK(Visible, Newest, Live, Behind \ {m}, expect, kTypeValue, m.key, m.seq)
        BY <4>1, <2>5, <1>2, <1>4, <1>5, RevValue, Zenon
      <4>4. saved_key_' \in Int
        BY <4>2, <2>5, SMT
      <4> QED
        BY <4>2, <4>3, <4>4, Names, Zenon
    <3> QED
      BY <3>1, <3>2, <3>3, Zenon
  <2>7. IterTyped'
    BY <2>1, <2>6, <1>1, Zenon DEF IInv, TypeOK, IterTyped
  <2>8. LoopOK'
    BY <2>1, <2>4, <2>6, <1>1, <1>3, <1>4, Zenon DEF LoopOK
  <2> QED
    BY <2>4, <2>7, <2>8, <1>3, Zenon DEF IInv, TypeOK
<1> QED
  BY <1>7, <1>8, Zenon

-----------------------------------------------------------------------------
(* Writes, the initial states, and the theorems.                            *)

\* A write adds an entry that the snapshot does not see.
LEMMA WriteStep ==
  ASSUME IInv, KeysAssumption, NEW k \in Keys, NEW t \in Types, Write(k, t)
  PROVE  IInv'
<1>1. PICK n : n = [key |-> k, seq |-> last + 1, type |-> t]
  OBVIOUS
<1>2. /\ last' = last + 1 /\ ent' = [ent EXCEPT ![1] = @ \cup {n}]
      /\ UNCHANGED <<files_, sequence_>> /\ UNCHANGED <<pos, file, current_, mdir>>
      /\ UNCHANGED <<direction_, valid_, saved_key_, saved_value_, value_type, skipping, pc, expect>>
  BY <1>1, Zenon DEF Write, mergeVars, iterVars
<1>3. /\ ent \in [Children -> SUBSET Entry] /\ last \in Nat /\ sequence_ \in Nat /\ sequence_ <= last
      /\ 1 \in Children
  BY SMT DEF IInv, TypeOK, DataTyped, Children
<1>4. n \in Entry /\ n.key = k /\ n.seq = last + 1 /\ ~(n.seq <= sequence_)
  <2>1. k \in Nat
    BY SMT DEF KeysAssumption
  <2> QED
    BY <2>1, <1>1, <1>3, SMT DEF Entry
<1>5. /\ ent' \in [Children -> SUBSET Entry]
      /\ \A c \in Children : ent[c] \subseteq ent'[c]
      /\ \A c \in Children : \A e \in ent'[c] : e \in ent[c] \/ (c = 1 /\ e = n)
      /\ ent'[3] = ent[3]
  BY <1>2, <1>3, <1>4, SMT DEF Children
<1>6. DataTyped'
  BY <1>2, <1>3, <1>5, SMT DEF DataTyped
<1>7. EntriesOK'
  <2>1. ASSUME NEW c \in Children, NEW e \in ent'[c]
        PROVE  e.key \in Keys /\ e.seq <= last'
    <3>1. CASE e \in ent[c]
      <4>1. e.key \in Keys /\ e.seq <= last /\ e.seq \in Int
        BY <3>1, <1>3, SMT DEF IInv, EntriesOK, Entry
      <4> QED
        BY <4>1, <1>2, <1>3, SMT
    <3>2. CASE e = n
      BY <3>2, <1>2, <1>3, <1>4, SMT
    <3> QED
      BY <3>1, <3>2, <1>5, Zenon
  <2>2. \A c \in Children : \A e \in ent[c] : e.seq # n.seq
    BY <1>3, <1>4, SMT DEF IInv, EntriesOK, Entry
  <2>3. ASSUME NEW c \in Children, NEW d \in Children, NEW e \in ent'[c], NEW f \in ent'[d], e.seq = f.seq
        PROVE  c = d /\ e = f
    BY <2>2, <2>3, <1>5, SMT DEF IInv, EntriesOK
  <2> QED
    BY <2>1, <2>3, Zenon DEF EntriesOK
<1>8. FilesOK'
  BY <1>2, <1>5, Zenon DEF IInv, FilesOK
<1>9. \A e : (\E c \in Children : e \in ent'[c]) /\ e.seq <= sequence_
             <=> (\E c \in Children : e \in ent[c]) /\ e.seq <= sequence_
  BY <1>4, <1>5, Zenon
<1>10. \A e : (e \in AllEntries' /\ e.seq <= sequence_) <=> (e \in AllEntries /\ e.seq <= sequence_)
  <2>1. \A e : e \in AllEntries' <=> \E c \in Children : e \in ent'[c]
    BY Zenon DEF AllEntries
  <2>2. \A e : e \in AllEntries <=> \E c \in Children : e \in ent[c]
    BY Zenon DEF AllEntries
  <2> QED
    BY <2>1, <2>2, <1>9, Zenon
<1>11. Visible' = Visible
  BY <1>2, <1>10, Zenon DEF Visible
<1>12. \A j : NewestOf(j)' = NewestOf(j)
  <2>1. ASSUME NEW j PROVE NewestOf(j)' = NewestOf(j)
    <3>1. {e \in AllEntries' : e.key = j /\ e.seq <= sequence_} = {e \in AllEntries : e.key = j /\ e.seq <= sequence_}
      BY <1>10, Zenon
    <3> QED
      BY <3>1, <1>2, Zenon DEF NewestOf
  <2> QED
    BY <2>1, Zenon
<1>13. Newest' = Newest /\ Live' = Live
  BY <1>12, Zenon DEF Newest, Live
<1>14. MergeTyped' /\ MKey' = MKey
  BY <1>2, Zenon DEF IInv, TypeOK, MergeTyped, MKey
<1>15. \A c \in Children : \A e \in ent'[c] : e.seq <= sequence_ => e \in Seen(c)
  BY <1>4, <1>5, Zenon DEF Seen
<1>16. MergeOK'
  <2>1. ASSUME NEW c \in Children PROVE PlaceOK(c, Here(c))'
    BY <1>2, <1>5, Zenon DEF IInv, MergeOK, PlaceOK, Here, At, NumFiles, FileSet
  <2>2. \A c \in Children : Seen(c)' \subseteq Seen(c)
    BY <1>2, <1>15, Zenon DEF Seen
  <2> QED
    BY <2>1, <2>2, <1>2, <1>14, Zenon DEF IInv, MergeOK
<1>17. Onward' = Onward /\ Behind' = Behind
  BY <1>2, <1>11, <1>14, Zenon DEF Onward, Behind
<1>18. IterTyped'
  BY <1>2, Zenon DEF IInv, TypeOK, IterTyped
<1>19. LoopOK'
  BY <1>2, <1>11, <1>13, <1>14, <1>17, Zenon DEF IInv, LoopOK, IdleOK
<1> QED
  BY <1>6, <1>7, <1>8, <1>14, <1>16, <1>18, <1>19, Zenon DEF IInv, TypeOK

\* A step that changes nothing keeps the invariant.
LEMMA StutterStep ==
  ASSUME IInv, UNCHANGED iteratorVars
  PROVE  IInv'
<1>1. /\ UNCHANGED <<ent, files_, last, sequence_>> /\ UNCHANGED mergeVars
      /\ UNCHANGED <<direction_, valid_, saved_key_, saved_value_, value_type, skipping, pc, expect>>
  BY Zenon DEF iteratorVars, iterVars
<1>2. DataTyped' /\ EntriesOK' /\ FilesOK' /\ Visible' = Visible /\ Newest' = Newest /\ Live' = Live
  BY <1>1, SameEntries, Zenon
<1>3. /\ MergeTyped' /\ MergeOK' /\ MKey' = MKey /\ current_' = current_
      /\ Onward' = Onward /\ Behind' = Behind
  BY <1>1, SameMerge, Zenon
<1>4. IterTyped'
  BY <1>1, Zenon DEF IInv, TypeOK, IterTyped
<1>5. LoopOK'
  BY <1>1, <1>2, <1>3, Zenon DEF IInv, LoopOK, IdleOK
<1> QED
  BY <1>2, <1>3, <1>4, <1>5, Zenon DEF IInv, TypeOK

\* A new iterator satisfies the invariant.
LEMMA InitInv ==
  ASSUME IterInit, KeysAssumption, LoadedAssumption
  PROVE  IInv
<1>1. PICK w \in [1 .. Loaded -> Keys \X {kTypeDeletion, kTypeValue}],
           a \in 0 .. Loaded, b \in 0 .. Loaded :
         /\ a <= b
         /\ ent = [c \in Children |->
                     {[key |-> w[s][1], seq |-> s, type |-> w[s][2]] :
                        s \in IF c = 3 THEN 1 .. a ELSE IF c = 2 THEN a + 1 .. b ELSE b + 1 .. Loaded}]
  BY Zenon DEF IterInit, NewInternalIterator
<1> DEFINE Part(c) == IF c = 3 THEN 1 .. a ELSE IF c = 2 THEN a + 1 .. b ELSE b + 1 .. Loaded
           E(s) == [key |-> w[s][1], seq |-> s, type |-> w[s][2]]
<1>2. /\ files_ \in Cuts(ent[3]) /\ last = Loaded
      /\ pos = [c \in Children |-> None] /\ file = 0 /\ current_ = 0 /\ mdir = kForward
      /\ sequence_ \in 0 .. last
      /\ direction_ = kForward /\ valid_ = FALSE /\ saved_key_ = -1
      /\ value_type = kTypeDeletion /\ skipping = FALSE /\ pc = "idle" /\ expect = -1
  BY Zenon DEF IterInit, NewInternalIterator, NewIterator, NewDBIterator
<1>3. Loaded \in Nat /\ a \in Nat /\ b \in Nat /\ a <= b /\ b <= Loaded
  BY <1>1, SMT DEF LoadedAssumption
<1>4. \A s \in 1 .. Loaded : E(s) \in Entry /\ E(s).key \in Keys /\ E(s).seq = s
  <2>1. Keys \subseteq Nat
    BY SMT DEF KeysAssumption
  <2>2. ASSUME NEW s \in 1 .. Loaded PROVE E(s) \in Entry /\ E(s).key \in Keys /\ E(s).seq = s
    <3>1. w[s] \in Keys \X {kTypeDeletion, kTypeValue} /\ s \in Nat
      BY <1>1, <1>3, SMT
    <3>2. w[s][1] \in Keys /\ w[s][2] \in Types
      BY <3>1, SMT DEF Types
    <3> QED
      BY <2>1, <3>1, <3>2, Zenon DEF Entry
  <2> QED
    BY <2>2
<1>5. \A c \in Children : ent[c] = {E(s) : s \in Part(c)}
  BY <1>1, Zenon
<1>6. /\ \A c \in Children : Part(c) \subseteq 1 .. Loaded
      /\ \A c, d \in Children : \A s : s \in Part(c) /\ s \in Part(d) => c = d
  BY <1>3, SMT DEF Children
<1> HIDE DEF Part, E
<1>7. \A c \in Children : \A e \in ent[c] : e.seq \in Part(c) /\ e = E(e.seq)
  BY <1>4, <1>5, <1>6, SMT
<1>8. /\ \A c \in Children : \A e \in ent[c] : e \in Entry /\ e.key \in Keys /\ e.seq \in 1 .. Loaded
  BY <1>4, <1>6, <1>7, SMT
<1>9. DataTyped
  <2>1. ent \in [Children -> SUBSET Entry]
    <3>1. DOMAIN ent = Children /\ ent = [c \in Children |-> ent[c]]
      BY <1>1, Zenon
    <3> QED
      BY <3>1, <1>8, Zenon
  <2> QED
    BY <2>1, <1>2, <1>3, SMT DEF DataTyped
<1>10. MergeTyped
  <2>1. current_ \in 0 .. 3
    BY <1>2, SMT
  <2> QED
    BY <2>1, <1>2, Zenon DEF MergeTyped
<1>11. IterTyped
  <2>1. saved_key_ \in Int /\ expect \in Int
    BY <1>2, SMT
  <2> QED
    BY <2>1, <1>2, Zenon DEF IterTyped, Types
<1>12. EntriesOK
  <2>1. \A c \in Children : \A e \in ent[c] : e.key \in Keys /\ e.seq <= last
    BY <1>2, <1>3, <1>8, SMT
  <2>2. \A c, d \in Children : \A e \in ent[c], f \in ent[d] : e.seq = f.seq => c = d /\ e = f
    BY <1>6, <1>7, Zenon
  <2> QED
    BY <2>1, <2>2, Zenon DEF EntriesOK
<1>13. FilesOK
  <2>1. PICK m \in 0 .. Loaded : files_ \in [1 .. m -> (SUBSET ent[3]) \ {{}}]
    BY <1>2, Zenon DEF Cuts
  <2>2. m \in Nat
    BY <2>1, <1>3, SMT
  <2>3. files_ \in [1 .. m -> SUBSET ent[3]] /\ \A i \in DOMAIN files_ : files_[i] # {}
    BY <2>1, Zenon
  <2>4. files_ \in Seq(SUBSET ent[3])
    BY <2>2, <2>3, SeqDef, SMT
  <2>5. /\ \A e \in ent[3] : \E i \in DOMAIN files_ : e \in files_[i]
        /\ \A i, j \in DOMAIN files_ : i < j => \A e \in files_[i], f \in files_[j] : Before(e, f)
    BY <1>2, Zenon DEF Cuts
  <2> QED
    BY <2>3, <2>4, <2>5, Zenon DEF FilesOK
<1>14. MergeOK
  <2>1. \A c \in Children : Here(c).pos = None
    BY <1>2, Zenon DEF Here, At
  <2> QED
    BY <2>1, <1>2, Zenon DEF MergeOK, PlaceOK
<1>15. LoopOK
  BY <1>2, Zenon DEF LoopOK, IdleOK
<1> QED
  BY <1>9, <1>10, <1>11, <1>12, <1>13, <1>14, <1>15, Zenon DEF IInv, TypeOK

\* Every action keeps the invariant.
LEMMA StepInv ==
  ASSUME IInv, KeysAssumption, [IterNext]_iteratorVars
  PROVE  IInv'
<1>1. CASE SeekToFirstEntry
  BY <1>1, SeekToFirstStep, Zenon
<1>2. CASE \E k \in Keys : SeekEntry(k)
  BY <1>2, SeekStep, Zenon
<1>3. CASE NextEntry
  BY <1>3, NextStep, Zenon
<1>4. CASE FindNextUserEntry
  BY <1>4, FindNextStep, Zenon
<1>5. CASE SeekToLastEntry
  BY <1>5, SeekToLastStep, Zenon
<1>6. CASE PrevEntry
  BY <1>6, PrevStep, Zenon
<1>7. CASE BackToPreviousKey
  BY <1>7, BackStep, Zenon
<1>8. CASE FindPrevUserEntry
  BY <1>8, FindPrevStep, Zenon
<1>9. CASE \E k \in Keys, t \in {kTypeDeletion, kTypeValue} : Write(k, t)
  BY <1>9, WriteStep, Zenon DEF Types
<1>10. CASE UNCHANGED iteratorVars
  BY <1>10, StutterStep, Zenon
<1> QED
  BY <1>1, <1>2, <1>3, <1>4, <1>5, <1>6, <1>7, <1>8, <1>9, <1>10, Zenon DEF IterNext

\* The invariant says what a client sees between two operations.
LEMMA IteratorRightFollows ==
  ASSUME IInv, KeysAssumption, pc = "idle"
  PROVE  valid_ = (expect # -1) /\ (valid_ => key = expect /\ value = NewestOf(expect).seq)
<1>1. IdleOK /\ valid_ \in BOOLEAN /\ direction_ \in {kForward, kReverse}
  BY Zenon DEF IInv, LoopOK, TypeOK, IterTyped
<1>2. Snap(Visible, Newest, Live)
  BY IsStatic, SnapshotFacts, Zenon
<1>3. CASE ~valid_
  BY <1>1, <1>3, Zenon DEF IdleOK
<1>4. CASE valid_
  <2>1. expect \in Live /\ expect \in Keys /\ Newest[expect] = NewestOf(expect)
    BY <1>1, <1>4, Zenon DEF IdleOK, Live, Newest
  <2>2. expect # -1
    <3>1. expect \in Nat
      BY <2>1, SMT DEF KeysAssumption
    <3> QED
      BY <3>1, SMT
  <2>3. CASE direction_ = kForward
    <3>1. MKey = Newest[expect] /\ Newest[expect].key = expect
      BY <2>1, <2>3, <1>1, <1>2, <1>4, Zenon DEF IdleOK, Snap
    <3> QED
      BY <3>1, <2>1, <2>2, <2>3, <1>1, <1>4, Zenon DEF key, value
  <2>4. CASE direction_ = kReverse
    <3>1. saved_key_ = expect /\ saved_value_ = Newest[expect].seq
      BY <2>4, <1>1, <1>4, Zenon DEF IdleOK
    <3> QED
      BY <3>1, <2>1, <2>2, <2>4, <1>1, <1>4, Names, Zenon DEF key, value
  <2> QED
    BY <2>3, <2>4, <1>1, Zenon
<1> QED
  BY <1>3, <1>4, Zenon

\* What the assumption on the constants gives.
LEMMA Constants == KeysAssumption /\ LoadedAssumption
<1>1. PICK n \in Keys : \A k \in Keys : k <= n
  BY DBIterAssumption, Zenon
<1>2. n \in Nat /\ Keys \subseteq 0 .. n
  BY <1>1, DBIterAssumption, SMT
<1> QED
  BY <1>2, DBIterAssumption, Zenon DEF KeysAssumption, LoadedAssumption

\* The invariant holds in every state of the iterator.
LEMMA Invariant == IterSpec => []IInv
<1>1. IterInit => IInv
  BY InitInv, Constants, Zenon
<1>2. IInv /\ [IterNext]_iteratorVars => IInv'
  BY StepInv, Constants, Zenon
<1> QED
  BY <1>1, <1>2, PTL DEF IterSpec

\* MergingIterator (table/merger.cc): in every state each child is at one of its
\* entries, the current one is the closest in the direction of the merge, and no
\* entry that the snapshot sees lies between the current key and the place of a
\* child, however the direction changed and whatever reached the memtable.
THEOREM MergeHolds == IterSpec => []MergeOK
<1>1. IInv => MergeOK
  BY Zenon DEF IInv
<1> QED
  BY <1>1, Invariant, PTL

\* DBIter (db/db_iter.cc): between two operations the iterator is valid exactly if
\* the snapshot has a key in its direction, and then key() is that key and value()
\* the newest value of it at the snapshot; for any keys, entries, files of the
\* deeper level, changes of direction and writes that come in between.
THEOREM IteratorRightHolds == IterSpec => []IteratorRight
<1>1. IInv => IteratorRight
  BY IteratorRightFollows, Constants, Zenon DEF IteratorRight
<1> QED
  BY <1>1, Invariant, PTL

=============================================================================
