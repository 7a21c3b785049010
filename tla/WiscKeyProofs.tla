--------------------------- MODULE WiscKeyProofs ---------------------------
(***************************************************************************)
(* Proofs about the key-value separation layer, for every set of keys and  *)
(* every number of calls, under the assumption that LevelDB accepts every  *)
(* Put and Delete.                                                         *)
(***************************************************************************)
EXTENDS WiscKey, SequenceTheorems, TLAPS

\* The log never outgrows one record for each version of headkey: a set that
\* follows a lookup may overwrite a record, never skip one.
LogBound == Len(logfile) <= 2 * Len(VTable[HeadKey].val_vec)

SetsBound == Len(VTable[HeadKey].val_vec) <= MaxSets

\* The inductive invariant.
WInv ==
    /\ TypeOK
    /\ IndexConsistent
    /\ RecordsWhole
    /\ RecordOwnedWhileAppending
    /\ LogBound
    /\ SetsBound

-----------------------------------------------------------------------------
\* push_back appends one element with the next version number and keeps the
\* others; the address that leveldb_set stores is a proper address.
LEMMA PushBackLemma ==
    ASSUME NEW e \in Entry, NEW o \in Nat, NEW f \in Nat
    PROVE  LET p == PushBack(e, o, f) IN
           /\ p \in Entry
           /\ Len(p.val_vec) = Len(e.val_vec) + 1
           /\ p.val_vec # <<>>
           /\ p.val_vec[Len(p.val_vec)] = [value |-> o, version |-> p.latest_ver]
           /\ \A j \in 1 .. Len(e.val_vec) : p.val_vec[j] = e.val_vec[j]
           /\ AddressOfNewest(p) \in Address
           /\ AddressOfNewest(p) # NotFound
<1> DEFINE full == Len(e.val_vec) = e.capacity
           info == [value |-> o, version |-> e.latest_ver + 1]
           vec  == Append(e.val_vec, info)
           S    == [value : Nat, version : Nat]
<1>1. e.val_vec \in Seq(S) /\ e.latest_ver \in Nat /\ e.buffer \in Nat /\ e.capacity \in Nat
  BY DEF Entry
<1>2. info \in S
  BY <1>1
<1>3. /\ vec \in Seq(S)
      /\ Len(vec) = Len(e.val_vec) + 1
      /\ vec[Len(vec)] = info
      /\ \A j \in 1 .. Len(e.val_vec) : vec[j] = e.val_vec[j]
      /\ vec # <<>>
  <2>1. vec \in Seq(S) /\ Len(vec) = Len(e.val_vec) + 1
    BY <1>1, <1>2, AppendProperties
  <2>2. \A j \in 1 .. Len(vec) : vec[j] = IF j = Len(e.val_vec) + 1 THEN info ELSE e.val_vec[j]
    BY <1>1, <1>2, <2>1, AppendProperties
  <2>3. Len(e.val_vec) \in Nat
    BY <1>1, LenProperties
  <2> HIDE DEF vec, info, S
  <2>4. vec # <<>>
    BY <2>1, <2>3, EmptySeq
  <2> QED BY <2>1, <2>2, <2>3, <2>4
<1>4. MaxOf2(1, 2 * e.capacity) \in Nat
  BY <1>1 DEF MaxOf2
<1>5. /\ PushBack(e, o, f).val_vec = vec
      /\ PushBack(e, o, f).latest_ver = e.latest_ver + 1
      /\ PushBack(e, o, f).buffer = (IF full THEN f ELSE e.buffer)
      /\ PushBack(e, o, f).capacity = (IF full THEN MaxOf2(1, 2 * e.capacity) ELSE e.capacity)
  BY DEF PushBack
<1>6. PushBack(e, o, f) \in Entry
  <2> HIDE DEF vec
  <2>1. PushBack(e, o, f) = [latest_ver |-> e.latest_ver + 1, val_vec |-> vec,
                             buffer |-> IF full THEN f ELSE e.buffer,
                             capacity |-> IF full THEN MaxOf2(1, 2 * e.capacity) ELSE e.capacity]
    BY DEF PushBack, vec
  <2>2. (IF full THEN f ELSE e.buffer) \in Nat
    BY <1>1
  <2>3. (IF full THEN MaxOf2(1, 2 * e.capacity) ELSE e.capacity) \in Nat
    BY <1>1, <1>4
  <2> QED BY <1>1, <1>3, <2>1, <2>2, <2>3 DEF Entry
<1>7. Len(vec) \in Nat
  BY <1>3, LenProperties
<1>8. AddressOfNewest(PushBack(e, o, f)) \in Address
  <2> HIDE DEF vec
  <2> QED BY <1>5, <1>1, <1>7 DEF AddressOfNewest, Address
<1>9. AddressOfNewest(PushBack(e, o, f)) # NotFound
  BY <1>8, StatusAssumption DEF Address
<1> HIDE DEF vec
<1> QED BY <1>3, <1>5, <1>6, <1>8, <1>9

\* fwrite at a position inside the log or at its end replaces or appends one
\* slot and leaves the others alone.
LEMMA WriteLemma ==
    ASSUME NEW file \in Seq(Slots), NEW p \in 0 .. Len(file), NEW slot \in Slots
    PROVE  LET w == Write(file, p, slot) IN
           /\ w \in Seq(Slots)
           /\ Len(w) = IF p < Len(file) THEN Len(file) ELSE p + 1
           /\ w[p + 1] = slot
           /\ \A n \in 1 .. Len(file) : n # p + 1 => w[n] = file[n]
<1> DEFINE len == IF p < Len(file) THEN Len(file) ELSE p + 1
<1>1. Len(file) \in Nat /\ len \in Nat
  BY LenProperties
<1>2. \A n \in 1 .. len : n # p + 1 => n \in 1 .. Len(file)
  BY <1>1
<1>3. \A n \in 1 .. Len(file) : file[n] \in Slots
  BY ElementOfSeq
<1>4. \A n \in 1 .. len : (IF n = p + 1 THEN slot ELSE file[n]) \in Slots
  BY <1>2, <1>3
<1>5. Write(file, p, slot) = [n \in 1 .. len |-> IF n = p + 1 THEN slot ELSE file[n]]
  BY DEF Write
<1>6. Write(file, p, slot) \in [1 .. len -> Slots]
  BY <1>4, <1>5
<1>7. Write(file, p, slot) \in Seq(Slots) /\ Len(Write(file, p, slot)) = len
  BY <1>1, <1>6, SeqDef, LenProperties, IsASeq
<1>8. p + 1 \in 1 .. len /\ 1 .. Len(file) \subseteq 1 .. len
  BY <1>1
<1> QED BY <1>5, <1>7, <1>8

-----------------------------------------------------------------------------
\* The empty store satisfies the invariant.
LEMMA InitOK == Init => WInv
<1> SUFFICES ASSUME Init PROVE WInv
  OBVIOUS
<1>0. \A S : <<>> \in Seq(S) /\ Len(<<>>) = 0
  BY EmptySeq
<1>1. NoEntry \in Entry
  BY <1>0 DEF NoEntry, Entry
<1>2. HeadKey \in AllKeys
  BY DEF AllKeys
<1>3. TypeOK
  <2>1. 0 % 2 = 0 /\ 0 \in 0 .. 0
    OBVIOUS
  <2>2. /\ VTable \in [AllKeys -> Entry]
        /\ leveldb \in [AllKeys -> Address \cup {NotFound}]
    BY <1>1 DEF Init
  <2>3. /\ logfile \in Seq(Slots) /\ Len(logfile) = 0 /\ pos = 0
        /\ buffers \in Nat /\ compacted \in BOOLEAN /\ GC \in Nat
    BY <1>0 DEF Init
  <2> QED BY <2>1, <2>2, <2>3 DEF TypeOK
<1>4. \A k \in AllKeys : VTable[k].val_vec = <<>>
  BY DEF Init, NoEntry
<1>5. IndexConsistent
  BY <1>4 DEF Init, IndexConsistent, InVTable
<1>6. RecordsWhole
  <2>1. \A k \in Keys : Len(VTable[k].val_vec) = 0
    BY <1>4, <1>0 DEF AllKeys
  <2>2. Len(logfile) = 0
    BY <1>0 DEF Init
  <2> QED BY <2>1, <2>2 DEF RecordsWhole
<1>7. RecordOwnedWhileAppending
  BY <1>4 DEF RecordOwnedWhileAppending, InVTable, AllKeys
<1>8. LogBound /\ SetsBound
  BY <1>0, <1>2, <1>4, BoundAssumption DEF LogBound, SetsBound, Init
<1> QED BY <1>3, <1>5, <1>6, <1>7, <1>8 DEF WInv

\* The whole effect of one wisckey_set on VTable, LevelDB and the log.
LEMMA SetEffect ==
    ASSUME ~PutMayFail, WInv, NEW k \in Keys, NEW v \in Values, wisckey_set(k, v)
    PROVE  /\ VTable' \in [AllKeys -> Entry]
           /\ leveldb' \in [AllKeys -> Address \cup {NotFound}]
           /\ \A j \in AllKeys \ {k, HeadKey} : VTable'[j] = VTable[j] /\ leveldb'[j] = leveldb[j]
           /\ \A j \in {k, HeadKey} :
                 LET old == VTable[j].val_vec
                     new == VTable'[j].val_vec
                 IN  /\ Len(new) = Len(old) + 1 /\ new # <<>>
                     /\ \A n \in 1 .. Len(old) : new[n] = old[n]
                     /\ new[Len(new)].version = VTable'[j].latest_ver
                     /\ leveldb'[j] = AddressOfNewest(VTable'[j])
                     /\ leveldb'[j] # NotFound
           /\ VTable'[k].val_vec[Len(VTable'[k].val_vec)].value = pos
<1> DEFINE e == PushBack(VTable[k], pos, buffers + 1)
           h == PushBack(VTable[HeadKey], pos + 1, buffers + 2)
<1>1. k \in AllKeys /\ HeadKey \in AllKeys /\ k # HeadKey
  BY KeyAssumption DEF AllKeys
<1>2. /\ VTable[k] \in Entry /\ VTable[HeadKey] \in Entry
      /\ pos \in Nat /\ buffers \in Nat
      /\ VTable \in [AllKeys -> Entry]
      /\ leveldb \in [AllKeys -> Address \cup {NotFound}]
  BY <1>1, LenProperties DEF WInv, TypeOK
<1>3. /\ e \in Entry /\ Len(e.val_vec) = Len(VTable[k].val_vec) + 1 /\ e.val_vec # <<>>
      /\ e.val_vec[Len(e.val_vec)] = [value |-> pos, version |-> e.latest_ver]
      /\ \A j \in 1 .. Len(VTable[k].val_vec) : e.val_vec[j] = VTable[k].val_vec[j]
      /\ AddressOfNewest(e) \in Address /\ AddressOfNewest(e) # NotFound
  <2>1. buffers + 1 \in Nat
    BY <1>2
  <2> QED BY <1>2, <2>1, PushBackLemma
<1>4. /\ h \in Entry /\ Len(h.val_vec) = Len(VTable[HeadKey].val_vec) + 1 /\ h.val_vec # <<>>
      /\ h.val_vec[Len(h.val_vec)] = [value |-> pos + 1, version |-> h.latest_ver]
      /\ \A j \in 1 .. Len(VTable[HeadKey].val_vec) : h.val_vec[j] = VTable[HeadKey].val_vec[j]
      /\ AddressOfNewest(h) \in Address /\ AddressOfNewest(h) # NotFound
  <2> DEFINE o == pos + 1
             f == buffers + 2
             H == VTable[HeadKey]
             r == PushBack(H, o, f)
  <2>1. o \in Nat /\ f \in Nat /\ H \in Entry
    BY <1>2
  <2> HIDE DEF o, f, H
  <2>2. r \in Entry /\ Len(r.val_vec) = Len(H.val_vec) + 1 /\ r.val_vec # <<>>
    BY <2>1, PushBackLemma
  <2>3. r.val_vec[Len(r.val_vec)] = [value |-> o, version |-> r.latest_ver]
    BY <2>1, PushBackLemma
  <2>4. \A j \in 1 .. Len(H.val_vec) : r.val_vec[j] = H.val_vec[j]
    BY <2>1, PushBackLemma
  <2>5. AddressOfNewest(r) \in Address /\ AddressOfNewest(r) # NotFound
    BY <2>1, PushBackLemma
  <2> QED BY <2>2, <2>3, <2>4, <2>5 DEF o, f, H
<1>5. VTable' = [VTable EXCEPT ![k] = e, ![HeadKey] = h]
  BY DEF wisckey_set, leveldb_set
<1>6. leveldb' = [leveldb EXCEPT ![k] = AddressOfNewest(e), ![HeadKey] = AddressOfNewest(h)]
  BY DEF wisckey_set, leveldb_set, PutResults
<1> HIDE DEF e, h
<1>7. VTable'[k] = e /\ VTable'[HeadKey] = h
  BY <1>1, <1>2, <1>5
<1>8. leveldb'[k] = AddressOfNewest(e) /\ leveldb'[HeadKey] = AddressOfNewest(h)
  BY <1>1, <1>2, <1>6
<1>9. VTable' \in [AllKeys -> Entry]
  BY <1>2, <1>3, <1>4, <1>5
<1>10. leveldb' \in [AllKeys -> Address \cup {NotFound}]
  BY <1>2, <1>3, <1>4, <1>6
<1>11. \A j \in AllKeys \ {k, HeadKey} : VTable'[j] = VTable[j] /\ leveldb'[j] = leveldb[j]
  BY <1>2, <1>5, <1>6
<1> QED BY <1>3, <1>4, <1>7, <1>8, <1>9, <1>10, <1>11, SMTT(30)

\* The record that wisckey_set writes is whole and the others are unchanged.
LEMMA SetLog ==
    ASSUME WInv, NEW k \in Keys, NEW v \in Values, wisckey_set(k, v)
    PROVE  /\ logfile' \in Seq(Slots)
           /\ Len(logfile') = IF pos < Len(logfile) THEN Len(logfile) ELSE pos + 2
           /\ Len(logfile) \in Nat /\ Len(logfile') \in Nat
           /\ logfile'[pos + 1] = KeySlot(k)
           /\ logfile'[pos + 2] = PtrSlot(pos)
           /\ \A n \in 1 .. Len(logfile) : n \notin {pos + 1, pos + 2} => logfile'[n] = logfile[n]
           /\ pos \in Nat /\ pos % 2 = 0 /\ Len(logfile) % 2 = 0
           /\ pos <= Len(logfile)
<1>0. pos % 2 = 0 /\ Len(logfile) % 2 = 0
  BY DEF WInv, TypeOK
<1>1. logfile \in Seq(Slots) /\ pos \in 0 .. Len(logfile) /\ Len(logfile) \in Nat
  <2>1. logfile \in Seq(Slots) /\ pos \in 0 .. Len(logfile)
    BY DEF WInv, TypeOK
  <2> QED BY <2>1, LenProperties
<1>2. pos \in 0 .. 2 * MaxSets
  <2> DEFINE n == Len(VTable[HeadKey].val_vec)
  <2>1. VTable[HeadKey].val_vec \in Seq([value : Nat, version : Nat])
    BY DEF WInv, TypeOK, AllKeys, Entry
  <2>2. n \in Nat
    BY <2>1, LenProperties
  <2>3. Len(logfile) <= 2 * n /\ n <= MaxSets
    BY DEF WInv, LogBound, SetsBound
  <2> HIDE DEF n
  <2> QED BY <1>1, <2>2, <2>3, BoundAssumption
<1>3. KeySlot(k) \in Slots /\ PtrSlot(pos) \in Slots
  BY <1>2 DEF Slots
<1> DEFINE w == Write(logfile, pos, KeySlot(k))
<1>4. /\ w \in Seq(Slots)
      /\ Len(w) = IF pos < Len(logfile) THEN Len(logfile) ELSE pos + 1
      /\ w[pos + 1] = KeySlot(k)
      /\ \A n \in 1 .. Len(logfile) : n # pos + 1 => w[n] = logfile[n]
  BY <1>1, <1>3, WriteLemma
<1>5. logfile' = Write(w, pos + 1, PtrSlot(pos))
  BY DEF wisckey_set
<1> HIDE DEF w
<1>6. pos + 1 \in 0 .. Len(w)
  BY <1>1, <1>4
<1>7. /\ logfile' \in Seq(Slots)
      /\ Len(logfile') = IF pos + 1 < Len(w) THEN Len(w) ELSE pos + 2
      /\ logfile'[pos + 2] = PtrSlot(pos)
      /\ \A n \in 1 .. Len(w) : n # pos + 2 => logfile'[n] = w[n]
  <2>1. pos + 1 + 1 = pos + 2
    BY <1>1
  <2> DEFINE q == pos + 1
             slot == PtrSlot(pos)
             u == Write(w, q, slot)
  <2> HIDE DEF q, slot
  <2>2. /\ u \in Seq(Slots)
        /\ Len(u) = IF q < Len(w) THEN Len(w) ELSE q + 1
        /\ u[q + 1] = slot
        /\ \A n \in 1 .. Len(w) : n # q + 1 => u[n] = w[n]
    <3>1. q \in 0 .. Len(w)
      BY <1>6 DEF q
    <3>2. w \in Seq(Slots) /\ slot \in Slots
      BY <1>3, <1>4 DEF slot
    <3>3. u \in Seq(Slots)
      BY <3>1, <3>2, WriteLemma
    <3>4. Len(u) = IF q < Len(w) THEN Len(w) ELSE q + 1
      BY <3>1, <3>2, WriteLemma
    <3>5. u[q + 1] = slot
      BY <3>1, <3>2, WriteLemma
    <3>6. \A n \in 1 .. Len(w) : n # q + 1 => u[n] = w[n]
      BY <3>1, <3>2, WriteLemma
    <3> QED BY <3>3, <3>4, <3>5, <3>6
  <2> QED BY <1>5, <2>1, <2>2 DEF q, slot
<1>8. Len(logfile') = IF pos < Len(logfile) THEN Len(logfile) ELSE pos + 2
  <2>1. pos < Len(logfile) => pos + 1 < Len(logfile)
    BY <1>0, <1>1
  <2> QED BY <1>1, <1>4, <1>7, <2>1
<1>9. logfile'[pos + 1] = KeySlot(k)
  BY <1>1, <1>4, <1>7, SMTT(30)
<1>10. \A n \in 1 .. Len(logfile) : n \notin {pos + 1, pos + 2} => logfile'[n] = logfile[n]
  BY <1>1, <1>4, <1>7
<1>11. pos \in Nat /\ pos <= Len(logfile) /\ Len(logfile') \in Nat
  BY <1>1, <1>8
<1> QED BY <1>0, <1>1, <1>11, <1>7, <1>8, <1>9, <1>10

\* do_logfileGC only touches its flag and its counter.
LEMMA CollectOK ==
    ASSUME TypeOK, do_logfileGC
    PROVE  compacted' \in BOOLEAN /\ GC' \in Nat
<1>1. compacted \in BOOLEAN /\ GC \in Nat
  BY DEF TypeOK
<1>2. CASE compacted
  <2>1. compacted' = FALSE /\ logfile_GC
    BY <1>2 DEF do_logfileGC
  <2>2. GC' \in Nat
    BY <2>1, 0 \in Nat, 1 \in Nat DEF logfile_GC
  <2> QED BY <2>1, <2>2
<1>3. CASE ~compacted
  <2>1. compacted' = compacted /\ GC' = GC
    BY <1>3 DEF do_logfileGC
  <2> QED BY <1>1, <2>1
<1> QED BY <1>1, <1>2, <1>3

\* wisckey_set preserves the invariant.
LEMMA SetOK ==
    ASSUME ~PutMayFail, WInv, NEW k \in Keys, NEW v \in Values, wisckey_set(k, v)
    PROVE  WInv'
<1>1. /\ k \in AllKeys /\ HeadKey \in AllKeys /\ k # HeadKey
      /\ Keys \subseteq AllKeys
  BY KeyAssumption DEF AllKeys
<1>2. TypeOK /\ IndexConsistent /\ RecordsWhole /\ RecordOwnedWhileAppending /\ LogBound /\ SetsBound
  BY DEF WInv
<1>3. \A j \in AllKeys : /\ Len(VTable[j].val_vec) \in Nat
                         /\ Len(VTable'[j].val_vec) \in Nat
                         /\ \A n \in 1 .. Len(VTable[j].val_vec) : VTable[j].val_vec[n].value \in Nat
  <2>1. \A j \in AllKeys : /\ VTable[j].val_vec \in Seq([value : Nat, version : Nat])
                           /\ VTable'[j].val_vec \in Seq([value : Nat, version : Nat])
    BY <1>2, SetEffect DEF TypeOK, Entry
  <2>2. \A t \in Seq([value : Nat, version : Nat]) :
           Len(t) \in Nat /\ \A n \in 1 .. Len(t) : t[n] \in [value : Nat, version : Nat]
    BY LenProperties, ElementOfSeq
  <2> QED BY <2>1, <2>2
<1>4. pos' = pos + 2 /\ Len(VTable[HeadKey].val_vec) < MaxSets /\ do_logfileGC
      /\ buffers' = buffers + 2
  BY DEF wisckey_set, leveldb_set
<1>5. TypeOK'
  <2>1. pos' \in 0 .. Len(logfile') /\ pos' % 2 = 0 /\ Len(logfile') % 2 = 0
    <3>1. pos + 2 <= Len(logfile')
      BY SetLog
    <3>2. (pos + 2) % 2 = 0 /\ Len(logfile') % 2 = 0
      BY SetLog
    <3>3. pos \in Nat /\ Len(logfile') \in Nat
      BY SetLog
    <3> QED BY <3>1, <3>2, <3>3, <1>4
  <2>2. compacted' \in BOOLEAN /\ GC' \in Nat
    BY <1>2, <1>4, CollectOK
  <2>3. buffers' \in Nat
    BY <1>2, <1>4 DEF TypeOK
  <2>4. VTable' \in [AllKeys -> Entry] /\ leveldb' \in [AllKeys -> Address \cup {NotFound}]
    BY SetEffect
  <2>5. logfile' \in Seq(Slots)
    BY SetLog
  <2> QED BY <2>1, <2>2, <2>3, <2>4, <2>5 DEF TypeOK
<1>6. IndexConsistent'
  <2> SUFFICES ASSUME NEW j \in AllKeys
               PROVE  /\ leveldb'[j] = NotFound <=> ~InVTable(j)'
                      /\ leveldb'[j] # NotFound =>
                            /\ AddressLive(j, leveldb[j])'
                            /\ Deref(j, leveldb[j])'.version = VTable'[j].latest_ver
                            /\ leveldb'[j].idx = Len(VTable'[j].val_vec)
    BY DEF IndexConsistent
  <2>1. CASE j \in {k, HeadKey}
    <3> DEFINE vec == VTable'[j].val_vec
    <3>1. /\ vec # <<>>
          /\ vec[Len(vec)].version = VTable'[j].latest_ver
          /\ leveldb'[j] = AddressOfNewest(VTable'[j])
          /\ leveldb'[j] # NotFound
          /\ Len(vec) = Len(VTable[j].val_vec) + 1
      BY <2>1, SetEffect
    <3>2. Len(vec) \in 1 .. Len(vec)
      BY <3>1, <1>3
    <3>3. leveldb'[j].idx = Len(vec) /\ leveldb'[j].buffer = VTable'[j].buffer
      BY <3>1 DEF AddressOfNewest
    <3> QED BY <3>1, <3>2, <3>3 DEF InVTable, AddressLive, Deref
  <2>2. CASE j \notin {k, HeadKey}
    <3>1. VTable'[j] = VTable[j] /\ leveldb'[j] = leveldb[j]
      BY <2>2, SetEffect
    <3> QED BY <1>2, <3>1 DEF IndexConsistent, InVTable, AddressLive, Deref
  <2> QED BY <2>1, <2>2
<1>7. RecordsWhole'
  <2>1. ASSUME NEW n \in 1 .. Len(logfile')
        PROVE  IF n % 2 = 1 THEN logfile'[n] \in {KeySlot(j) : j \in Keys}
                            ELSE logfile'[n] = PtrSlot(n - 2)
    <3>0. n \in Nat /\ pos \in Nat /\ pos % 2 = 0 /\ Len(logfile) \in Nat /\ pos <= Len(logfile)
      BY SetLog
    <3>1. CASE n = pos + 1
      <4>1. n % 2 = 1
        BY <3>0, <3>1
      <4> QED BY <4>1, <3>1, SetLog
    <3>2. CASE n = pos + 2
      <4>1. n % 2 # 1 /\ n - 2 = pos
        BY <3>0, <3>2
      <4> QED BY <4>1, <3>2, SetLog
    <3>3. CASE n \notin {pos + 1, pos + 2}
      <4>1. Len(logfile') = IF pos < Len(logfile) THEN Len(logfile) ELSE pos + 2
        BY SetLog
      <4>2. n \in 1 .. Len(logfile)
        BY <3>0, <3>3, <4>1
      <4>3. logfile'[n] = logfile[n]
        BY <3>3, <4>2, SetLog
      <4> QED BY <1>2, <4>2, <4>3 DEF RecordsWhole
    <3> QED BY <3>1, <3>2, <3>3
  <2>2. ASSUME NEW j \in Keys, NEW n \in 1 .. Len(VTable'[j].val_vec)
        PROVE  LET o == VTable'[j].val_vec[n].value IN o % 2 = 0 /\ o + 2 <= Len(logfile')
    <3>0. /\ pos \in Nat /\ pos % 2 = 0 /\ Len(logfile) \in Nat /\ pos <= Len(logfile)
          /\ Len(logfile') \in Nat /\ Len(logfile) <= Len(logfile') /\ pos + 2 <= Len(logfile')
      <4>1. /\ pos \in Nat /\ pos % 2 = 0 /\ Len(logfile) \in Nat /\ pos <= Len(logfile)
            /\ Len(logfile') = IF pos < Len(logfile) THEN Len(logfile) ELSE pos + 2
            /\ Len(logfile) % 2 = 0 /\ Len(logfile') \in Nat
        BY SetLog
      <4> QED BY <4>1
    <3>1. CASE n \in 1 .. Len(VTable[j].val_vec) /\ VTable'[j].val_vec[n] = VTable[j].val_vec[n]
      <4>1. LET o == VTable[j].val_vec[n].value IN o \in Nat /\ o % 2 = 0 /\ o + 2 <= Len(logfile)
        BY <1>1, <1>2, <1>3, <3>1 DEF RecordsWhole
      <4> QED BY <3>0, <3>1, <4>1
    <3>2. CASE VTable'[j].val_vec[n].value = pos
      BY <3>0, <3>2
    <3>3. \/ n \in 1 .. Len(VTable[j].val_vec) /\ VTable'[j].val_vec[n] = VTable[j].val_vec[n]
          \/ VTable'[j].val_vec[n].value = pos
      <4>1. CASE j = k
        <5>1. /\ Len(VTable'[k].val_vec) = Len(VTable[k].val_vec) + 1
              /\ \A i \in 1 .. Len(VTable[k].val_vec) : VTable'[k].val_vec[i] = VTable[k].val_vec[i]
              /\ VTable'[k].val_vec[Len(VTable'[k].val_vec)].value = pos
          BY SetEffect
        <5>2. n \in 1 .. Len(VTable[k].val_vec) \/ n = Len(VTable'[k].val_vec)
          BY <1>1, <1>3, <4>1, <5>1
        <5> QED BY <4>1, <5>1, <5>2
      <4>2. CASE j # k
        <5>1. VTable'[j] = VTable[j]
          BY <1>1, <4>2, KeyAssumption, SetEffect
        <5> QED BY <5>1
      <4> QED BY <4>1, <4>2
    <3> QED BY <3>1, <3>2, <3>3
  <2> QED BY <2>1, <2>2 DEF RecordsWhole
<1>8. LogBound' /\ SetsBound'
  <2> DEFINE n == Len(VTable[HeadKey].val_vec)
  <2>1. Len(VTable'[HeadKey].val_vec) = n + 1
    BY SetEffect
  <2>2. n \in Nat /\ n < MaxSets
    BY <1>1, <1>3, <1>4
  <2>3. Len(logfile) <= 2 * n
    BY <1>2 DEF LogBound
  <2>4. /\ Len(logfile') = IF pos < Len(logfile) THEN Len(logfile) ELSE pos + 2
        /\ pos \in Nat /\ Len(logfile) \in Nat /\ pos <= Len(logfile)
    BY SetLog
  <2> HIDE DEF n
  <2> QED BY <2>1, <2>2, <2>3, <2>4, BoundAssumption DEF LogBound, SetsBound
<1>9. RecordOwnedWhileAppending'
  <2> SUFFICES ASSUME Len(logfile') = 2 * Len(VTable'[HeadKey].val_vec),
                      NEW j \in Keys, InVTable(j)'
               PROVE  logfile'[VTable'[j].val_vec[Len(VTable'[j].val_vec)].value + 1] = KeySlot(j)
    BY DEF RecordOwnedWhileAppending
  <2>1. CASE j = k
    <3>1. VTable'[k].val_vec[Len(VTable'[k].val_vec)].value = pos
      BY SetEffect
    <3> QED BY <2>1, <3>1, SetLog
  <2>2. CASE j # k
    <3> DEFINE n == Len(VTable[HeadKey].val_vec)
               o == VTable[j].val_vec[Len(VTable[j].val_vec)].value
    <3>1. Len(VTable'[HeadKey].val_vec) = n + 1 /\ n \in Nat
      BY <1>1, <1>3, SetEffect
    <3>2. Len(logfile) <= 2 * n
      BY <1>2 DEF LogBound
    <3>3. /\ Len(logfile') = IF pos < Len(logfile) THEN Len(logfile) ELSE pos + 2
          /\ pos \in Nat /\ Len(logfile) \in Nat /\ pos <= Len(logfile)
      BY SetLog
    <3>4. pos = Len(logfile) /\ Len(logfile) = 2 * n
      <4> HIDE DEF n
      <4> QED BY <3>1, <3>2, <3>3
    <3>5. VTable'[j] = VTable[j]
      BY <1>1, <2>2, KeyAssumption, SetEffect
    <3>6. InVTable(j)
      BY <3>5 DEF InVTable
    <3>7. logfile[o + 1] = KeySlot(j)
      BY <1>2, <3>4, <3>6 DEF RecordOwnedWhileAppending
    <3>8. Len(VTable[j].val_vec) \in 1 .. Len(VTable[j].val_vec)
      <4>1. VTable[j].val_vec \in Seq([value : Nat, version : Nat])
        BY <1>1, <1>2 DEF TypeOK, Entry
      <4> QED BY <3>6, <4>1, EmptySeq, LenProperties DEF InVTable
    <3>9. o \in Nat /\ o + 2 <= Len(logfile)
      BY <1>1, <1>2, <1>3, <3>8 DEF RecordsWhole
    <3>10. o + 1 \in 1 .. Len(logfile) /\ o + 1 \notin {pos + 1, pos + 2}
      <4> HIDE DEF o, n
      <4> QED BY <3>3, <3>4, <3>9
    <3>11. logfile'[o + 1] = logfile[o + 1]
      <4> HIDE DEF o
      <4> QED BY <3>10, SetLog
    <3> QED BY <3>5, <3>7, <3>11
  <2> QED BY <2>1, <2>2
<1> QED BY <1>5, <1>6, <1>7, <1>8, <1>9 DEF WInv

\* A step that leaves VTable, LevelDB and the log alone and moves the position
\* of the log, if at all, to a record boundary preserves the invariant.
LEMMA QuietOK ==
    ASSUME WInv, UNCHANGED <<index, logfile>>,
           pos' \in 0 .. Len(logfile), pos' % 2 = 0,
           compacted' \in BOOLEAN, GC' \in Nat
    PROVE  WInv'
<1>1. VTable' = VTable /\ leveldb' = leveldb /\ buffers' = buffers /\ logfile' = logfile
  BY DEF index
<1>2. TypeOK'
  BY <1>1 DEF WInv, TypeOK
<1>3. IndexConsistent'
  BY <1>1 DEF WInv, IndexConsistent, InVTable, AddressLive, Deref
<1>4. RecordsWhole'
  BY <1>1 DEF WInv, RecordsWhole
<1>5. RecordOwnedWhileAppending'
  BY <1>1 DEF WInv, RecordOwnedWhileAppending, InVTable
<1>6. LogBound' /\ SetsBound'
  BY <1>1 DEF WInv, LogBound, SetsBound
<1> QED BY <1>2, <1>3, <1>4, <1>5, <1>6 DEF WInv

\* A key that LevelDB holds has a newest version, and its record lies whole
\* inside the log.
LEMMA NewestRecord ==
    ASSUME WInv, NEW k \in Keys, InVTable(k)
    PROVE  LET n == Len(VTable[k].val_vec)
               o == VTable[k].val_vec[n].value
           IN  n \in 1 .. n /\ o \in Nat /\ o % 2 = 0 /\ o + 2 <= Len(logfile)
<1>1. VTable[k].val_vec \in Seq([value : Nat, version : Nat])
  BY DEF WInv, TypeOK, Entry, AllKeys
<1>2. Len(VTable[k].val_vec) \in 1 .. Len(VTable[k].val_vec)
  BY <1>1, EmptySeq, LenProperties DEF InVTable
<1>3. VTable[k].val_vec[Len(VTable[k].val_vec)] \in [value : Nat, version : Nat]
  BY <1>1, <1>2, ElementOfSeq
<1> QED BY <1>2, <1>3 DEF WInv, RecordsWhole

\* wisckey_get of a key that is there preserves the invariant.
LEMMA GetOK ==
    ASSUME WInv, NEW k \in Keys, wisckey_get(k)
    PROVE  WInv'
<1> DEFINE o == VTable[k].val_vec[Len(VTable[k].val_vec)].value
<1>1. leveldb[k] # NotFound /\ do_logfileGC
  BY DEF wisckey_get
<1>2. InVTable(k) /\ leveldb[k].idx = Len(VTable[k].val_vec)
  BY <1>1 DEF WInv, IndexConsistent, AllKeys
<1>3. pos' = o + 2 /\ UNCHANGED <<index, logfile>>
  BY <1>2 DEF wisckey_get, Deref
<1>4. o \in Nat /\ o % 2 = 0 /\ o + 2 <= Len(logfile)
  BY <1>2, NewestRecord
<1>5. Len(logfile) \in Nat
  BY LenProperties DEF WInv, TypeOK
<1> HIDE DEF o
<1>6. pos' \in 0 .. Len(logfile) /\ pos' % 2 = 0
  BY <1>3, <1>4, <1>5
<1>7. compacted' \in BOOLEAN /\ GC' \in Nat
  BY <1>1, CollectOK DEF WInv
<1> QED BY <1>3, <1>6, <1>7, QuietOK

\* wisckey_del preserves the invariant.
LEMMA DelOK ==
    ASSUME ~PutMayFail, WInv, NEW k \in Keys, wisckey_del(k)
    PROVE  WInv'
<1>1. k \in AllKeys /\ HeadKey \in AllKeys /\ k # HeadKey /\ Keys \subseteq AllKeys
  BY KeyAssumption DEF AllKeys
<1>2. /\ leveldb' = [leveldb EXCEPT ![k] = NotFound]
      /\ VTable' = [VTable EXCEPT ![k] = NoEntry]
      /\ buffers' = buffers /\ logfile' = logfile /\ pos' = pos
      /\ do_logfileGC
  BY DEF wisckey_del, leveldb_del, PutResults
<1>3. NoEntry \in Entry /\ NoEntry.val_vec = <<>> /\ Len(<<>>) = 0
  BY EmptySeq DEF NoEntry, Entry
<1>4. VTable \in [AllKeys -> Entry] /\ leveldb \in [AllKeys -> Address \cup {NotFound}]
  BY DEF WInv, TypeOK
<1>5. /\ VTable'[k] = NoEntry /\ leveldb'[k] = NotFound
      /\ \A j \in AllKeys \ {k} : VTable'[j] = VTable[j] /\ leveldb'[j] = leveldb[j]
  BY <1>1, <1>2, <1>4
<1>6. TypeOK'
  <2>1. VTable' \in [AllKeys -> Entry] /\ leveldb' \in [AllKeys -> Address \cup {NotFound}]
    BY <1>2, <1>3, <1>4
  <2>2. compacted' \in BOOLEAN /\ GC' \in Nat
    BY <1>2, CollectOK DEF WInv
  <2> QED BY <1>2, <2>1, <2>2 DEF WInv, TypeOK
<1>7. IndexConsistent'
  <2> SUFFICES ASSUME NEW j \in AllKeys
               PROVE  /\ leveldb'[j] = NotFound <=> ~InVTable(j)'
                      /\ leveldb'[j] # NotFound =>
                            /\ AddressLive(j, leveldb[j])'
                            /\ Deref(j, leveldb[j])'.version = VTable'[j].latest_ver
                            /\ leveldb'[j].idx = Len(VTable'[j].val_vec)
    BY DEF IndexConsistent
  <2>1. CASE j = k
    BY <1>3, <1>5, <2>1 DEF InVTable
  <2>2. CASE j # k
    <3>1. VTable'[j] = VTable[j] /\ leveldb'[j] = leveldb[j]
      BY <1>5, <2>2
    <3> QED BY <3>1 DEF WInv, IndexConsistent, InVTable, AddressLive, Deref
  <2> QED BY <2>1, <2>2
<1>8. RecordsWhole'
  <2>1. \A j \in Keys : \/ VTable'[j] = VTable[j]
                        \/ Len(VTable'[j].val_vec) = 0
    BY <1>1, <1>3, <1>5
  <2> QED BY <1>2, <2>1 DEF WInv, RecordsWhole
<1>9. RecordOwnedWhileAppending'
  <2>1. VTable'[HeadKey] = VTable[HeadKey]
    BY <1>1, <1>5
  <2>2. \A j \in Keys : VTable'[j] = VTable[j] \/ ~InVTable(j)'
    BY <1>1, <1>3, <1>5 DEF InVTable
  <2> QED BY <1>2, <2>1, <2>2 DEF WInv, RecordOwnedWhileAppending, InVTable
<1>10. LogBound' /\ SetsBound'
  <2>1. VTable'[HeadKey] = VTable[HeadKey]
    BY <1>1, <1>5
  <2> QED BY <1>2, <2>1 DEF WInv, LogBound, SetsBound
<1> QED BY <1>6, <1>7, <1>8, <1>9, <1>10 DEF WInv

\* Every step of the layer preserves the invariant.
LEMMA StepOK ==
    ASSUME ~PutMayFail, WInv, [Next]_vars
    PROVE  WInv'
<1>0. pos \in 0 .. Len(logfile) /\ pos % 2 = 0 /\ TypeOK /\ compacted \in BOOLEAN /\ GC \in Nat
  BY DEF WInv, TypeOK
<1>1. CASE \E k \in Keys : \E v \in Values : wisckey_set(k, v)
  BY <1>1, SetOK
<1>2. CASE \E k \in Keys : wisckey_get_missing(k)
  <2>1. UNCHANGED <<index, logfile, pos>> /\ do_logfileGC
    BY <1>2 DEF wisckey_get_missing
  <2>2. compacted' \in BOOLEAN /\ GC' \in Nat
    BY <1>0, <2>1, CollectOK
  <2>3. pos' = pos /\ UNCHANGED <<index, logfile>>
    BY <2>1
  <2>4. pos' \in 0 .. Len(logfile) /\ pos' % 2 = 0
    BY <1>0, <2>3
  <2> QED BY <2>2, <2>3, <2>4, QuietOK
<1>3. CASE \E k \in Keys : wisckey_get(k)
  BY <1>3, GetOK
<1>4. CASE \E k \in Keys : wisckey_del(k)
  BY <1>4, DelOK
<1>5. CASE BackgroundCompaction
  <2>1. UNCHANGED <<index, logfile>> /\ pos' = pos /\ compacted' \in BOOLEAN /\ GC' = GC
    BY <1>5 DEF BackgroundCompaction
  <2>2. pos' \in 0 .. Len(logfile) /\ pos' % 2 = 0 /\ GC' \in Nat
    BY <1>0, <2>1
  <2> QED BY <2>1, <2>2, QuietOK
<1>6. CASE UNCHANGED vars
  <2>1. UNCHANGED <<index, logfile>> /\ pos' = pos /\ compacted' = compacted /\ GC' = GC
    BY <1>6 DEF vars, index
  <2>2. pos' \in 0 .. Len(logfile) /\ pos' % 2 = 0 /\ GC' \in Nat /\ compacted' \in BOOLEAN
    BY <1>0, <2>1
  <2> QED BY <2>1, <2>2, QuietOK
<1> QED BY <1>1, <1>2, <1>3, <1>4, <1>5, <1>6 DEF Next

-----------------------------------------------------------------------------
\* LevelDB and VTable agree in every reachable state: a key is in both or in
\* neither, and the address in LevelDB leads to the newest version.
THEOREM IndexAlwaysConsistent ==
    ASSUME ~PutMayFail
    PROVE  Spec => []IndexConsistent
<1>1. WInv /\ [Next]_vars => WInv'
  BY StepOK
<1>2. WInv => IndexConsistent
  BY DEF WInv
<1> QED BY <1>1, <1>2, InitOK, PTL DEF Spec

\* In every reachable state the log consists of whole records, every version
\* points to one, and as long as no record was overwritten the record of a key
\* names that key.
THEOREM LogAlwaysWhole ==
    ASSUME ~PutMayFail
    PROVE  Spec => [](TypeOK /\ RecordsWhole /\ RecordOwnedWhileAppending)
<1>1. WInv /\ [Next]_vars => WInv'
  BY StepOK
<1>2. WInv => TypeOK /\ RecordsWhole /\ RecordOwnedWhileAppending
  BY DEF WInv
<1> QED BY <1>1, <1>2, InitOK, PTL DEF Spec

\* Under the invariant the chain of wisckey_get ends at the newest version.
Newest(k) == VTable[k].val_vec[Len(VTable[k].val_vec)].value

LEMMA LocatedNewest ==
    ASSUME IndexConsistent
    PROVE  Located = [k \in Keys |-> IF InVTable(k) THEN Newest(k) ELSE -1]
  BY DEF IndexConsistent, Located, AllKeys, Deref, Newest

\* A lookup of any kind leaves every binding of the index alone.
LEMMA QuietIndex ==
    ASSUME UNCHANGED index
    PROVE  UNCHANGED <<Located, buffers>>
  BY DEF index, Located, AddressLive, Deref

\* The layer implements the map: following LevelDB and VTable yields the
\* offset of the last wisckey_set of the key, and nothing after wisckey_del; no
\* set goes by without binding its key.
THEOREM ImplementsIndex ==
    ASSUME ~PutMayFail
    PROVE  Spec => IndexSpec
<1>1. WInv /\ [Next]_vars => WInv'
  BY StepOK
<1>2. Init => Index!Init
  <2> SUFFICES ASSUME Init PROVE Index!Init
    OBVIOUS
  <2>1. \A k \in Keys : leveldb[k] = NotFound
    BY DEF Init, AllKeys
  <2> QED BY <2>1 DEF Index!Init, Located
<1>3. ASSUME WInv, WInv', [Next]_vars
      PROVE  [IndexStep]_<<Located, buffers>>
  <2>0. /\ Located  = [k \in Keys |-> IF InVTable(k) THEN Newest(k) ELSE -1]
        /\ Located' = [k \in Keys |-> IF InVTable(k)' THEN Newest(k)' ELSE -1]
    <3>1. IndexConsistent /\ IndexConsistent'
      BY <1>3 DEF WInv
    <3>2. (IndexConsistent => Located = [k \in Keys |-> IF InVTable(k) THEN Newest(k) ELSE -1])'
      BY LocatedNewest, PTL
    <3> QED BY <3>1, <3>2, LocatedNewest
  <2>1. CASE \E k \in Keys : \E v \in Values : wisckey_set(k, v)
    <3> PICK k \in Keys, v \in Values : wisckey_set(k, v)
      BY <2>1
    <3>1. Located' = [Located EXCEPT ![k] = pos]
      <4>1. \A j \in Keys \ {k} : VTable'[j] = VTable[j]
        BY <1>3, SetEffect, KeyAssumption DEF AllKeys
      <4>2. VTable'[k].val_vec # <<>> /\ Newest(k)' = pos
        BY <1>3, SetEffect DEF Newest
      <4> QED BY <2>0, <4>1, <4>2 DEF InVTable, Newest
    <3>2. buffers' # buffers
      BY <1>3 DEF wisckey_set, leveldb_set, WInv, TypeOK
    <3> QED BY <3>1, <3>2 DEF Index!Put, IndexStep
  <2>2. CASE \E k \in Keys : wisckey_del(k)
    <3> PICK k \in Keys : wisckey_del(k)
      BY <2>2
    <3>1. VTable' = [VTable EXCEPT ![k] = NoEntry] /\ VTable \in [AllKeys -> Entry]
      BY <1>3 DEF wisckey_del, leveldb_del, WInv, TypeOK
    <3>2. VTable'[k].val_vec = <<>> /\ \A j \in Keys \ {k} : VTable'[j] = VTable[j]
      BY <3>1 DEF NoEntry, AllKeys
    <3>3. Located' = [Located EXCEPT ![k] = -1]
      BY <2>0, <3>2 DEF InVTable, Newest
    <3>4. buffers' = buffers
      BY DEF wisckey_del, leveldb_del
    <3> QED BY <3>3, <3>4 DEF Index!Delete, IndexStep
  <2>3. CASE \E k \in Keys : wisckey_get_missing(k) \/ wisckey_get(k)
    <3>1. UNCHANGED index
      BY <2>3 DEF wisckey_get_missing, wisckey_get
    <3> QED BY <3>1, QuietIndex
  <2>4. CASE BackgroundCompaction \/ UNCHANGED vars
    <3>1. UNCHANGED index
      BY <2>4 DEF BackgroundCompaction, vars, index
    <3> QED BY <3>1, QuietIndex
  <2> QED BY <1>3, <2>1, <2>2, <2>3, <2>4 DEF Next
<1> QED BY <1>1, <1>2, <1>3, InitOK, PTL DEF Spec, IndexSpec
=============================================================================
