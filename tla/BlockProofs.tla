---------------------------- MODULE BlockProofs ----------------------------
(***************************************************************************)
(* Proofs about what is kept for the basic blocks of a program.            *)
(*                                                                         *)
(* The first part is about their shadows (BBShadow), for any number of     *)
(* threads, blocks and pages: keys are unique, permanent and backed by a   *)
(* page, and the arrays a key leads to are complete when nobody is filling *)
(* them.                                                                   *)
(*                                                                         *)
(* The second is about the buffers their instrumentation fills             *)
(* (TraceBuffer), for any buffers, sizes and programs: no record is lost,  *)
(* doubled or out of order, as long as no operand of a gather or scatter   *)
(* is at hand, whose clean call does not store the pointer it has          *)
(* advanced; no record is written past the end of a buffer; and the share  *)
(* of operands that is sampled is the one asked for.                       *)
(***************************************************************************)
EXTENDS BBShadow, TraceBuffer, SequenceTheorems, DataInduction


Reserved == {"test", "lock", "number", "bound", "store", "unlock", "got"}
Locked   == Reserved \cup {"reserve"}
Adding   == {"number", "bound", "store", "unlock"}
KeyKnown == {"create", "fill", "instrument"}

BlockTypeOK ==
  /\ next_used \in Nat \ {0}
  /\ cur_max \in Nat
  /\ page1_last \in Nat
  /\ page1_cache \subseteq Nat
  /\ auto_add_lock \in Thread \cup {NoThread}
  /\ pc \in [Thread -> {"run", "meet"} \cup Locked \cup KeyKnown]
  /\ index \in [Thread -> Nat]
  /\ aborted \in BOOLEAN
  /\ mode \in Modes
  /\ bb_shadow_lock \in Thread \cup {NoThread}
  /\ key_table \in [BlockStart -> Nat]
  /\ ip_shadow \in [1 .. MaxIndex -> SUBSET Nat]
  /\ bb \in [Thread -> BlockStart]
  /\ slot \in [Thread -> Nat]
  /\ analysed \in [Thread -> BOOLEAN]
  /\ analyses \in Nat

(* Each lock is held by the thread that is between its taking and release. *)
LocksHeld ==
  \A t \in Thread :
    /\ pc[t] \in Locked <=> bb_shadow_lock = t
    /\ pc[t] \in Adding <=> auto_add_lock = t

(* The index a thread has reserved is above every key, its block is new. *)
KeysBelow ==
  /\ \A b \in BlockStart : key_table[b] < next_used /\ key_table[b] <= MaxIndex
  /\ \A t \in Thread :
       /\ pc[t] \in Reserved =>
            /\ index[t] = next_used - 1 /\ index[t] >= 1
            /\ \A b \in BlockStart : key_table[b] < index[t]
       /\ pc[t] \in Locked => IsNew(bb[t]) /\ ~ analysed[t]
       /\ pc[t] \in KeyKnown => ~ IsNew(bb[t])

(* The page table and the bound of the indices, of which the bound is the   *)
(* first to change, and how far a reserved index may be beyond it.          *)
PagesInOrder ==
  /\ \A t \in Thread :
       /\ pc[t] \in {"bound", "store"} => page1_cache = 0 .. (page1_last - 1)
       /\ pc[t] = "bound" => cur_max = page1_last * PageSize - 1
       /\ pc[t] \in {"test", "lock", "number", "bound"} => index[t] <= cur_max + 1
       /\ pc[t] = "store" => index[t] <= cur_max
       /\ pc[t] \in {"unlock", "got"} => index[t] <= cur_max
  /\ (\A t \in Thread : pc[t] \notin {"bound", "store"}) => page1_cache = 0 .. page1_last
  /\ (\A t \in Thread : pc[t] # "bound") => cur_max = (page1_last + 1) * PageSize - 1
  /\ (\A t \in Thread : pc[t] \notin Reserved) => next_used <= cur_max + 1
  /\ ~ aborted => page1_last < PageNum

(* The array of a key is complete, or about to be: the last thread to        *)
(* allocate it has filled every slot it has passed.                         *)
ArrayOK(b) ==
  \/ ip_shadow[key_table[b]] = Slots(b)
  \/ \E t \in Thread : bb[t] = b /\ pc[t] = "create" /\ Creates(t)
  \/ /\ ip_shadow[key_table[b]] \subseteq Slots(b)
     /\ \E t \in Thread : /\ bb[t] = b /\ pc[t] = "fill"
                          /\ 0 .. (slot[t] - 1) \subseteq ip_shadow[key_table[b]]

ArraysOK == \A b \in Keyed : ArrayOK(b)

SlotsAtZero == \A t \in Thread : pc[t] \in Locked \cup {"meet", "create"} => slot[t] = 0

OneBuilder ==
  mode.one_builder => \A t, u \in Thread : pc[t] # "run" /\ pc[u] # "run" => t = u

BBInv ==
  /\ BlockTypeOK
  /\ LocksHeld
  /\ KeysBelow
  /\ PagesInOrder
  /\ KeysBacked
  /\ OneKeyPerBlock
  /\ SlotsAtZero
  /\ ArraysOK
  /\ OneBuilder

-----------------------------------------------------------------------------
(* Arithmetic of pages.                                                    *)

LEMMA Sizes ==
  /\ PageNum \in Nat /\ PageNum >= 1 /\ PageSize \in Nat /\ PageSize >= 1
  /\ MaxIndex \in Nat
<1>1. PageNum \in Nat /\ PageNum >= 1 /\ PageSize \in Nat /\ PageSize >= 1
  BY SizeAssumption
<1>2. PageNum * PageSize >= 1 /\ PageNum * PageSize \in Nat
  BY <1>1
<1> QED
  BY <1>1, <1>2 DEF MaxIndex

LEMMA Times ==
  ASSUME NEW a \in Nat, NEW b \in Nat, a <= b
  PROVE  /\ a * PageSize \in Nat /\ b * PageSize \in Nat
         /\ a * PageSize <= b * PageSize
         /\ (a + 1) * PageSize = a * PageSize + PageSize
BY Sizes

(* An index not above the last of page p is on one of the pages up to p. *)
LEMMA PageBound ==
  ASSUME NEW i \in Nat, NEW p \in Nat, i <= (p + 1) * PageSize - 1
  PROVE  PageOf(i) \in 0 .. p
<1> DEFINE q == i \div PageSize
<1>1. q \in Nat /\ q * PageSize <= i
  BY Sizes
<1>2. q <= p
  <2> SUFFICES ASSUME p + 1 <= q PROVE FALSE
    BY <1>1
  <2>1. (p + 1) * PageSize <= q * PageSize
    BY <1>1, Times
  <2> QED
    BY <1>1, <2>1, Sizes, Times
<1> QED
  BY <1>1, <1>2 DEF PageOf

-----------------------------------------------------------------------------
(* Type correctness.                                                       *)

LEMMA TypeInit == BBInit => BlockTypeOK
<1> SUFFICES ASSUME BBInit PROVE BlockTypeOK
  OBVIOUS
<1>1. bb \in [Thread -> BlockStart]
  <2>1. (CHOOSE b \in BlockStart : TRUE) \in BlockStart
    BY BlockAssumption
  <2> QED
    BY <2>1 DEF BBInit
<1>2. ip_shadow \in [1 .. MaxIndex -> SUBSET Nat] /\ key_table \in [BlockStart -> Nat]
  BY DEF BBInit, NoKey
<1>3. /\ next_used \in Nat \ {0} /\ cur_max \in Nat /\ page1_last \in Nat
      /\ page1_cache \subseteq Nat
  BY Sizes DEF BBInit, InitCache
<1>4. /\ auto_add_lock \in Thread \cup {NoThread}
      /\ pc \in [Thread -> {"run", "meet"} \cup Locked \cup KeyKnown]
      /\ index \in [Thread -> Nat] /\ aborted \in BOOLEAN
  BY DEF BBInit, InitCache
<1>5. /\ mode \in Modes /\ bb_shadow_lock \in Thread \cup {NoThread}
      /\ slot \in [Thread -> Nat] /\ analysed \in [Thread -> BOOLEAN] /\ analyses \in Nat
  BY DEF BBInit
<1> QED
  BY <1>1, <1>2, <1>3, <1>4, <1>5 DEF BlockTypeOK

LEMMA TypeKept ==
  ASSUME BlockTypeOK, NEW t \in Thread, Step(t)
  PROVE  BlockTypeOK'
<1>1. ASSUME NEW b \in BlockStart, Build(t, b) PROVE BlockTypeOK'
  BY <1>1 DEF Build, Goto, pages, BlockTypeOK
<1>2. CASE LookUp(t)
  BY <1>2 DEF LookUp, UnchangedInLookUp, Goto, pages, BlockTypeOK, KeyKnown
<1>10. CASE LookUpNew(t)
  BY <1>10 DEF LookUpNew, LockShadow, UnchangedInLookUp, Goto, pages, BlockTypeOK, Locked
<1>3. ASSUME GetNextObject(t), UNCHANGED shadowVars PROVE BlockTypeOK'
  <2>1. CASE Reserve(t)
    BY <1>3, <2>1 DEF Reserve, AddOne, Goto, pages, shadowVars, BlockTypeOK, Locked, Reserved
  <2>2. CASE Test(t)
    BY <1>3, <2>2 DEF Test, Goto, pages, shadowVars, BlockTypeOK, Locked, Reserved
  <2>3. CASE LockAndTest(t)
    BY <1>3, <2>3 DEF LockAndTest, Goto, pages, shadowVars, BlockTypeOK, Locked, Reserved
  <2>4. CASE NumberPage(t)
    BY <1>3, <2>4 DEF NumberPage, Goto, shadowVars, BlockTypeOK, Locked, Reserved
  <2>5. CASE RaiseBound(t)
    BY <1>3, <2>5, Sizes DEF RaiseBound, Goto, shadowVars, BlockTypeOK, Locked, Reserved
  <2>6. CASE StorePage(t)
    BY <1>3, <2>6 DEF StorePage, Goto, shadowVars, BlockTypeOK, Locked, Reserved
  <2>7. CASE Unlock(t)
    BY <1>3, <2>7 DEF Unlock, Goto, pages, shadowVars, BlockTypeOK, Locked, Reserved
  <2> QED
    BY <1>3, <2>1, <2>2, <2>3, <2>4, <2>5, <2>6, <2>7 DEF GetNextObject
<1>4. CASE AddKey(t)
  BY <1>4 DEF AddKey, ReleaseShadow, Goto, pages, BlockTypeOK, KeyKnown
<1>5. CASE CreateCache(t)
  <2>1. ip_shadow' \in [1 .. MaxIndex -> SUBSET Nat]
    BY <1>5 DEF CreateCache, BlockTypeOK
  <2>2. pc' \in [Thread -> {"run", "meet"} \cup Locked \cup KeyKnown]
    BY <1>5 DEF CreateCache, Done, Goto, BlockTypeOK, KeyKnown
  <2>3. UNCHANGED slot /\ UnchangedInArrays
    BY <1>5 DEF CreateCache
  <2> QED
    BY <2>1, <2>2, <2>3 DEF UnchangedInArrays, pages, BlockTypeOK
<1>6. CASE FillSlot(t)
  <2>1. slot[t] \in Nat /\ slot' \in [Thread -> Nat]
    BY <1>6 DEF FillSlot, BlockTypeOK
  <2>2. UNCHANGED pc /\ UnchangedInArrays
    BY <1>6 DEF FillSlot
  <2>3. ip_shadow' \in [1 .. MaxIndex -> SUBSET Nat]
    <3> DEFINE k == key(t)
               filled == ip_shadow[k] \cup {slot[t]}
    <3>1. ip_shadow' = [ip_shadow EXCEPT ![k] = filled]
      BY <1>6 DEF FillSlot
    <3>2. k \in 1 .. MaxIndex => filled \in SUBSET Nat
      BY <2>1 DEF BlockTypeOK
    <3> HIDE DEF k, filled
    <3> QED
      BY <3>1, <3>2 DEF BlockTypeOK
  <2> QED
    BY <2>1, <2>2, <2>3 DEF UnchangedInArrays, pages, BlockTypeOK
<1>7. CASE Filled(t)
  BY <1>7 DEF Filled, Done, Goto, UnchangedInArrays, pages, BlockTypeOK, KeyKnown
<1>8. CASE QuerySlot(t)
  BY <1>8 DEF QuerySlot, UnchangedInArrays, pages, BlockTypeOK
<1>9. CASE Emit(t)
  BY <1>9 DEF Emit, Goto, UnchangedInArrays, pages, BlockTypeOK
<1> QED
  BY <1>1, <1>2, <1>3, <1>4, <1>5, <1>6, <1>7, <1>8, <1>9, <1>10 DEF Step

-----------------------------------------------------------------------------
(* The two locks.                                                          *)

LEMMA OneInside ==
  ASSUME LocksHeld, NEW t \in Thread, NEW u \in Thread, pc[t] \in Locked, pc[u] \in Locked
  PROVE  t = u
BY DEF LocksHeld

LEMMA LocksKept ==
  ASSUME BlockTypeOK, LocksHeld, NEW t \in Thread, Step(t)
  PROVE  LocksHeld'
<1> DEFINE Held(u) == /\ pc[u] \in Locked <=> bb_shadow_lock = u
                      /\ pc[u] \in Adding <=> auto_add_lock = u
<1> SUFFICES ASSUME NEW u \in Thread PROVE Held(u)'
  BY DEF LocksHeld
<1> USE SizeAssumption
<1>0. Held(u) /\ Held(t) /\ pc \in [Thread -> {"run", "meet"} \cup Locked \cup KeyKnown]
  BY DEF LocksHeld, BlockTypeOK
<1>1. ASSUME NEW b \in BlockStart, Build(t, b) PROVE Held(u)'
  BY <1>0, <1>1 DEF Build, Goto, Locked, Reserved, Adding
<1>2. CASE LookUp(t)
  BY <1>0, <1>2 DEF LookUp, UnchangedInLookUp, Goto, Locked, Reserved, Adding
<1>10. CASE LookUpNew(t)
  BY <1>0, <1>10 DEF LookUpNew, UnchangedInLookUp, LockShadow, Goto, Locked, Reserved, Adding
<1>3. ASSUME GetNextObject(t), UNCHANGED shadowVars PROVE Held(u)'
  <2>1. CASE Reserve(t)
    BY <1>0, <1>3, <2>1 DEF Reserve, Goto, shadowVars, Locked, Reserved, Adding
  <2>2. CASE Test(t)
    BY <1>0, <1>3, <2>2 DEF Test, Goto, shadowVars, Locked, Reserved, Adding
  <2>3. CASE LockAndTest(t)
    BY <1>0, <1>3, <2>3 DEF LockAndTest, Goto, shadowVars, Locked, Reserved, Adding
  <2>4. CASE NumberPage(t)
    BY <1>0, <1>3, <2>4 DEF NumberPage, Goto, shadowVars, Locked, Reserved, Adding
  <2>5. CASE RaiseBound(t)
    BY <1>0, <1>3, <2>5 DEF RaiseBound, Goto, shadowVars, Locked, Reserved, Adding
  <2>6. CASE StorePage(t)
    BY <1>0, <1>3, <2>6 DEF StorePage, Goto, shadowVars, Locked, Reserved, Adding
  <2>7. CASE Unlock(t)
    BY <1>0, <1>3, <2>7 DEF Unlock, Goto, shadowVars, Locked, Reserved, Adding
  <2> QED
    BY <1>3, <2>1, <2>2, <2>3, <2>4, <2>5, <2>6, <2>7 DEF GetNextObject
<1>4. CASE AddKey(t)
  BY <1>0, <1>4 DEF AddKey, ReleaseShadow, Goto, Locked, Reserved, Adding
<1>5. CASE CreateCache(t)
  BY <1>0, <1>5 DEF CreateCache, Done, Goto, UnchangedInArrays, Locked, Reserved, Adding
<1>6. CASE FillSlot(t)
  BY <1>0, <1>6 DEF FillSlot, UnchangedInArrays
<1>7. CASE Filled(t)
  BY <1>0, <1>7 DEF Filled, Done, Goto, UnchangedInArrays, Locked, Reserved, Adding
<1>8. CASE QuerySlot(t)
  BY <1>0, <1>8 DEF QuerySlot, UnchangedInArrays
<1>9. CASE Emit(t)
  BY <1>0, <1>9 DEF Emit, Goto, UnchangedInArrays, Locked, Reserved, Adding
<1> QED
  BY <1>1, <1>2, <1>3, <1>4, <1>5, <1>6, <1>7, <1>8, <1>9, <1>10 DEF Step

-----------------------------------------------------------------------------
(* Keys.                                                                   *)

(* What a thread does before its index is a key is done by no other thread. *)
LEMMA KeysKeptBelow ==
  ASSUME BlockTypeOK, LocksHeld, KeysBelow, PagesInOrder, ~ aborted, NEW t \in Thread, Step(t)
  PROVE  KeysBelow'
<1> DEFINE Above(u) ==
             /\ pc[u] \in Reserved =>
                  /\ index[u] = next_used - 1 /\ index[u] >= 1
                  /\ \A b \in BlockStart : key_table[b] < index[u]
             /\ pc[u] \in Locked => IsNew(bb[u]) /\ ~ analysed[u]
             /\ pc[u] \in KeyKnown => ~ IsNew(bb[u])
           Low == \A b \in BlockStart : key_table[b] < next_used /\ key_table[b] <= MaxIndex
<1> SUFFICES ASSUME NEW u \in Thread PROVE Low' /\ Above(u)'
  BY DEF KeysBelow
<1>0. /\ Low /\ Above(u) /\ Above(t)
      /\ pc[t] \in Locked /\ pc[u] \in Locked => t = u
      /\ pc \in [Thread -> {"run", "meet"} \cup Locked \cup KeyKnown]
      /\ index \in [Thread -> Nat] /\ next_used \in Nat \ {0} /\ bb \in [Thread -> BlockStart]
      /\ key_table \in [BlockStart -> Nat] /\ analysed \in [Thread -> BOOLEAN]
  BY OneInside DEF KeysBelow, BlockTypeOK
<1>1. ASSUME NEW b \in BlockStart, Build(t, b) PROVE Low' /\ Above(u)'
  BY <1>0, <1>1 DEF Build, Goto, Locked, Reserved, KeyKnown, IsNew
<1>10. CASE LookUp(t)
  BY <1>0, <1>10 DEF LookUp, UnchangedInLookUp, Goto, Locked, Reserved, KeyKnown, IsNew
<1>2. CASE LookUpNew(t)
  <2>1. UNCHANGED <<next_used, key_table, index, bb>>
    BY <1>2 DEF LookUpNew, UnchangedInLookUp
  <2>2. CASE u = t
    BY <1>0, <1>2, <2>1, <2>2 DEF LookUpNew, Goto, Locked, Reserved, KeyKnown, IsNew
  <2>3. CASE u # t
    BY <1>0, <1>2, <2>1, <2>3 DEF LookUpNew, Goto, IsNew
  <2> QED
    BY <2>2, <2>3
<1>3. ASSUME GetNextObject(t), UNCHANGED shadowVars PROVE Low' /\ Above(u)'
  <2>1. CASE Reserve(t)
    <3>1. Low'
      BY <1>0, <1>3, <2>1 DEF Reserve, AddOne, shadowVars
    <3>2. CASE u = t
      <4>1. /\ index'[t] = next_used /\ next_used' = next_used + 1 /\ pc'[t] = "test"
            /\ UNCHANGED <<key_table, bb, analysed>> /\ pc[t] = "reserve"
        BY <1>0, <1>3, <2>1 DEF Reserve, AddOne, Goto, shadowVars
      <4> QED
        <5>1. index'[t] = next_used' - 1 /\ index'[t] >= 1
              /\ \A b \in BlockStart : key_table'[b] < index'[t]
          BY <1>0, <4>1
        <5>2. pc[t] \in Locked /\ pc'[t] \notin KeyKnown
          BY <4>1 DEF Locked, KeyKnown
        <5>3. IsNew(bb[t])' /\ ~ analysed'[t]
          BY <1>0, <4>1, <5>2 DEF IsNew
        <5> QED
          BY <3>1, <3>2, <5>1, <5>2, <5>3
    <3>3. CASE u # t
      BY <1>0, <1>3, <2>1, <3>1, <3>3 DEF Reserve, Goto, shadowVars, Locked, Reserved, IsNew
    <3> QED
      BY <3>1, <3>2, <3>3
  <2>2. ASSUME UNCHANGED <<next_used, index>>, pc[t] \in Reserved,
               NEW x \in Reserved, pc' = [pc EXCEPT ![t] = x]
        PROVE  Low' /\ Above(u)'
    BY <1>0, <1>3, <2>2 DEF shadowVars, Locked, Reserved, KeyKnown, IsNew
  <2>3. CASE Test(t)
    BY <2>2, <2>3 DEF Test, Goto, Reserved
  <2>4. CASE LockAndTest(t)
    BY <2>2, <2>4 DEF LockAndTest, Goto, Reserved
  <2>5. CASE NumberPage(t)
    BY <2>2, <2>5 DEF NumberPage, Goto, Reserved
  <2>6. CASE RaiseBound(t)
    BY <2>2, <2>6 DEF RaiseBound, Goto, Reserved
  <2>7. CASE StorePage(t)
    BY <2>2, <2>7 DEF StorePage, Goto, Reserved
  <2>8. CASE Unlock(t)
    BY <2>2, <2>8 DEF Unlock, Goto, Reserved
  <2> QED
    BY <1>3, <2>1, <2>3, <2>4, <2>5, <2>6, <2>7, <2>8 DEF GetNextObject
<1>4. CASE AddKey(t)
  <2>1. index[t] <= MaxIndex
    <3>1. /\ index[t] <= cur_max /\ cur_max = (page1_last + 1) * PageSize - 1
          /\ page1_last + 1 <= PageNum /\ page1_last \in Nat /\ index[t] \in Nat
      <4>1. \A v \in Thread : pc[v] # "bound"
        BY <1>4, OneInside DEF AddKey, Locked, Reserved
      <4>2. pc[t] = "got"
        BY <1>4 DEF AddKey
      <4> QED
        BY <4>1, <4>2, Sizes DEF PagesInOrder, BlockTypeOK
    <3>2. (page1_last + 1) * PageSize <= PageNum * PageSize
      BY <3>1, Times, Sizes
    <3>3. (page1_last + 1) * PageSize \in Nat /\ PageNum * PageSize \in Nat
      BY <3>1, Times, Sizes
    <3> QED
      BY <3>1, <3>2, <3>3 DEF MaxIndex
  <2>2. /\ key_table' = [key_table EXCEPT ![bb[t]] = index[t]]
        /\ pc' = [pc EXCEPT ![t] = "create"] /\ index' = [index EXCEPT ![t] = 0]
        /\ UNCHANGED <<next_used, bb, analysed>> /\ pc[t] = "got"
    BY <1>4 DEF AddKey, Goto
  <2>3. Low'
    BY <1>0, <2>1, <2>2 DEF Reserved
  <2>4. CASE u = t
    <3>1. pc'[t] = "create" /\ bb'[t] = bb[t] /\ index[t] >= 1
      BY <1>0, <2>2 DEF Reserved
    <3>2. key_table'[bb[t]] = index[t]
      BY <1>0, <2>2
    <3> QED
      <4>1. pc'[t] \notin Reserved /\ pc'[t] \notin Locked
        BY <3>1 DEF Locked, Reserved
      <4>2. ~ IsNew(bb[t])'
        BY <3>1, <3>2 DEF IsNew, NoKey
      <4> QED
        BY <2>3, <2>4, <4>1, <4>2
  <2>5. CASE u # t
    <3>1. pc'[u] = pc[u] /\ pc[u] \notin Locked /\ bb'[u] = bb[u]
      BY <1>0, <2>2, <2>5 DEF Locked, Reserved
    <3>2. key_table'[bb[u]] = key_table[bb[u]] \/ key_table'[bb[u]] = index[t]
      BY <1>0, <2>2
    <3>3. index[t] >= 1
      BY <1>0, <2>2 DEF Reserved
    <3> QED
      <4>1. pc'[u] \notin Reserved /\ pc'[u] \notin Locked
        BY <3>1 DEF Locked
      <4>2. ~ IsNew(bb[u]) => ~ IsNew(bb[u])'
        BY <3>1, <3>2, <3>3 DEF IsNew, NoKey
      <4> QED
        BY <1>0, <2>3, <3>1, <4>1, <4>2
  <2> QED
    BY <2>4, <2>5
<1>5. ASSUME UnchangedInArrays, NEW x \in KeyKnown \cup {"run"}, pc[t] \in KeyKnown,
             pc' = [pc EXCEPT ![t] = x]
      PROVE  Low' /\ Above(u)'
  BY <1>0, <1>5 DEF UnchangedInArrays, Locked, Reserved, KeyKnown, IsNew
<1>6. CASE CreateCache(t)
  BY <1>5, <1>6 DEF CreateCache, Done, Goto, KeyKnown
<1>7. CASE FillSlot(t) \/ QuerySlot(t)
  BY <1>0, <1>7 DEF FillSlot, QuerySlot, UnchangedInArrays, IsNew
<1>8. CASE Filled(t)
  BY <1>5, <1>8 DEF Filled, Done, Goto, KeyKnown
<1>9. CASE Emit(t)
  BY <1>5, <1>9 DEF Emit, Goto, KeyKnown
<1> QED
  BY <1>1, <1>2, <1>3, <1>4, <1>6, <1>7, <1>8, <1>9, <1>10 DEF Step

-----------------------------------------------------------------------------
(* Pages.                                                                  *)

(* A page is numbered, counted into the bound and entered in the table by  *)
(* one thread at a time, and an index is never more than one past the last *)
(* that the bound allows.                                                  *)
LEMMA PagesKeptInOrder ==
  ASSUME BlockTypeOK, LocksHeld, KeysBelow, PagesInOrder, ~ aborted, NEW t \in Thread, Step(t)
  PROVE  PagesInOrder'
<1>0. /\ pc \in [Thread -> {"run", "meet"} \cup Locked \cup KeyKnown]
      /\ index \in [Thread -> Nat] /\ next_used \in Nat /\ cur_max \in Nat /\ page1_last \in Nat
      /\ page1_last < PageNum
      /\ \A u \in Thread : u # t /\ pc[t] \in Locked => pc[u] \notin Locked
  BY OneInside DEF BlockTypeOK, PagesInOrder
<1>1. ASSUME UNCHANGED <<pages, index, next_used, aborted>>,
             NEW x \in KeyKnown \cup {"run", "meet", "reserve"},
             pc[t] \in KeyKnown \cup {"run", "meet"},
             pc' = [pc EXCEPT ![t] = x]
      PROVE  PagesInOrder'
  <2>1. \A u \in Thread : pc'[u] = pc[u] \/ (u = t /\ pc'[u] \notin Reserved /\ pc[u] \notin Reserved)
    BY <1>0, <1>1 DEF KeyKnown, Reserved
  <2>2. UNCHANGED <<cur_max, page1_last, page1_cache, index, next_used, aborted>>
    BY <1>1 DEF pages
  <2> QED
    BY <2>1, <2>2 DEF PagesInOrder, Reserved
<1>2. ASSUME NEW b \in BlockStart, Build(t, b) PROVE PagesInOrder'
  BY <1>1, <1>2 DEF Build, Goto
<1>3. CASE LookUp(t)
  BY <1>1, <1>3 DEF LookUp, UnchangedInLookUp, Goto, KeyKnown
<1>10. CASE LookUpNew(t)
  BY <1>1, <1>10 DEF LookUpNew, UnchangedInLookUp, Goto
<1>4. CASE AddKey(t)
  <2>1. /\ pc[t] = "got" /\ pc' = [pc EXCEPT ![t] = "create"]
        /\ index' = [index EXCEPT ![t] = 0]
        /\ UNCHANGED <<cur_max, page1_last, page1_cache, next_used, aborted>>
    BY <1>4 DEF AddKey, Goto, pages
  <2>2. next_used <= cur_max + 1
    BY <1>0, <2>1 DEF PagesInOrder, KeysBelow, Reserved
  <2>3. /\ pc'[t] = "create"
        /\ \A u \in Thread \ {t} : pc'[u] = pc[u] /\ pc[u] \notin Locked /\ index'[u] = index[u]
    BY <1>0, <2>1 DEF Locked, Reserved
  <2>4. \A u \in Thread : pc[u] \notin {"bound", "store"}
    BY <2>1, <2>3 DEF Locked, Reserved
  <2> QED
    BY <2>1, <2>2, <2>3, <2>4 DEF PagesInOrder, Locked, Reserved
<1>5. ASSUME GetNextObject(t) PROVE PagesInOrder'
  <2>0. \A u \in Thread : u # t => pc[u] \notin Locked
    BY <1>0, <1>5 DEF GetNextObject, Reserve, Test, LockAndTest, NumberPage, RaiseBound,
                      StorePage, Unlock, Locked, Reserved
  <2>1. CASE Reserve(t)
    <3>1. /\ pc[t] = "reserve" /\ pc'[t] = "test" /\ index'[t] = next_used
          /\ next_used' = next_used + 1
          /\ \A u \in Thread \ {t} : pc'[u] = pc[u] /\ index'[u] = index[u]
          /\ UNCHANGED <<cur_max, page1_last, page1_cache>>
      BY <1>0, <2>1 DEF Reserve, AddOne, Goto, pages
    <3>2. next_used <= cur_max + 1
      BY <2>0, <3>1 DEF PagesInOrder, Locked, Reserved
    <3> QED
      BY <1>0, <2>0, <3>1, <3>2 DEF PagesInOrder, Locked, Reserved
  <2>2. ASSUME UNCHANGED <<index, next_used, pages, aborted>>, pc[t] \in {"test", "lock"},
               NEW x \in {"lock", "number", "unlock", "got"}, pc' = [pc EXCEPT ![t] = x],
               x \in {"unlock", "got"} => index[t] < cur_max
        PROVE  PagesInOrder'
    <3>1. /\ pc'[t] = x /\ \A u \in Thread \ {t} : pc'[u] = pc[u]
          /\ UNCHANGED <<cur_max, page1_last, page1_cache>>
      BY <1>0, <2>2 DEF pages
    <3> QED
      BY <1>0, <2>0, <2>2, <3>1 DEF PagesInOrder, Locked, Reserved
  <2>3. CASE Test(t)
    BY <1>0, <2>2, <2>3 DEF Test, NeedsPage, Goto
  <2>4. CASE LockAndTest(t)
    BY <1>0, <2>2, <2>4 DEF LockAndTest, NeedsPage, Goto
  <2>5. CASE NumberPage(t)
    <3>1. /\ pc[t] = "number" /\ pc'[t] = "bound" /\ page1_last' = page1_last + 1
          /\ aborted' = (page1_last + 1 >= PageNum)
          /\ \A u \in Thread \ {t} : pc'[u] = pc[u]
          /\ UNCHANGED <<next_used, cur_max, page1_cache, index>>
      BY <1>0, <2>5 DEF NumberPage, Goto
    <3>2. page1_cache = 0 .. page1_last /\ cur_max = (page1_last + 1) * PageSize - 1
      BY <2>0, <3>1 DEF PagesInOrder, Locked, Reserved
    <3>3. page1_cache' = 0 .. (page1_last' - 1) /\ cur_max' = page1_last' * PageSize - 1
      BY <1>0, <3>1, <3>2
    <3>4. ~ aborted' => page1_last' < PageNum
      <4>1. page1_last + 1 >= PageNum => aborted'
        BY <2>5, Zenon DEF NumberPage
      <4> QED
        BY <1>0, <3>1, <4>1, Sizes
    <3>5. index'[t] <= cur_max' + 1
      BY <3>1 DEF PagesInOrder
    <3> QED
      BY <2>0, <3>1, <3>3, <3>4, <3>5 DEF PagesInOrder, Locked, Reserved
  <2>6. CASE RaiseBound(t)
    <3>1. /\ pc[t] = "bound" /\ pc'[t] = "store" /\ cur_max' = cur_max + PageSize
          /\ \A u \in Thread \ {t} : pc'[u] = pc[u]
          /\ UNCHANGED <<next_used, page1_last, page1_cache, index, aborted>>
      BY <1>0, <2>6 DEF RaiseBound, Goto
    <3>2. cur_max = page1_last * PageSize - 1 /\ index[t] <= cur_max + 1
      BY <3>1 DEF PagesInOrder
    <3>3. cur_max' = (page1_last + 1) * PageSize - 1 /\ index[t] <= cur_max'
      BY <1>0, <3>1, <3>2, Sizes, Times
    <3> QED
      BY <1>0, <2>0, <3>1, <3>3 DEF PagesInOrder, Locked, Reserved
  <2>7. CASE StorePage(t)
    <3>1. /\ pc[t] = "store" /\ pc'[t] = "unlock"
          /\ page1_cache' = page1_cache \cup {page1_last}
          /\ \A u \in Thread \ {t} : pc'[u] = pc[u]
          /\ UNCHANGED <<next_used, cur_max, page1_last, index, aborted>>
      BY <1>0, <2>7 DEF StorePage, Goto
    <3>2. page1_cache = 0 .. (page1_last - 1)
      BY <3>1 DEF PagesInOrder
    <3>3. page1_cache' = 0 .. page1_last
      BY <1>0, <3>1, <3>2
    <3> QED
      BY <1>0, <2>0, <3>1, <3>3 DEF PagesInOrder, Locked, Reserved
  <2>8. CASE Unlock(t)
    <3>1. /\ pc[t] = "unlock" /\ pc'[t] = "got"
          /\ \A u \in Thread \ {t} : pc'[u] = pc[u]
          /\ UNCHANGED <<next_used, cur_max, page1_last, page1_cache, index, aborted>>
      BY <1>0, <2>8 DEF Unlock, Goto, pages
    <3> QED
      BY <1>0, <2>0, <3>1 DEF PagesInOrder, Locked, Reserved
  <2> QED
    BY <1>5, <2>1, <2>3, <2>4, <2>5, <2>6, <2>7, <2>8 DEF GetNextObject
<1>6. CASE CreateCache(t)
  BY <1>1, <1>6 DEF CreateCache, Done, Goto, UnchangedInArrays, KeyKnown
<1>7. CASE FillSlot(t) \/ QuerySlot(t)
  BY <1>7 DEF FillSlot, QuerySlot, UnchangedInArrays, pages, PagesInOrder
<1>8. CASE Filled(t)
  BY <1>1, <1>8 DEF Filled, Done, Goto, UnchangedInArrays, KeyKnown
<1>9. CASE Emit(t)
  BY <1>1, <1>9 DEF Emit, Goto, UnchangedInArrays, KeyKnown
<1> QED
  BY <1>2, <1>3, <1>4, <1>5, <1>6, <1>7, <1>8, <1>9, <1>10 DEF Step

(* The key that is entered lies on a page of the table; no page leaves it. *)
LEMMA KeysKeptBacked ==
  ASSUME BlockTypeOK, LocksHeld, KeysBelow, PagesInOrder, KeysBacked, NEW t \in Thread, Step(t)
  PROVE  KeysBacked'
<1>1. page1_cache \subseteq page1_cache'
  BY DEF Step, Build, LookUp, LookUpNew, UnchangedInLookUp, GetNextObject, Reserve, Test, LockAndTest, NumberPage,
         RaiseBound, StorePage, Unlock, AddKey, CreateCache, FillSlot, Filled, QuerySlot, Emit,
         UnchangedInArrays, pages
<1>2. CASE AddKey(t)
  <2>1. /\ pc[t] = "got" /\ key_table' = [key_table EXCEPT ![bb[t]] = index[t]]
        /\ page1_cache' = page1_cache
    BY <1>2 DEF AddKey, pages
  <2>2. \A u \in Thread : pc[u] \notin {"bound", "store"}
    BY <2>1, OneInside DEF Locked, Reserved
  <2>3. /\ page1_cache = 0 .. page1_last /\ cur_max = (page1_last + 1) * PageSize - 1
        /\ index[t] <= cur_max /\ index[t] \in Nat /\ page1_last \in Nat
    BY <2>1, <2>2 DEF PagesInOrder, BlockTypeOK
  <2>4. PageOf(index[t]) \in page1_cache
    BY <2>3, PageBound
  <2> QED
    BY <2>1, <2>4 DEF KeysBacked, Keyed, BlockTypeOK
<1>3. CASE UNCHANGED key_table
  BY <1>1, <1>3 DEF KeysBacked, Keyed
<1> QED
  BY <1>2, <1>3 DEF Step, Build, LookUp, LookUpNew, UnchangedInLookUp, GetNextObject, shadowVars, CreateCache,
                    FillSlot, Filled, QuerySlot, Emit, UnchangedInArrays

(* A key is above every key that was there before. *)
LEMMA KeysKeptApart ==
  ASSUME BlockTypeOK, KeysBelow, OneKeyPerBlock, NEW t \in Thread, Step(t)
  PROVE  OneKeyPerBlock'
<1>1. CASE AddKey(t)
  <2>1. pc[t] = "got" /\ key_table' = [key_table EXCEPT ![bb[t]] = index[t]]
    BY <1>1 DEF AddKey
  <2>2. \A b \in BlockStart : key_table[b] < index[t]
    BY <2>1 DEF KeysBelow, Reserved
  <2> QED
    BY <2>1, <2>2 DEF OneKeyPerBlock, Keyed, BlockTypeOK
<1>2. CASE UNCHANGED key_table
  BY <1>2 DEF OneKeyPerBlock, Keyed
<1> QED
  BY <1>1, <1>2 DEF Step, Build, LookUp, LookUpNew, UnchangedInLookUp, GetNextObject, shadowVars, CreateCache,
                    FillSlot, Filled, QuerySlot, Emit, UnchangedInArrays

-----------------------------------------------------------------------------
(* Arrays.                                                                 *)

LEMMA SlotsStartAtZero ==
  ASSUME BlockTypeOK, SlotsAtZero, NEW t \in Thread, Step(t)
  PROVE  SlotsAtZero'
<1>0. pc \in [Thread -> {"run", "meet"} \cup Locked \cup KeyKnown] /\ slot \in [Thread -> Nat]
  BY DEF BlockTypeOK
<1>1. ASSUME NEW b \in BlockStart, Build(t, b) PROVE SlotsAtZero'
  BY <1>0, <1>1 DEF Build, Goto, SlotsAtZero
<1>2. ASSUME pc[t] \in Locked \cup {"meet"}, UNCHANGED slot, NEW x \in Locked \cup {"create"},
             pc' = [pc EXCEPT ![t] = x]
      PROVE  SlotsAtZero'
  BY <1>0, <1>2 DEF SlotsAtZero
<1>3. CASE GetNextObject(t) /\ UNCHANGED shadowVars
  BY <1>2, <1>3 DEF GetNextObject, Reserve, Test, LockAndTest, NumberPage, RaiseBound, StorePage,
                    Unlock, Goto, shadowVars, Locked, Reserved
<1>4. CASE AddKey(t)
  BY <1>2, <1>4 DEF AddKey, Goto, Locked, Reserved
<1>10. CASE LookUp(t) \/ LookUpNew(t)
  BY <1>2, <1>10 DEF LookUp, LookUpNew, UnchangedInLookUp, Goto, Locked
<1>5. ASSUME NEW x \in {"fill", "instrument", "run"}, pc' = [pc EXCEPT ![t] = x],
             \A u \in Thread \ {t} : slot'[u] = slot[u]
      PROVE  SlotsAtZero'
  BY <1>0, <1>5 DEF SlotsAtZero, Locked, Reserved
<1>6. CASE CreateCache(t)
  BY <1>5, <1>6 DEF CreateCache, Done, Goto
<1>7. CASE FillSlot(t) \/ QuerySlot(t)
  BY <1>0, <1>7 DEF FillSlot, QuerySlot, SlotsAtZero, Locked, Reserved
<1>8. CASE Filled(t)
  BY <1>0, <1>5, <1>8 DEF Filled, Done, Goto
<1>9. CASE Emit(t)
  BY <1>5, <1>9 DEF Emit, Goto
<1> QED
  BY <1>1, <1>3, <1>4, <1>6, <1>7, <1>8, <1>9, <1>10 DEF Step

(* What a thread does to the array of its block it does to no other, and a *)
(* thread that leaves an array incomplete leaves somebody at work on it.   *)
LEMMA ArraysKept ==
  ASSUME BlockTypeOK, LocksHeld, KeysBelow, OneKeyPerBlock, SlotsAtZero, ArraysOK,
         NEW t \in Thread, Step(t)
  PROVE  ArraysOK'
<1>0. /\ pc \in [Thread -> {"run", "meet"} \cup Locked \cup KeyKnown] /\ slot \in [Thread -> Nat]
      /\ bb \in [Thread -> BlockStart] /\ key_table \in [BlockStart -> Nat]
      /\ analysed \in [Thread -> BOOLEAN] /\ ip_shadow \in [1 .. MaxIndex -> SUBSET Nat]
      /\ \A b \in BlockStart : SlotNum[b] \in Nat
  BY BlockAssumption DEF BlockTypeOK
<1> DEFINE Worker(b, u) ==
             /\ bb[u] = b
             /\ \/ pc[u] = "create" /\ Creates(u)
                \/ /\ pc[u] = "fill" /\ ip_shadow[key_table[b]] \subseteq Slots(b)
                   /\ 0 .. (slot[u] - 1) \subseteq ip_shadow[key_table[b]]
           Good(b) == ip_shadow[key_table[b]] = Slots(b) \/ \E u \in Thread : Worker(b, u)
<1>1. \A b \in Keyed : Good(b)
  BY DEF ArraysOK, ArrayOK
<1> SUFFICES ASSUME NEW b \in BlockStart, b \in Keyed' PROVE Good(b)'
  BY DEF ArraysOK, ArrayOK, Keyed
<1>2. ASSUME b \in Keyed, UNCHANGED <<mode, key_table, ip_shadow>>,
             pc[t] \notin {"create", "fill"},
             \A u \in Thread \ {t} : /\ pc'[u] = pc[u] /\ bb'[u] = bb[u]
                                     /\ slot'[u] = slot[u] /\ analysed'[u] = analysed[u]
      PROVE  Good(b)'
  <2>1. CASE ip_shadow[key_table[b]] = Slots(b)
    BY <1>2, <2>1 DEF Slots
  <2>2. ASSUME NEW u \in Thread, Worker(b, u) PROVE Good(b)'
    <3>1. u # t
      BY <1>2, <2>2
    <3> QED
      BY <1>2, <2>2, <3>1 DEF Creates, Slots
  <2> QED
    BY <1>1, <1>2, <2>1, <2>2
<1>3. ASSUME NEW c \in BlockStart, Build(t, c) PROVE Good(b)'
  BY <1>0, <1>2, <1>3 DEF Build, Goto, Keyed
<1>13. CASE LookUp(t) \/ LookUpNew(t)
  BY <1>0, <1>2, <1>13 DEF LookUp, LookUpNew, UnchangedInLookUp, Goto, Keyed
<1>4. CASE GetNextObject(t) /\ UNCHANGED shadowVars
  <2>1. pc[t] \in Locked /\ \A u \in Thread \ {t} : pc'[u] = pc[u]
    BY <1>0, <1>4 DEF GetNextObject, Reserve, Test, LockAndTest, NumberPage, RaiseBound,
                      StorePage, Unlock, Goto, Locked, Reserved
  <2> QED
    BY <1>2, <1>4, <2>1 DEF shadowVars, Keyed, Locked, Reserved
<1>5. CASE AddKey(t)
  <2>1. /\ pc[t] = "got" /\ pc'[t] = "create" /\ ~ analysed[t]
        /\ UNCHANGED <<mode, ip_shadow, bb, slot, analysed>>
        /\ key_table' = [key_table EXCEPT ![bb[t]] = index[t]]
        /\ \A u \in Thread \ {t} : pc'[u] = pc[u]
    BY <1>0, <1>5 DEF AddKey, Goto, KeysBelow, Locked, Reserved
  <2>2. CASE b = bb[t]
    BY <2>1, <2>2 DEF Creates
  <2>3. CASE b # bb[t]
    <3>1. b \in Keyed /\ key_table'[b] = key_table[b]
      BY <1>0, <2>1, <2>3 DEF Keyed
    <3>2. CASE ip_shadow[key_table[b]] = Slots(b)
      BY <2>1, <3>1, <3>2 DEF Slots
    <3>3. ASSUME NEW u \in Thread, Worker(b, u) PROVE Good(b)'
      BY <2>1, <2>3, <3>1, <3>3 DEF Creates, Slots
    <3> QED
      BY <1>1, <3>1, <3>2, <3>3
  <2> QED
    BY <2>2, <2>3
(* The block whose array is being made has a key no other block has.       *)
<1>6. ASSUME pc[t] \in {"create", "fill"}
      PROVE  /\ bb[t] \in Keyed /\ key(t) \in 1 .. MaxIndex
             /\ b # bb[t] /\ b \in Keyed => key_table[b] # key(t)
  BY <1>0, <1>6, Sizes DEF KeysBelow, KeyKnown, IsNew, Keyed, NoKey, OneKeyPerBlock, key
<1>7. ASSUME pc[t] \in {"create", "fill"}, b # bb[t], UnchangedInArrays,
             \A k \in 1 .. MaxIndex : k # key(t) => ip_shadow'[k] = ip_shadow[k],
             \A u \in Thread \ {t} : pc'[u] = pc[u] /\ slot'[u] = slot[u]
      PROVE  Good(b)'
  <2>1. UNCHANGED <<mode, key_table, bb, analysed>> /\ b \in Keyed
    BY <1>7 DEF UnchangedInArrays, Keyed
  <2>2. key_table[b] \in 1 .. MaxIndex
    BY <1>0, <2>1, Sizes DEF KeysBelow, Keyed, NoKey
  <2>3. ip_shadow'[key_table'[b]] = ip_shadow[key_table[b]]
    BY <1>6, <1>7, <2>1, <2>2
  <2>4. CASE ip_shadow[key_table[b]] = Slots(b)
    BY <2>3, <2>4 DEF Slots
  <2>5. ASSUME NEW u \in Thread, Worker(b, u) PROVE Good(b)'
    BY <1>7, <2>1, <2>3, <2>5 DEF Creates, Slots
  <2> QED
    BY <1>1, <2>1, <2>4, <2>5
<1>8. CASE CreateCache(t)
  <2>0. /\ pc[t] = "create" /\ UNCHANGED slot /\ UnchangedInArrays /\ slot[t] = 0
        /\ \A u \in Thread \ {t} : pc'[u] = pc[u]
        /\ UNCHANGED <<mode, key_table, bb, analysed>>
    BY <1>0, <1>8 DEF CreateCache, Done, Goto, SlotsAtZero, UnchangedInArrays
  <2>1. CASE b # bb[t]
    BY <1>0, <1>7, <1>8, <2>0, <2>1 DEF CreateCache
  <2>2. CASE b = bb[t] /\ Creates(t)
    <3>1. pc'[t] = "fill" /\ ip_shadow' = [ip_shadow EXCEPT ![key(t)] = {}]
      BY <1>0, <1>8, <2>2 DEF CreateCache, Creates, Fills, Goto
    <3>2. ip_shadow'[key_table'[b]] = {}
      BY <1>0, <1>6, <2>0, <2>2, <3>1 DEF key
    <3> QED
      BY <2>0, <2>2, <3>1, <3>2
  <2>3. CASE b = bb[t] /\ ~ Creates(t)
    <3>1. UNCHANGED ip_shadow
      BY <1>8, <2>3 DEF CreateCache
    <3>2. b \in Keyed
      BY <1>6, <2>0, <2>3
    <3>3. CASE ip_shadow[key_table[b]] = Slots(b)
      BY <2>0, <3>1, <3>3 DEF Slots
    <3>4. ASSUME NEW u \in Thread, Worker(b, u) PROVE Good(b)'
      BY <2>0, <2>3, <3>1, <3>4 DEF Creates, Slots
    <3> QED
      BY <1>1, <3>2, <3>3, <3>4
  <2> QED
    BY <2>1, <2>2, <2>3
<1>9. CASE FillSlot(t)
  <2>0. /\ pc[t] = "fill" /\ slot[t] < SlotNum[bb[t]] /\ UNCHANGED pc /\ UnchangedInArrays
        /\ ip_shadow' = [ip_shadow EXCEPT ![key(t)] = ip_shadow[key(t)] \cup {slot[t]}]
        /\ slot' = [slot EXCEPT ![t] = slot[t] + 1]
        /\ UNCHANGED <<mode, key_table, bb, analysed>>
    BY <1>9 DEF FillSlot, UnchangedInArrays
  <2>1. CASE b # bb[t]
    BY <1>0, <1>7, <2>0, <2>1
  <2>2. CASE b = bb[t]
    <3>1. b \in Keyed /\ ip_shadow'[key_table'[b]] = ip_shadow[key_table[b]] \cup {slot[t]}
      BY <1>0, <1>6, <2>0, <2>2 DEF key
    <3>2. slot[t] \in Slots(b)
      BY <1>0, <2>0, <2>2 DEF Slots
    <3>3. CASE ip_shadow[key_table[b]] = Slots(b)
      BY <3>1, <3>2, <3>3 DEF Slots
    <3>4. ASSUME NEW u \in Thread, Worker(b, u) PROVE Good(b)'
      <4>1. CASE pc[u] = "create" /\ Creates(u)
        BY <2>0, <3>4, <4>1 DEF Creates
      <4>2. CASE pc[u] = "fill"
        <5>1. ip_shadow[key_table[b]] \cup {slot[t]} \subseteq Slots(b)
          BY <3>2, <3>4, <4>2
        <5>2. 0 .. (slot'[u] - 1) \subseteq ip_shadow[key_table[b]] \cup {slot[t]}
          BY <1>0, <2>0, <3>4, <4>2
        <5> QED
          BY <2>0, <3>1, <3>4, <4>2, <5>1, <5>2 DEF Slots
      <4> QED
        BY <3>4, <4>1, <4>2
    <3> QED
      BY <1>1, <3>1, <3>3, <3>4
  <2> QED
    BY <2>1, <2>2
<1>10. CASE Filled(t)
  <2>0. /\ pc[t] = "fill" /\ slot[t] = SlotNum[bb[t]] /\ UnchangedInArrays
        /\ UNCHANGED <<ip_shadow, mode, key_table, bb, analysed>>
        /\ \A u \in Thread \ {t} : pc'[u] = pc[u] /\ slot'[u] = slot[u]
    BY <1>0, <1>10 DEF Filled, Done, Goto, UnchangedInArrays
  <2>1. b \in Keyed
    BY <2>0 DEF Keyed
  <2>2. CASE ip_shadow[key_table[b]] = Slots(b)
    BY <2>0, <2>2 DEF Slots
  <2>3. ASSUME NEW u \in Thread, Worker(b, u) PROVE Good(b)'
    <3>1. CASE u = t
      <4>1. ip_shadow[key_table[b]] = Slots(b)
        BY <1>0, <2>0, <2>3, <3>1 DEF Slots
      <4> QED
        BY <2>0, <4>1 DEF Slots
    <3>2. CASE u # t
      BY <2>0, <2>3, <3>2 DEF Creates, Slots
    <3> QED
      BY <3>1, <3>2
  <2> QED
    BY <1>1, <2>1, <2>2, <2>3
<1>11. CASE QuerySlot(t)
  BY <1>0, <1>2, <1>11 DEF QuerySlot, UnchangedInArrays, Keyed
<1>12. CASE Emit(t)
  BY <1>0, <1>2, <1>12 DEF Emit, Goto, UnchangedInArrays, Keyed
<1> QED
  BY <1>3, <1>4, <1>5, <1>8, <1>9, <1>10, <1>11, <1>12, <1>13 DEF Step

LEMMA OneBuilderKept ==
  ASSUME BlockTypeOK, OneBuilder, NEW t \in Thread, Step(t)
  PROVE  OneBuilder'
<1>0. pc \in [Thread -> {"run", "meet"} \cup Locked \cup KeyKnown]
  BY DEF BlockTypeOK
<1>1. UNCHANGED mode /\ \A u \in Thread \ {t} : pc'[u] = pc[u]
  BY <1>0 DEF Step, Build, LookUp, LookUpNew, UnchangedInLookUp, GetNextObject, Reserve, Test, LockAndTest,
              NumberPage, RaiseBound, StorePage, Unlock, AddKey, CreateCache, Done, FillSlot,
              Filled, QuerySlot, Emit, Goto, shadowVars, UnchangedInArrays
<1>2. ASSUME NEW b \in BlockStart, Build(t, b) PROVE OneBuilder'
  BY <1>1, <1>2 DEF Build, OneBuilder
<1>3. CASE pc[t] # "run"
  BY <1>1, <1>3 DEF OneBuilder
<1> QED
  BY <1>2, <1>3 DEF Step, LookUp, LookUpNew, GetNextObject, Reserve, Test, LockAndTest,
                    NumberPage, RaiseBound, StorePage, Unlock, AddKey, CreateCache, FillSlot,
                    Filled, QuerySlot, Emit

-----------------------------------------------------------------------------
(* The invariant and the theorems.                                         *)

LEMMA BBInvInit == BBInit => BBInv
<1> SUFFICES ASSUME BBInit PROVE BBInv
  OBVIOUS
<1>1. /\ \A t \in Thread : pc[t] = "run"
      /\ \A b \in BlockStart : key_table[b] = 0
      /\ bb_shadow_lock = NoThread /\ auto_add_lock = NoThread
      /\ next_used = 1 /\ cur_max = PageSize - 1 /\ page1_last = 0 /\ page1_cache = {0}
  BY DEF BBInit, InitCache, NoKey
<1>2. BlockTypeOK
  BY TypeInit
<1>3. LocksHeld
  BY <1>1, SizeAssumption DEF LocksHeld, Locked, Reserved, Adding
<1>4. KeysBelow
  BY <1>1, Sizes DEF KeysBelow, Locked, Reserved, KeyKnown
<1>5. PagesInOrder
  <2>1. page1_cache = 0 .. page1_last /\ cur_max = (page1_last + 1) * PageSize - 1
    BY <1>1, Sizes
  <2>2. next_used <= cur_max + 1 /\ page1_last < PageNum
    BY <1>1, Sizes
  <2> QED
    BY <1>1, <2>1, <2>2 DEF PagesInOrder
<1>6. KeysBacked /\ OneKeyPerBlock /\ ArraysOK
  BY <1>1 DEF KeysBacked, OneKeyPerBlock, ArraysOK, Keyed, NoKey
<1>7. SlotsAtZero /\ OneBuilder
  BY <1>1 DEF SlotsAtZero, OneBuilder, Locked, Reserved
<1> QED
  BY <1>2, <1>3, <1>4, <1>5, <1>6, <1>7 DEF BBInv

LEMMA InvKept == BBInv /\ [BBNext]_bbVars => BBInv'
<1> SUFFICES ASSUME BBInv, [BBNext]_bbVars PROVE BBInv'
  OBVIOUS
<1>1. ASSUME ~ aborted, NEW t \in Thread, Step(t) PROVE BBInv'
  <2> USE <1>1 DEF BBInv
  <2>1. BlockTypeOK' /\ LocksHeld'
    BY TypeKept, LocksKept
  <2>2. KeysBelow' /\ PagesInOrder'
    BY KeysKeptBelow, PagesKeptInOrder
  <2>3. KeysBacked' /\ OneKeyPerBlock'
    BY KeysKeptBacked, KeysKeptApart
  <2>4. SlotsAtZero' /\ ArraysOK' /\ OneBuilder'
    BY SlotsStartAtZero, ArraysKept, OneBuilderKept
  <2> QED
    BY <2>1, <2>2, <2>3, <2>4
<1>2. CASE UNCHANGED bbVars
  <2> USE <1>2 DEF bbVars, cacheVars, shadowVars, pages, BBInv
  <2>1. BlockTypeOK'
    BY DEF BlockTypeOK
  <2>2. LocksHeld'
    <3>1. /\ pc' = pc
          /\ bb_shadow_lock' = bb_shadow_lock
          /\ auto_add_lock' = auto_add_lock
      OBVIOUS
    <3>2. LocksHeld
      OBVIOUS
    <3> QED
      BY ONLY <3>1, <3>2 DEF LocksHeld
  <2>3. KeysBelow'
    BY DEF KeysBelow, IsNew
  <2>4. PagesInOrder'
    BY DEF PagesInOrder
  <2>5. KeysBacked' /\ OneKeyPerBlock'
    BY DEF KeysBacked, OneKeyPerBlock, Keyed
  <2>6. SlotsAtZero' /\ ArraysOK' /\ OneBuilder'
    BY SMTT(30) DEF SlotsAtZero, ArraysOK, ArrayOK, Keyed, Creates, Slots, OneBuilder
  <2> QED
    BY <2>1, <2>2, <2>3, <2>4, <2>5, <2>6
<1> QED
  BY <1>1, <1>2 DEF BBNext

LEMMA InvAlways == BBSpec => []BBInv
BY BBInvInit, InvKept, PTL DEF BBSpec

(* The fields of the shared cache, its locks and the arrays keep their     *)
(* types: no key is beyond the last object the page table can hold.        *)
THEOREM BlockTypeCorrect == BBSpec => []BlockTypeOK
<1>1. BBInv => BlockTypeOK
  BY DEF BBInv
<1> QED
  BY <1>1, InvAlways, PTL

(* However many threads meet new blocks at once, no two blocks get one     *)
(* key: the index a thread reserves is above every key in the table, and   *)
(* bb_shadow_lock is held until the key is there.                          *)
THEOREM KeysAreUnique == BBSpec => []OneKeyPerBlock
<1>1. BBInv => OneKeyPerBlock
  BY DEF BBInv
<1> QED
  BY <1>1, InvAlways, PTL

(* A key that get_object_by_index can be asked for without a lock leads to *)
(* a page that init_new_page2 has entered in the page table.               *)
THEOREM KeysHavePages == BBSpec => []KeysBacked
<1>1. BBInv => KeysBacked
  BY DEF BBInv
<1> QED
  BY <1>1, InvAlways, PTL

(* A block keeps the key it was first given, which the nodes of the tree   *)
(* go on to use.                                                           *)
THEOREM KeysArePermanent == BBSpec => KeysKept
<1>1. BBInv /\ [BBNext]_bbVars => [\A b \in Keyed : key_table'[b] = key_table[b]]_bbVars
  <2> SUFFICES ASSUME BBInv, NEW t \in Thread, Step(t), NEW b \in Keyed
               PROVE  key_table'[b] = key_table[b]
    BY DEF BBNext
  <2>1. CASE AddKey(t)
    <3>1. IsNew(bb[t]) /\ key_table' = [key_table EXCEPT ![bb[t]] = index[t]]
      BY <2>1 DEF AddKey, BBInv, KeysBelow, Locked, Reserved
    <3> QED
      BY <3>1 DEF IsNew, Keyed, BBInv, BlockTypeOK
  <2>2. CASE UNCHANGED key_table
    BY <2>2
  <2> QED
    BY <2>1, <2>2 DEF Step, Build, LookUp, LookUpNew, UnchangedInLookUp, GetNextObject, shadowVars, CreateCache,
                      FillSlot, Filled, QuerySlot, Emit, UnchangedInArrays
<1> QED
  BY <1>1, InvAlways, PTL DEF BBSpec, KeysKept

(* Whoever swapped whose array: when no thread analyses a block any more,  *)
(* its array has the address of every instrumented instruction.            *)
THEOREM ArraysComplete == BBSpec => []CompleteWhenQuiet
<1>1. BBInv => CompleteWhenQuiet
  BY DEF BBInv, ArraysOK, ArrayOK, CompleteWhenQuiet, Analysing
<1> QED
  BY <1>1, InvAlways, PTL

(* When DynamoRIO builds blocks one at a time, drcctlib_query_slot finds   *)
(* the instruction it is asked for.                                        *)
THEOREM QueriesAreAnswered == BBSpec => []QuerySlotFound
<1>1. BBInv => QuerySlotFound
  <2> SUFFICES ASSUME BBInv, mode.one_builder, NEW t \in Thread, pc[t] = "instrument",
                      slot[t] < SlotNum[bb[t]]
               PROVE  slot[t] \in ip_shadow[key(t)]
    BY DEF QuerySlotFound
  <2>1. bb[t] \in Keyed /\ slot[t] \in Nat /\ SlotNum[bb[t]] \in Nat
    BY BlockAssumption DEF BBInv, BlockTypeOK, KeysBelow, KeyKnown, IsNew, Keyed
  <2>2. \A u \in Thread : pc[u] \notin {"create", "fill"}
    BY DEF BBInv, OneBuilder
  <2>3. ip_shadow[key(t)] = Slots(bb[t])
    BY <2>1, <2>2 DEF BBInv, ArraysOK, ArrayOK, key
  <2> QED
    BY <2>1, <2>3 DEF Slots
<1> QED
  BY <1>1, InvAlways, PTL
-----------------------------------------------------------------------------

(* The first n records of a buffer.                                        *)
Upto(n) == [i \in 1 .. n |-> i]

BuffersTypeOK ==
  /\ recorded \in [Buffer -> Nat]
  /\ held \in [Buffer -> Seq(Nat)]
  /\ delivered \in [Buffer -> Seq(Nat)]

IInv == BuffersTypeOK /\ RecordsKept

(* The pointer of the next record's buffer will be stored.                 *)
NoGatherNow == todo # <<>> => Head(todo).forward

-----------------------------------------------------------------------------
LEMMA UptoFacts ==
  ASSUME NEW n \in Nat
  PROVE  Upto(n) \in Seq(Nat) /\ Len(Upto(n)) = n /\ \A i \in 1 .. n : Upto(n)[i] = i
<1>1. Upto(n) \in [1 .. n -> Nat] /\ \A i \in 1 .. n : Upto(n)[i] = i
  BY DEF Upto
<1> HIDE DEF Upto
<1>2. Upto(n) \in Seq(Nat)
  BY <1>1, SeqDef
<1> QED
  BY <1>1, <1>2, LenProperties

LEMMA UptoZero == Upto(0) = <<>>
<1>1. Upto(0) \in Seq(Nat) /\ Len(Upto(0)) = 0
  BY UptoFacts
<1> HIDE DEF Upto
<1> QED
  BY <1>1, EmptySeq

(* One more record behind those that are kept.                             *)
LEMMA RecordAppended ==
  ASSUME NEW d \in Seq(Nat), NEW h \in Seq(Nat), NEW n \in Nat, d \o h = Upto(n)
  PROVE  d \o Append(h, n + 1) = Upto(n + 1) /\ Append(h, n + 1) \in Seq(Nat)
<1> DEFINE a == Append(h, n + 1)
           u == Upto(n)
           v == Upto(n + 1)
<1>1. /\ u \in Seq(Nat) /\ Len(u) = n /\ \A i \in 1 .. n : u[i] = i
      /\ v \in Seq(Nat) /\ Len(v) = n + 1 /\ \A i \in 1 .. n + 1 : v[i] = i
  BY UptoFacts
<1>2. /\ Len(d) \in Nat /\ Len(h) \in Nat /\ Len(d) + Len(h) = n
      /\ \A i \in 1 .. n : u[i] = IF i <= Len(d) THEN d[i] ELSE h[i - Len(d)]
  BY <1>1, ConcatProperties, LenProperties
<1>3. /\ a \in Seq(Nat) /\ Len(a) = Len(h) + 1
      /\ \A i \in 1 .. Len(h) : a[i] = h[i]
      /\ a[Len(h) + 1] = n + 1
  BY <1>2, AppendProperties
<1> HIDE DEF a, u, v
<1>4. /\ d \o a \in Seq(Nat) /\ Len(d \o a) = n + 1
      /\ \A i \in 1 .. n + 1 : (d \o a)[i] = IF i <= Len(d) THEN d[i] ELSE a[i - Len(d)]
  BY <1>2, <1>3, ConcatProperties
<1>5. ASSUME NEW i \in 1 .. n + 1 PROVE (d \o a)[i] = v[i]
  <2>0. (d \o a)[i] = (IF i <= Len(d) THEN d[i] ELSE a[i - Len(d)]) /\ v[i] = i
    BY <1>1, <1>4
  <2>1. CASE i <= Len(d)
    <3>1. i \in 1 .. n /\ u[i] = i
      BY <1>1, <1>2, <2>1
    <3> QED
      BY <1>2, <2>0, <2>1, <3>1
  <2>2. CASE i > Len(d) /\ i <= n
    <3>1. (d \o a)[i] = a[i - Len(d)] /\ v[i] = i
      BY <1>2, <2>0, <2>2
    <3>2. i - Len(d) \in 1 .. Len(h) /\ i \in 1 .. n /\ ~(i <= Len(d))
      BY <1>2, <2>2
    <3>3. u[i] = h[i - Len(d)] /\ u[i] = i
      BY <1>1, <1>2, <3>2
    <3>4. a[i - Len(d)] = h[i - Len(d)]
      BY <1>3, <3>2
    <3> QED
      BY <3>1, <3>3, <3>4
  <2>3. CASE i = n + 1
    <3>1. i - Len(d) = Len(h) + 1 /\ ~(i <= Len(d))
      BY <1>2, <2>3
    <3>2. (d \o a)[i] = a[Len(h) + 1] /\ v[i] = i
      BY <2>0, <3>1
    <3> QED
      BY <1>3, <2>3, <3>2
  <2>4. i <= Len(d) \/ (i > Len(d) /\ i <= n) \/ i = n + 1
    BY <1>2
  <2> QED
    BY <2>1, <2>2, <2>3, <2>4
<1>6. d \o a = v
  BY <1>1, <1>4, <1>5, SeqEqual
<1> QED
  BY <1>3, <1>6 DEF a, v

(* What is delivered and what is held, together, are untouched by a drain. *)
LEMMA DrainKeeps ==
  ASSUME BuffersTypeOK, NEW bs, Drain(bs)
  PROVE  /\ held' \in [Buffer -> Seq(Nat)] /\ delivered' \in [Buffer -> Seq(Nat)]
         /\ \A b \in Buffer : delivered'[b] \o held'[b] = delivered[b] \o held[b]
         /\ \A b \in Buffer : b \in bs => held'[b] = <<>>
<1>1. <<>> \in Seq(Nat)
  BY EmptySeq
<1>2. ASSUME NEW b \in Buffer
      PROVE  /\ delivered'[b] = delivered[b] \o (IF b \in bs THEN held[b] ELSE <<>>)
             /\ held'[b] = IF b \in bs THEN <<>> ELSE held[b]
             /\ delivered[b] \in Seq(Nat) /\ held[b] \in Seq(Nat)
  BY DEF Drain, BuffersTypeOK
<1>3. ASSUME NEW b \in Buffer
      PROVE  /\ delivered'[b] \in Seq(Nat) /\ held'[b] \in Seq(Nat)
             /\ delivered'[b] \o held'[b] = delivered[b] \o held[b]
             /\ b \in bs => held'[b] = <<>>
  <2>1. CASE b \in bs
    <3>1. delivered'[b] = delivered[b] \o held[b] /\ held'[b] = <<>>
      BY <1>2, <2>1
    <3>2. delivered[b] \o held[b] \in Seq(Nat)
      BY <1>2, ConcatProperties
    <3>3. (delivered[b] \o held[b]) \o <<>> = delivered[b] \o held[b]
      BY <3>2, ConcatEmptySeq
    <3> QED
      BY <1>1, <3>1, <3>2, <3>3
  <2>2. CASE b \notin bs
    <3>1. delivered'[b] = delivered[b] \o <<>> /\ held'[b] = held[b]
      BY <1>2, <2>2
    <3>2. delivered[b] \o <<>> = delivered[b]
      BY <1>2, ConcatEmptySeq
    <3> QED
      BY <1>2, <2>2, <3>1, <3>2
  <2> QED
    BY <2>1, <2>2
<1>4. DOMAIN held' = Buffer /\ DOMAIN delivered' = Buffer
      /\ held' = [b \in Buffer |-> held'[b]] /\ delivered' = [b \in Buffer |-> delivered'[b]]
  BY DEF Drain
<1> QED
  BY <1>3, <1>4

LEMMA InvInit == Init => IInv
<1> SUFFICES ASSUME Init PROVE IInv
  OBVIOUS
<1>1. <<>> \in Seq(Nat) /\ <<>> \o <<>> = <<>>
  BY EmptySeq, ConcatEmptySeq
<1>2. ASSUME NEW b \in Buffer
      PROVE  delivered[b] \o held[b] = [n \in 1 .. recorded[b] |-> n]
  BY <1>1, UptoZero DEF Init, Upto
<1>3. phase # "exited"
  BY DEF Init
<1> QED
  BY <1>1, <1>2, <1>3 DEF IInv, BuffersTypeOK, RecordsKept, Init

LEMMA StepKeeps ==
  ASSUME IInv, NoGatherNow, [Next]_vars
  PROVE  IInv'
<1>1. BuffersTypeOK /\ \A b \in Buffer : delivered[b] \o held[b] = Upto(recorded[b])
  BY DEF IInv, RecordsKept, Upto
<1>7. ASSUME recorded' = recorded, phase' # "exited", \E bs : Drain(bs)
      PROVE  IInv'
  <2>1. PICK bs : Drain(bs)
    BY <1>7
  <2>2. /\ held' \in [Buffer -> Seq(Nat)] /\ delivered' \in [Buffer -> Seq(Nat)]
        /\ \A b \in Buffer : delivered'[b] \o held'[b] = Upto(recorded'[b])
    BY <1>1, <1>7, <2>1, DrainKeeps
  <2> QED
    BY <1>1, <1>7, <2>2 DEF IInv, BuffersTypeOK, RecordsKept, Upto
<1>8. ASSUME UNCHANGED <<recorded, held, delivered>>, phase' # "exited" \/ phase' = phase
      PROVE  IInv'
  BY <1>8 DEF IInv, BuffersTypeOK, RecordsKept
<1>2. CASE \E blk \in Block : EnterBlock(blk)
  <2>1. PICK blk \in Block : EnterBlock(blk)
    BY <1>2
  <2>2. phase' = "block" /\ recorded' = recorded /\ ((\E bs : Drain(bs)) \/ UNCHANGED buffers)
    BY <2>1 DEF EnterBlock
  <2> QED
    BY <1>7, <1>8, <2>2 DEF buffers
<1>3. CASE Record
  <2> DEFINE c == Head(todo).buf
  <2>1. /\ recorded' = [recorded EXCEPT ![c] = recorded[c] + 1]
        /\ held' = [held EXCEPT ![c] = Append(held[c], recorded[c] + 1)]
        /\ delivered' = delivered /\ phase' = "block"
    BY <1>3 DEF Record, NoGatherNow
  <2> HIDE DEF c
  <2>2. ASSUME NEW b \in Buffer
        PROVE  /\ recorded'[b] \in Nat /\ held'[b] \in Seq(Nat)
               /\ delivered'[b] \o held'[b] = Upto(recorded'[b])
    <3>1. /\ recorded[b] \in Nat /\ held[b] \in Seq(Nat) /\ delivered[b] \in Seq(Nat)
          /\ delivered[b] \o held[b] = Upto(recorded[b])
      BY <1>1 DEF BuffersTypeOK
    <3>2. CASE b = c
      <4>1. recorded'[b] = recorded[b] + 1 /\ held'[b] = Append(held[b], recorded[b] + 1)
        BY <1>1, <2>1, <3>2 DEF BuffersTypeOK
      <4>2. delivered[b] \o Append(held[b], recorded[b] + 1) = Upto(recorded[b] + 1)
            /\ Append(held[b], recorded[b] + 1) \in Seq(Nat)
        BY <3>1, RecordAppended
      <4>3. recorded[b] + 1 \in Nat
        BY <3>1
      <4> QED
        BY <2>1, <4>1, <4>2, <4>3
    <3>3. CASE b # c
      <4>1. recorded'[b] = recorded[b] /\ held'[b] = held[b]
        BY <1>1, <2>1, <3>3 DEF BuffersTypeOK
      <4> QED
        BY <2>1, <3>1, <4>1
    <3> QED
      BY <3>2, <3>3
  <2>3. /\ recorded' = [b \in Buffer |-> recorded'[b]] /\ held' = [b \in Buffer |-> held'[b]]
        /\ delivered' \in [Buffer -> Seq(Nat)]
    BY <1>1, <2>1 DEF BuffersTypeOK
  <2>4. BuffersTypeOK'
    <3>1. recorded' \in [Buffer -> Nat]
      BY <2>2, <2>3
    <3>2. held' \in [Buffer -> Seq(Nat)]
      BY <2>2, <2>3
    <3> QED
      BY <2>3, <3>1, <3>2 DEF BuffersTypeOK
  <2> QED
    BY <2>1, <2>2, <2>4 DEF IInv, RecordsKept, Upto
<1>4. CASE LeaveBlock
  BY <1>4, <1>8 DEF LeaveBlock, buffers
<1>5. CASE ThreadExit
  <2>1. Drain(Buffer) /\ recorded' = recorded
    BY <1>5 DEF ThreadExit, LastDrain
  <2>2. /\ held' \in [Buffer -> Seq(Nat)] /\ delivered' \in [Buffer -> Seq(Nat)]
        /\ \A b \in Buffer : /\ delivered'[b] \o held'[b] = Upto(recorded'[b])
                             /\ held'[b] = <<>>
    BY <1>1, <2>1, DrainKeeps
  <2> QED
    BY <1>1, <2>1, <2>2 DEF IInv, BuffersTypeOK, RecordsKept, Upto
<1>6. CASE UNCHANGED vars
  BY <1>6, <1>8 DEF vars, buffers
<1> QED
  BY <1>2, <1>3, <1>4, <1>5, <1>6 DEF Next

(* Every operand executed leaves its record, once and in order, with the   *)
(* client or in the buffer, for any program whose gathers and scatters do  *)
(* not run: insert_buf_check, the code around the operands and the exit of *)
(* the thread drop nothing, wherever exceptions leave the blocks.          *)
THEOREM RecordsReachClient == Spec /\ []NoGatherNow => []RecordsKept
<1>1. IInv /\ NoGatherNow /\ [Next]_vars => IInv'
  BY StepKeeps
<1>2. IInv => RecordsKept
  BY DEF IInv
<1> QED
  BY <1>1, <1>2, InvInit, PTL DEF Spec

-----------------------------------------------------------------------------
(* What the instrumentation of a block leaves to be appended.              *)
Rec == [buf : Buffer, forward : BOOLEAN]

(* How many of the records are for a buffer.                               *)
Counted(b, rs) == Cardinality({j \in DOMAIN rs : rs[j].buf = b})

(* A client that does not trace the registers of addresses, whose records  *)
(* the estimate leaves out, and blocks none of which appends more than an  *)
(* empty buffer holds or than the estimate can count.                      *)
EmptyBuffersSuffice ==
  /\ ~RegInMemref
  /\ \A blk \in Block : \A b \in Buffer :
       LET bytes == Counted(b, Instrumented(blk)) * RecordSize[b]
       IN bytes <= BufSize[b] /\ bytes < ScratchWidth

(* The facts about sequences that the proofs below need.                   *)
LEMMA SeqFacts ==
  ASSUME NEW V, NEW s \in Seq(V)
  PROVE  /\ Len(s) \in Nat /\ DOMAIN s = 1 .. Len(s) /\ s \in [1 .. Len(s) -> V]
         /\ \A i \in 1 .. Len(s) : s[i] \in V
BY LenProperties, ElementOfSeq

(* A set of indices can be counted.                                        *)
LEMMA FiniteIndices ==
  ASSUME NEW n \in Nat, NEW T \in SUBSET (1 .. n)
  PROVE  IsFiniteSet(T) /\ Cardinality(T) \in Nat
<1>1. IsFiniteSet(1 .. n)
  BY FS_Interval
<1> DEFINE S == 1 .. n
<1> HIDE DEF S
<1>2. IsFiniteSet(T)
  BY <1>1, FS_Subset DEF S
<1> QED
  BY <1>2, FS_CardinalityType

(* Nothing occurs in the empty sequence.                                   *)
LEMMA OccurrencesNone ==
  ASSUME NEW b
  PROVE  Occurrences(b, <<>>) = 0
<1>1. {j \in DOMAIN <<>> : <<>>[j] = b} = {}
  OBVIOUS
<1> QED
  BY <1>1, FS_EmptySet DEF Occurrences

(* Occurrences in two sequences add up.                                    *)
LEMMA OccurrencesConcat ==
  ASSUME NEW V, NEW s \in Seq(V), NEW t \in Seq(V), NEW b
  PROVE  /\ Occurrences(b, s \o t) = Occurrences(b, s) + Occurrences(b, t)
         /\ Occurrences(b, s) \in Nat /\ Occurrences(b, t) \in Nat
<1> DEFINE m == Len(s)
           n == Len(t)
           A == {j \in 1 .. m : s[j] = b}
           B == {j \in 1 .. n : t[j] = b}
           C == {m + j : j \in B}
           u == s \o t
<1>1. m \in Nat /\ n \in Nat /\ DOMAIN s = 1 .. m /\ DOMAIN t = 1 .. n
  BY SeqFacts
<1>2. /\ u \in Seq(V) /\ Len(u) = m + n /\ DOMAIN u = 1 .. m + n
      /\ \A i \in 1 .. m + n : u[i] = IF i <= m THEN s[i] ELSE t[i - m]
  BY <1>1, ConcatProperties, LenProperties
<1> HIDE DEF u, m, n
<1>3. {j \in 1 .. m + n : u[j] = b} = A \cup C
  <2>1. ASSUME NEW j \in 1 .. m + n, u[j] = b PROVE j \in A \cup C
    <3>1. CASE j <= m
      BY <1>1, <1>2, <2>1, <3>1
    <3>2. CASE ~(j <= m)
      <4>1. j - m \in 1 .. n /\ t[j - m] = b /\ m + (j - m) = j
        BY <1>1, <1>2, <2>1, <3>2
      <4> QED
        BY <4>1
    <3> QED
      BY <3>1, <3>2
  <2>2. ASSUME NEW j \in A PROVE j \in 1 .. m + n /\ u[j] = b
    BY <1>1, <1>2
  <2>3. ASSUME NEW j \in B PROVE m + j \in 1 .. m + n /\ u[m + j] = b
    <3>1. m + j \in 1 .. m + n /\ ~(m + j <= m) /\ (m + j) - m = j
      BY <1>1
    <3> QED
      BY <1>2, <3>1
  <2> QED
    BY <2>1, <2>2, <2>3
<1>4. IsFiniteSet(A) /\ IsFiniteSet(B) /\ Cardinality(A) \in Nat /\ Cardinality(B) \in Nat
  BY <1>1, FiniteIndices
<1>5. IsFiniteSet(C) /\ Cardinality(C) = Cardinality(B)
  <2> DEFINE f == [j \in B |-> m + j]
  <2>1. f \in [B -> C]
    OBVIOUS
  <2>2. \A i \in B : \A j \in B : f[i] = f[j] => i = j
    BY <1>1
  <2>3. \A c \in C : \E j \in B : f[j] = c
    OBVIOUS
  <2>4. f \in Bijection(B, C)
    BY <2>1, <2>2, <2>3 DEF Bijection, Injection, Surjection, IsInjective
  <2> HIDE DEF f, B, C
  <2> QED
    BY <1>4, <2>4, FS_Bijection DEF ExistsBijection
<1>6. A \cap C = {}
  BY <1>1
<1> HIDE DEF A, B, C
<1>7. Cardinality(A \cup C) = Cardinality(A) + Cardinality(C)
  <2>1. Cardinality(A \cup C) = Cardinality(A) + Cardinality(C) - Cardinality(A \cap C)
    BY <1>4, <1>5, FS_Union
  <2>2. Cardinality(A \cap C) = 0
    BY <1>6, FS_EmptySet
  <2> QED
    BY <1>4, <1>5, <2>1, <2>2
<1> QED
  BY <1>1, <1>2, <1>3, <1>4, <1>5, <1>7 DEF Occurrences, A, B, u

(* FlattenSeq is the last of the concatenations of the first k sequences.  *)
LEMMA FlattenSteps ==
  ASSUME NEW V, NEW ss \in Seq(Seq(V))
  PROVE  \E f \in [0 .. Len(ss) -> Seq(V)] :
           /\ f[0] = <<>>
           /\ \A k \in 0 .. Len(ss) - 1 : f[k + 1] = f[k] \o ss[k + 1]
           /\ FlattenSeq(ss) = f[Len(ss)]
<1> DEFINE n == Len(ss)
           Flattens(f) == f = [i \in 1 .. n |-> IF i = 1 THEN ss[i] ELSE f[i - 1] \o ss[i]]
           W == Seq(V)
           g == [p \in W \X Nat |-> IF p[2] + 1 \in 1 .. n THEN p[1] \o ss[p[2] + 1] ELSE p[1]]
           v == <<>>
<1>1. n \in Nat /\ \A i \in 1 .. n : ss[i] \in W
  BY SeqFacts
<1> HIDE DEF n
<1>2. g \in Steps(W)
  <2>1. \A p \in W \X Nat : p[2] + 1 \in 1 .. n => p[1] \o ss[p[2] + 1] \in W
    BY <1>1, ConcatProperties
  <2>2. \A p \in W \X Nat : (IF p[2] + 1 \in 1 .. n THEN p[1] \o ss[p[2] + 1] ELSE p[1]) \in W
    BY <2>1
  <2> HIDE DEF W
  <2> QED
    BY <2>2 DEF Steps
<1>3. v \in W
  OBVIOUS
<1> HIDE DEF W, g, v
<1>4. PICK f : Iterates(f, W, v, g)
  BY <1>2, <1>3, Recursion
<1>5. f \in [Nat -> W] /\ f[0] = v /\ \A k \in Nat : f[k + 1] = g[<<f[k], k>>]
  BY <1>4 DEF Iterates
<1>6. ASSUME NEW k \in 0 .. n - 1 PROVE f[k + 1] = f[k] \o ss[k + 1]
  <2>1. <<f[k], k>> \in W \X Nat /\ k + 1 \in 1 .. n /\ k \in Nat
    BY <1>1, <1>5
  <2>2. g[<<f[k], k>>] = f[k] \o ss[k + 1]
    BY <2>1 DEF g
  <2> QED
    BY <1>5, <2>1, <2>2
<1>7. n # 0 => f[1] = ss[1]
  <2> SUFFICES ASSUME n # 0 PROVE f[1] = ss[1]
    OBVIOUS
  <2>0. 0 \in 0 .. n - 1 /\ 0 + 1 = 1 /\ 1 \in 1 .. n
    BY <1>1
  <2>1. f[1] = f[0] \o ss[1] /\ ss[1] \in Seq(V)
    BY <1>1, <1>6, <2>0 DEF W
  <2> QED
    BY <2>1, <1>5, ConcatEmptySeq DEF v
<1>8. Flattens([i \in 1 .. n |-> f[i]])
  <2>1. ASSUME NEW i \in 1 .. n, i # 1 PROVE f[i] = f[i - 1] \o ss[i] /\ i - 1 \in 1 .. n
    <3>1. i - 1 \in 0 .. n - 1 /\ (i - 1) + 1 = i /\ i - 1 \in 1 .. n
      BY <1>1, <2>1
    <3> QED
      BY <1>6, <3>1
  <2>2. 1 \in 1 .. n => n # 0
    BY <1>1
  <2> QED
    BY <1>7, <2>1, <2>2
<1> DEFINE it == CHOOSE e : Flattens(e)
<1>9. Flattens(it)
  <2> HIDE DEF Flattens
  <2> QED
    BY <1>8, Zenon
<1>10. n # 0 => FlattenSeq(ss) = it[n]
  BY Zenon DEF FlattenSeq, n
<1> HIDE DEF it
<1> DEFINE T == {k \in 1 .. n : it[k] = f[k]}
<1>11. ASSUME n # 0 PROVE it[n] = f[n]
  <2>1. 1 \in T
    BY <1>1, <1>7, <1>9, <1>11
  <2>2. ASSUME NEW k \in 1 .. n - 1, k \in T PROVE k + 1 \in T
    <3>1. k + 1 \in 1 .. n /\ k + 1 # 1 /\ (k + 1) - 1 = k /\ k \in 0 .. n - 1
      BY <1>1
    <3>2. it[k + 1] = it[k] \o ss[k + 1]
      BY <1>9, <3>1
    <3> QED
      BY <1>6, <2>2, <3>1, <3>2
  <2> HIDE DEF T
  <2>3. 1 .. n \subseteq T
    BY <1>1, <2>1, <2>2, IntervalInduction
  <2>4. n \in T
    BY <1>1, <1>11, <2>3
  <2> QED
    BY <2>4 DEF T
<1>12. n = 0 => FlattenSeq(ss) = <<>>
  <2> SUFFICES ASSUME n = 0 PROVE FlattenSeq(ss) = <<>>
    OBVIOUS
  <2>1. FlattenSeq(ss) = ss
    BY Zenon DEF FlattenSeq, n
  <2>2. ss = <<>>
    BY EmptySeq DEF n
  <2> QED
    BY <2>1, <2>2
<1>13. FlattenSeq(ss) = f[n]
  BY <1>5, <1>10, <1>11, <1>12 DEF v
<1> DEFINE h == [k \in 0 .. n |-> f[k]]
<1>14. h \in [0 .. n -> Seq(V)] /\ h[0] = <<>> /\ FlattenSeq(ss) = h[n]
  BY <1>1, <1>5, <1>13, SMTT(20) DEF v, W
<1>15. \A k \in 0 .. n - 1 : h[k + 1] = h[k] \o ss[k + 1]
  BY <1>1, <1>6
<1> QED
  BY <1>14, <1>15 DEF n

(* Sequences of one element each flatten to the sequence of the elements.  *)
LEMMA FlattenSingletons ==
  ASSUME NEW V, NEW d \in Seq(V)
  PROVE  FlattenSeq([j \in DOMAIN d |-> <<d[j]>>]) = d
<1> DEFINE ss == [j \in DOMAIN d |-> <<d[j]>>]
           n == Len(d)
<1>1. n \in Nat /\ DOMAIN d = 1 .. n /\ \A i \in 1 .. n : d[i] \in V
  BY SeqFacts
<1>2. ss \in Seq(Seq(V)) /\ Len(ss) = n
  <2>1. \A j \in 1 .. n : <<d[j]>> \in Seq(V)
    BY <1>1
  <2>2. ss \in [1 .. n -> Seq(V)]
    BY <1>1, <2>1
  <2> HIDE DEF ss
  <2>3. ss \in Seq(Seq(V))
    BY <1>1, <2>2, SeqDef
  <2> QED
    BY <1>1, <2>2, <2>3, LenProperties
<1>3. \A j \in 1 .. n : ss[j] = <<d[j]>>
  BY <1>1
<1> HIDE DEF ss
<1>4. PICK f \in [0 .. n -> Seq(V)] : /\ f[0] = <<>>
                                      /\ \A k \in 0 .. n - 1 : f[k + 1] = f[k] \o ss[k + 1]
                                      /\ FlattenSeq(ss) = f[n]
  BY <1>2, FlattenSteps, ZenonT(30)
<1> HIDE DEF n
<1> DEFINE T == {k \in 0 .. n : Len(f[k]) = k /\ \A i \in 1 .. k : f[k][i] = d[i]}
<1>5. 0 \in T
  BY <1>1, <1>4
<1>6. ASSUME NEW k \in 0 .. n - 1, k \in T PROVE k + 1 \in T
  <2> DEFINE before == f[k]
  <2>0. k + 1 \in 1 .. n /\ k \in 0 .. n /\ k \in Nat
    BY <1>1
  <2>1. d[k + 1] \in V
    BY <1>1, <2>0
  <2>3. before \in Seq(V) /\ Len(before) = k /\ \A i \in 1 .. k : before[i] = d[i]
    <3>1. before \in Seq(V)
      BY <1>4, <2>0
    <3>2. Len(f[k]) = k /\ \A i \in 1 .. k : f[k][i] = d[i]
      BY <1>6
    <3> QED
      BY <3>1, <3>2
  <2>4. f[k + 1] = before \o <<d[k + 1]>>
    BY <1>3, <1>4, <2>0
  <2> HIDE DEF before
  <2>5. f[k + 1] = Append(before, d[k + 1])
    BY <2>1, <2>3, <2>4, AppendIsConcat
  <2>6. /\ Len(Append(before, d[k + 1])) = k + 1
        /\ \A i \in 1 .. k + 1 : Append(before, d[k + 1])[i] = d[i]
    BY <2>0, <2>1, <2>3, AppendProperties
  <2>7. k + 1 \in 0 .. n
    BY <1>1, <2>0
  <2> QED
    BY <2>5, <2>6, <2>7
<1> HIDE DEF T
<1>7. 0 .. n \subseteq T
  BY <1>1, <1>5, <1>6, IntervalInduction
<1>8. n \in T
  BY <1>1, <1>7
<1>9. f[n] = d
  <2>1. f[n] \in Seq(V) /\ Len(f[n]) = n /\ \A i \in 1 .. n : f[n][i] = d[i]
    BY <1>1, <1>4, <1>8 DEF T
  <2> QED
    BY <2>1, SeqEqual DEF n
<1> QED
  BY <1>4, <1>9 DEF ss

(* A block of the program is a sequence of instructions.                   *)
LEMMA CodeTyped ==
  ASSUME client \in Clients, NEW blk \in Block
  PROVE  Code[blk] \in Seq(Instruction)
BY TraceAssumption DEF Block, Code

(* Occurrences are a number.                                               *)
LEMMA OccurrencesOne ==
  ASSUME NEW V, NEW s \in Seq(V), NEW b
  PROVE  Occurrences(b, s) \in Nat
<1>1. DOMAIN s = 1 .. Len(s) /\ Len(s) \in Nat
  BY SeqFacts
<1> QED
  BY <1>1, FiniteIndices DEF Occurrences

(* What is counted for an instruction is what it appends.                  *)
LEMMA EmitsCounted ==
  ASSUME NEW i \in Instruction, ~RegInMemref, NEW b
  PROVE  /\ Emits(i) \in Seq(Rec)
         /\ Counted(b, Emits(i)) \in Nat
         /\ FillNum(b, i) = Counted(b, Emits(i)) * RecordSize[b]
<1> DEFINE w == i.dsts
           r == ReadBuffers(i)
           writes == [j \in DOMAIN i.dsts |-> <<i.dsts[j]>>]
           reads == [j \in DOMAIN i.srcs |->
                       <<i.srcs[j].buf>> \o (IF RegInMemref THEN i.srcs[j].regs ELSE <<>>)]
           before == IF BeforeWrite THEN w ELSE <<>>
           after == IF i.cti THEN <<>> ELSE w
           all == before \o r \o after
           emitted == [j \in DOMAIN all |-> [buf |-> all[j], forward |-> ~i.gather]]
<1>1. w \in Seq(Buffer) /\ i.srcs \in Seq(Source) /\ i.gather \in BOOLEAN
  BY DEF Instruction
<1>2. r \in Seq(Buffer) /\ DOMAIN r = DOMAIN i.srcs /\ \A j \in DOMAIN i.srcs : r[j] = i.srcs[j].buf
  <2>1. Len(i.srcs) \in Nat /\ DOMAIN i.srcs = 1 .. Len(i.srcs) /\ \A j \in 1 .. Len(i.srcs) : i.srcs[j] \in Source
    BY <1>1, SeqFacts
  <2>2. r \in [1 .. Len(i.srcs) -> Buffer]
    BY <2>1 DEF ReadBuffers, Source
  <2>3. r \in Seq(Buffer)
    BY <2>1, <2>2, SeqDef
  <2> QED
    BY <2>1, <2>3 DEF ReadBuffers
<1>3. FlattenSeq(writes) = w
  BY <1>1, FlattenSingletons
<1>4. FlattenSeq(reads) = r
  <2>1. \A j \in DOMAIN r : <<r[j]>> \o <<>> = <<r[j]>>
    <3>1. \A j \in DOMAIN r : r[j] \in Buffer
      BY <1>2, SeqFacts
    <3>2. \A j \in DOMAIN r : <<r[j]>> \in Seq(Buffer)
      BY <3>1
    <3> HIDE DEF r
    <3> QED
      BY <3>2, ConcatEmptySeq
  <2> DEFINE ones == [j \in DOMAIN r |-> <<r[j]>>]
  <2>2. reads = ones
    <3>1. \A j \in DOMAIN r : <<i.srcs[j].buf>> \o (IF RegInMemref THEN i.srcs[j].regs ELSE <<>>) = <<r[j]>>
      BY <1>2, <2>1
    <3> HIDE DEF r
    <3> QED
      BY <1>2, <3>1
  <2>3. FlattenSeq(ones) = r
    <3> HIDE DEF r
    <3> QED
      BY <1>2, FlattenSingletons
  <2> HIDE DEF ones, reads, r
  <2> QED
    BY <2>2, <2>3
<1> HIDE DEF r, w
<1>5. before \in Seq(Buffer) /\ after \in Seq(Buffer)
  BY <1>1
<1>6. Emits(i) = emitted
  <2>1. (IF BeforeWrite THEN FlattenSeq(writes) ELSE <<>>) = before
        /\ (IF i.cti THEN <<>> ELSE FlattenSeq(writes)) = after
    BY <1>3
  <2> HIDE DEF writes, reads, before, after
  <2> QED
    BY <1>4, <2>1 DEF Emits, writes, reads
<1> DEFINE ob == Occurrences(b, before)
           oa == Occurrences(b, after)
           ow == Occurrences(b, w)
           or == Occurrences(b, r)
<1>7. ob = (IF BeforeWrite THEN ow ELSE 0) /\ oa = (IF i.cti THEN 0 ELSE ow)
  BY OccurrencesNone
<1>8. ob \in Nat /\ oa \in Nat /\ ow \in Nat /\ or \in Nat
  BY <1>1, <1>2, <1>5, OccurrencesOne
<1> HIDE DEF before, after
<1>9. all \in Seq(Buffer) /\ Occurrences(b, all) = (ob + or) + oa
  <2>1. before \o r \in Seq(Buffer) /\ Occurrences(b, before \o r) = ob + or
    BY <1>2, <1>5, ConcatProperties, OccurrencesConcat
  <2>2. (before \o r) \o after \in Seq(Buffer)
        /\ Occurrences(b, (before \o r) \o after) = Occurrences(b, before \o r) + oa
    BY <1>5, <2>1, ConcatProperties, OccurrencesConcat
  <2> QED
    BY <2>1, <2>2
<1> HIDE DEF all, ob, oa, ow, or
<1>10. emitted \in Seq(Rec) /\ Counted(b, emitted) = Occurrences(b, all)
  <2>1. Len(all) \in Nat /\ DOMAIN all = 1 .. Len(all) /\ \A j \in 1 .. Len(all) : all[j] \in Buffer
    BY <1>9, SeqFacts
  <2>2. emitted \in [1 .. Len(all) -> Rec]
    BY <1>1, <2>1 DEF Rec
  <2>3. emitted \in Seq(Rec)
    BY <2>1, <2>2, SeqDef
  <2>4. {j \in DOMAIN emitted : emitted[j].buf = b} = {j \in DOMAIN all : all[j] = b}
    OBVIOUS
  <2> QED
    BY <2>3, <2>4 DEF Counted, Occurrences
<1>11. FillNum(b, i) = ((IF i.cti THEN 0 ELSE ow) + (IF BeforeWrite THEN ow ELSE 0) + or) * RecordSize[b]
  BY DEF FillNum, ow, or, r, w
<1>12. (IF i.cti THEN 0 ELSE ow) + (IF BeforeWrite THEN ow ELSE 0) + or = (ob + or) + oa
  BY <1>7, <1>8
<1> HIDE DEF emitted
<1> QED
  BY <1>6, <1>8, <1>9, <1>10, <1>11, <1>12

(* An instruction appends records.                                         *)
LEMMA EmitsTyped ==
  ASSUME NEW i \in Instruction, ~RegInMemref
  PROVE  Emits(i) \in Seq(Rec)
<1>1. PICK b : b = 0
  OBVIOUS
<1> QED
  BY EmitsCounted

(* The records of two sequences add up.                                    *)
LEMMA CountedConcat ==
  ASSUME NEW s \in Seq(Rec), NEW t \in Seq(Rec), NEW b
  PROVE  Counted(b, s \o t) = Counted(b, s) + Counted(b, t) /\ Counted(b, s) \in Nat /\ Counted(b, t) \in Nat
<1> DEFINE bufs(q) == [j \in DOMAIN q |-> q[j].buf]
<1>1. ASSUME NEW q \in Seq(Rec)
      PROVE  /\ bufs(q) \in Seq(Buffer) /\ DOMAIN bufs(q) = DOMAIN q /\ Len(bufs(q)) = Len(q)
             /\ Counted(b, q) = Occurrences(b, bufs(q))
  <2>1. Len(q) \in Nat /\ DOMAIN q = 1 .. Len(q) /\ \A j \in 1 .. Len(q) : q[j] \in Rec
    BY SeqFacts
  <2>2. bufs(q) \in [1 .. Len(q) -> Buffer]
    BY <2>1 DEF Rec
  <2>3. bufs(q) \in Seq(Buffer)
    BY <2>1, <2>2, SeqDef
  <2>4. Len(bufs(q)) = Len(q)
    BY <2>1, <2>2, <2>3, SeqFacts, LenProperties
  <2>5. {j \in DOMAIN bufs(q) : bufs(q)[j] = b} = {j \in DOMAIN q : q[j].buf = b}
    OBVIOUS
  <2> QED
    BY <2>3, <2>4, <2>5 DEF Counted, Occurrences
<1>2. s \o t \in Seq(Rec)
  BY ConcatProperties
<1>3. bufs(s \o t) = bufs(s) \o bufs(t)
  <2>1. /\ Len(s) \in Nat /\ Len(t) \in Nat /\ Len(s \o t) = Len(s) + Len(t)
        /\ \A i \in 1 .. Len(s) + Len(t) : (s \o t)[i] = IF i <= Len(s) THEN s[i] ELSE t[i - Len(s)]
        /\ DOMAIN s = 1 .. Len(s) /\ DOMAIN t = 1 .. Len(t) /\ DOMAIN (s \o t) = 1 .. Len(s) + Len(t)
    BY <1>2, SeqFacts, ConcatProperties
  <2>2. \A i \in 1 .. Len(s) + Len(t) : bufs(s \o t)[i] = (s \o t)[i].buf
    BY <2>1
  <2>3. (\A i \in 1 .. Len(s) : bufs(s)[i] = s[i].buf) /\ (\A i \in 1 .. Len(t) : bufs(t)[i] = t[i].buf)
    BY <2>1
  <2>4. bufs(s) \in Seq(Buffer) /\ bufs(t) \in Seq(Buffer) /\ bufs(s \o t) \in Seq(Buffer)
        /\ Len(bufs(s)) = Len(s) /\ Len(bufs(t)) = Len(t) /\ Len(bufs(s \o t)) = Len(s) + Len(t)
    BY <1>1, <1>2, <2>1
  <2> DEFINE bs == bufs(s)
             bt == bufs(t)
             bst == bufs(s \o t)
  <2> HIDE DEF bufs, bs, bt, bst
  <2>5. /\ bs \o bt \in Seq(Buffer) /\ Len(bs \o bt) = Len(s) + Len(t)
        /\ \A i \in 1 .. Len(s) + Len(t) : (bs \o bt)[i] = IF i <= Len(s) THEN bs[i] ELSE bt[i - Len(s)]
    BY <2>4, ConcatProperties DEF bs, bt
  <2>6. ASSUME NEW i \in 1 .. Len(s) + Len(t) PROVE (bs \o bt)[i] = bst[i]
    <3>1. CASE i <= Len(s)
      <4>1. i \in 1 .. Len(s)
        BY <2>1, <3>1
      <4> QED
        BY <2>1, <2>2, <2>3, <2>5, <3>1, <4>1 DEF bs, bst
    <3>2. CASE ~(i <= Len(s))
      <4>1. i - Len(s) \in 1 .. Len(t)
        BY <2>1, <3>2
      <4> QED
        BY <2>1, <2>2, <2>3, <2>5, <3>2, <4>1 DEF bt, bst
    <3> QED
      BY <3>1, <3>2
  <2> QED
    BY <2>4, <2>5, <2>6, SeqEqual DEF bs, bt, bst
<1> DEFINE bs == bufs(s)
           bt == bufs(t)
<1>4. /\ bs \in Seq(Buffer) /\ bt \in Seq(Buffer)
      /\ Counted(b, s) = Occurrences(b, bs) /\ Counted(b, t) = Occurrences(b, bt)
      /\ Counted(b, s \o t) = Occurrences(b, bs \o bt)
  <2> HIDE DEF bufs
  <2> QED
    BY <1>1, <1>2, <1>3
<1> HIDE DEF bs, bt
<1> QED
  BY <1>4, OccurrencesConcat

(* A ushort holds what is less than its width.                             *)
LEMMA SmallRemainder ==
  ASSUME NEW n \in Nat, NEW w \in Nat \ {0}, n < w
  PROVE  n % w = n
OBVIOUS

(* What is counted for an instruction is a number of bytes.                *)
LEMMA FillNumNat ==
  ASSUME NEW i \in Instruction, NEW b \in Buffer
  PROVE  FillNum(b, i) \in Nat
<1> DEFINE ow == Occurrences(b, i.dsts)
           or == Occurrences(b, ReadBuffers(i))
           k == (IF i.cti THEN 0 ELSE ow) + (IF BeforeWrite THEN ow ELSE 0) + or
<1>1. i.dsts \in Seq(Buffer) /\ i.srcs \in Seq(Source)
  BY DEF Instruction
<1>2. ReadBuffers(i) \in Seq(Buffer)
  <2>1. Len(i.srcs) \in Nat /\ DOMAIN i.srcs = 1 .. Len(i.srcs) /\ \A j \in 1 .. Len(i.srcs) : i.srcs[j] \in Source
    BY <1>1, SeqFacts
  <2>2. ReadBuffers(i) \in [1 .. Len(i.srcs) -> Buffer]
    BY <2>1 DEF ReadBuffers, Source
  <2> QED
    BY <2>1, <2>2, SeqDef
<1>3. ow \in Nat /\ or \in Nat
  BY <1>1, <1>2, OccurrencesOne
<1>4. FillNum(b, i) = k * RecordSize[b]
  BY DEF FillNum
<1> HIDE DEF ow, or
<1>5. k \in Nat /\ RecordSize[b] \in Nat
  BY <1>3, TraceAssumption
<1> HIDE DEF k
<1> QED
  BY <1>4, <1>5, Z3

(* The estimate is the last of the estimates of the first k instructions,  *)
(* each in the width of a ushort.                                          *)
LEMMA ScratchSums ==
  ASSUME client \in Clients, NEW blk \in Block, NEW b \in Buffer
  PROVE  \E f \in [0 .. Len(Code[blk]) -> Nat] :
           /\ f[0] = 0
           /\ \A k \in 0 .. Len(Code[blk]) - 1 : f[k + 1] = (f[k] + FillNum(b, Code[blk][k + 1])) % ScratchWidth
           /\ Scratch(b, blk) = f[Len(Code[blk])]
<1> DEFINE code == Code[blk]
           n == Len(code)
           S == 1 .. n
           fill == [i \in S |-> FillNum(b, code[i])]
           Sums(f) == f = [s \in SUBSET S |-> IF s = {} THEN 0
                                              ELSE (f[s \ {Max(s)}] + FillNum(b, code[Max(s)])) % ScratchWidth]
           it == CHOOSE f : Sums(f)
           g == [p \in S \X Nat |-> (p[2] + FillNum(b, code[p[1]])) % ScratchWidth]
           c == [s \in SUBSET S |-> Max(s)]
<1>1. n \in Nat /\ DOMAIN code = S /\ \A i \in S : code[i] \in Instruction
  BY CodeTyped, SeqFacts
<1>2. \A i \in S : FillNum(b, code[i]) \in Nat
  BY <1>1, FillNumNat
<1>3. Scratch(b, blk) = it[S]
  <2>1. Scratch(b, blk) = (CHOOSE f : f = [s \in SUBSET DOMAIN code |->
                              IF s = {} THEN 0
                              ELSE (f[s \ {Max(s)}] + FillNum(b, code[Max(s)])) % ScratchWidth])[DOMAIN code]
    BY Zenon DEF Scratch, FoldLeft, MapThenFoldSet
  <2> QED
    BY <1>1, <2>1, Zenon
<1> HIDE DEF n, code
<1>4. Chooses(c, S)
  BY <1>1, MaxOfSet DEF Chooses
<1>5. ScratchWidth \in Nat \ {0}
  BY TraceAssumption
<1>6. ASSUME NEW m \in Nat, NEW i \in S PROVE (m + FillNum(b, code[i])) % ScratchWidth \in Nat
  BY <1>2, <1>5
<1>7. g \in FoldSteps(S, Nat) /\ IsFiniteSet(S)
  <2>1. \A p \in S \X Nat : (p[2] + FillNum(b, code[p[1]])) % ScratchWidth \in Nat
    BY <1>6
  <2> QED
    BY <1>1, <2>1, FS_Interval DEF FoldSteps
<1>8. PICK f : Folds(f, S, Nat, 0, g, c)
  <2> HIDE DEF g, c, S
  <2> QED
    BY <1>4, <1>7, FoldExists
<1>9. f \in [SUBSET S -> Nat]
      /\ f = [s \in SUBSET S |-> IF s = {} THEN 0 ELSE g[<<c[s], f[s \ {c[s]}]>>]]
  BY <1>8, Zenon DEF Folds
<1>10. Sums(f)
  <2>1. ASSUME NEW s \in SUBSET S, s # {}
        PROVE  g[<<c[s], f[s \ {c[s]}]>>] = (f[s \ {Max(s)}] + FillNum(b, code[Max(s)])) % ScratchWidth
    <3>1. c[s] = Max(s) /\ c[s] \in S
      BY <1>4, <2>1 DEF Chooses
    <3>2. f[s \ {c[s]}] \in Nat
      BY <1>9
    <3> QED
      BY <3>1, <3>2
  <2> QED
    BY <1>9, <2>1
<1>11. Sums(it)
  <2> HIDE DEF Sums
  <2> QED
    BY <1>10, Zenon
<1> HIDE DEF it
<1>12. it[{}] = 0
  BY <1>11
<1>13. ASSUME NEW k \in 0 .. n - 1
       PROVE  it[1 .. k + 1] = (it[1 .. k] + FillNum(b, code[k + 1])) % ScratchWidth
  <2>1. n \in Nat /\ k \in Nat /\ k + 1 <= n /\ k + 1 \in 1 .. k + 1
    BY <1>1
  <2>2. 1 .. k + 1 \in SUBSET S /\ 1 .. k + 1 # {}
    <3>1. \A i \in 1 .. k + 1 : i \in S
      BY <2>1
    <3> QED
      BY <2>1, <3>1
  <2>3. Max(1 .. k + 1) = k + 1
    BY MaxOfInterval
  <2>4. (1 .. k + 1) \ {k + 1} = 1 .. k
    BY <1>1
  <2>5. it[1 .. k + 1] = (it[(1 .. k + 1) \ {Max(1 .. k + 1)}] + FillNum(b, code[Max(1 .. k + 1)])) % ScratchWidth
    BY <1>11, <2>2
  <2> QED
    BY <2>3, <2>4, <2>5
<1> DEFINE T == {k \in 0 .. n : it[1 .. k] \in Nat}
<1>14. 0 .. n \subseteq T
  <2>1. 0 \in T
    BY <1>1, <1>12
  <2>2. ASSUME NEW k \in 0 .. n - 1, k \in T PROVE k + 1 \in T
    <3>1. k + 1 \in S /\ k + 1 \in 0 .. n /\ it[1 .. k] \in Nat
      BY <1>1, <2>2
    <3>2. it[1 .. k + 1] \in Nat
      BY <1>6, <1>13, <3>1
    <3> QED
      BY <3>1, <3>2
  <2> HIDE DEF T
  <2> QED
    BY <1>1, <2>1, <2>2, IntervalInduction
<1> DEFINE h == [k \in 0 .. n |-> it[1 .. k]]
<1>15. h \in [0 .. n -> Nat] /\ h[0] = 0 /\ Scratch(b, blk) = h[n]
  BY <1>1, <1>3, <1>12, <1>14
<1>16. \A k \in 0 .. n - 1 : h[k + 1] = (h[k] + FillNum(b, code[k + 1])) % ScratchWidth
  BY <1>1, <1>13
<1> QED
  BY <1>15, <1>16 DEF n, code

(* The records of a block, instruction by instruction.                     *)
LEMMA InstrumentedSteps ==
  ASSUME client \in Clients, ~RegInMemref, NEW blk \in Block
  PROVE  \E e \in [0 .. Len(Code[blk]) -> Seq(Rec)] :
           /\ e[0] = <<>>
           /\ \A k \in 0 .. Len(Code[blk]) - 1 : e[k + 1] = e[k] \o Emits(Code[blk][k + 1])
           /\ Instrumented(blk) = e[Len(Code[blk])]
<1> DEFINE code == Code[blk]
           n == Len(code)
           ss == [j \in DOMAIN code |-> Emits(code[j])]
<1>1. n \in Nat /\ DOMAIN code = 1 .. n /\ \A i \in 1 .. n : code[i] \in Instruction
  BY CodeTyped, SeqFacts
<1>2. ss \in Seq(Seq(Rec)) /\ Len(ss) = n
  <2>1. \A i \in 1 .. n : Emits(code[i]) \in Seq(Rec)
    BY <1>1, EmitsTyped
  <2>2. ss \in [1 .. n -> Seq(Rec)]
    BY <1>1, <2>1
  <2> HIDE DEF ss
  <2>3. ss \in Seq(Seq(Rec))
    BY <1>1, <2>2, SeqDef
  <2> QED
    BY <1>1, <2>2, <2>3, LenProperties
<1>3. \A k \in 1 .. n : ss[k] = Emits(code[k])
  BY <1>1
<1>4. Instrumented(blk) = FlattenSeq(ss)
  BY DEF Instrumented
<1> HIDE DEF ss, n, code
<1>5. PICK e \in [0 .. Len(ss) -> Seq(Rec)] :
        /\ e[0] = <<>>
        /\ \A k \in 0 .. Len(ss) - 1 : e[k + 1] = e[k] \o ss[k + 1]
        /\ FlattenSeq(ss) = e[Len(ss)]
  BY <1>2, FlattenSteps
<1>6. ASSUME NEW k \in 0 .. n - 1 PROVE e[k + 1] = e[k] \o Emits(code[k + 1])
  <2>1. k + 1 \in 1 .. n
    BY <1>1
  <2> QED
    BY <1>2, <1>3, <1>5, <2>1
<1>7. e \in [0 .. n -> Seq(Rec)] /\ e[0] = <<>> /\ Instrumented(blk) = e[n]
  BY <1>2, <1>4, <1>5
<1> QED
  BY <1>6, <1>7 DEF n, code

(* A block appends records.                                                *)
LEMMA InstrumentedTyped ==
  ASSUME client \in Clients, ~RegInMemref, NEW blk \in Block
  PROVE  Instrumented(blk) \in Seq(Rec)
<1> DEFINE n == Len(Code[blk])
<1>1. n \in 0 .. n
  BY CodeTyped, SeqFacts
<1>2. PICK e \in [0 .. n -> Seq(Rec)] : Instrumented(blk) = e[n]
  BY InstrumentedSteps
<1> HIDE DEF n
<1> QED
  BY <1>1, <1>2

(* What is estimated for a block is what its instrumentation appends.      *)
LEMMA ScratchExact ==
  ASSUME client \in Clients, EmptyBuffersSuffice, NEW blk \in Block, NEW b \in Buffer
  PROVE  /\ Scratch(b, blk) = Counted(b, Instrumented(blk)) * RecordSize[b]
         /\ Counted(b, Instrumented(blk)) \in Nat
<1> DEFINE code == Code[blk]
           n == Len(code)
           size == RecordSize[b]
<1>1. n \in Nat /\ DOMAIN code = 1 .. n /\ \A i \in 1 .. n : code[i] \in Instruction
  BY CodeTyped, SeqFacts
<1>2. /\ ~RegInMemref /\ size \in Nat /\ ScratchWidth \in Nat \ {0}
      /\ Counted(b, Instrumented(blk)) * size < ScratchWidth
  BY TraceAssumption DEF EmptyBuffersSuffice
<1>6. PICK e \in [0 .. n -> Seq(Rec)] :
        /\ e[0] = <<>>
        /\ \A k \in 0 .. n - 1 : e[k + 1] = e[k] \o Emits(code[k + 1])
        /\ Instrumented(blk) = e[n]
  BY <1>2, InstrumentedSteps
<1>7. PICK f \in [0 .. n -> Nat] :
        /\ f[0] = 0
        /\ \A k \in 0 .. n - 1 : f[k + 1] = (f[k] + FillNum(b, code[k + 1])) % ScratchWidth
        /\ Scratch(b, blk) = f[n]
  BY <1>2, ScratchSums
<1> HIDE DEF n, code, size
<1> DEFINE T == {k \in 0 .. n : Counted(b, e[k]) * size < ScratchWidth => f[k] = Counted(b, e[k]) * size}
<1>8. 0 \in T
  <2>1. Counted(b, <<>>) = 0
    <3>1. {j \in DOMAIN <<>> : <<>>[j].buf = b} = {}
      OBVIOUS
    <3> QED
      BY <3>1, FS_EmptySet DEF Counted
  <2>2. Counted(b, e[0]) * size = 0
    BY <1>2, <1>6, <2>1
  <2> QED
    BY <1>1, <1>7, <2>2
<1>9. ASSUME NEW k \in 0 .. n - 1, k \in T PROVE k + 1 \in T
  <2>1. k \in 0 .. n /\ k + 1 \in 1 .. n /\ k + 1 \in 0 .. n
    BY <1>1
  <2> DEFINE i == code[k + 1]
             p == Counted(b, e[k])
             q == Counted(b, Emits(i))
  <2>2. e[k] \in Seq(Rec) /\ e[k + 1] = e[k] \o Emits(i) /\ i \in Instruction
    BY <1>1, <1>6, <2>1
  <2>3. Emits(i) \in Seq(Rec) /\ FillNum(b, i) = q * size
    BY <1>2, <2>2, EmitsCounted DEF size
  <2>4. Counted(b, e[k + 1]) = p + q /\ p \in Nat /\ q \in Nat
    BY <2>2, <2>3, CountedConcat
  <2> HIDE DEF p, q, i
  <2>5. (p + q) * size = p * size + q * size /\ p * size \in Nat /\ q * size \in Nat
    BY <1>2, <2>4, Z3
  <2> DEFINE a == p * size
             d == q * size
  <2> HIDE DEF a, d
  <2>6. ASSUME a + d < ScratchWidth PROVE f[k + 1] = a + d
    <3>1. a \in Nat /\ d \in Nat /\ a < ScratchWidth
      BY <1>2, <2>5, <2>6 DEF a, d
    <3>2. f[k] = a
      BY <1>9, <3>1 DEF a, p
    <3>3. f[k + 1] = (a + d) % ScratchWidth
      BY <1>7, <2>3, <3>2 DEF d, i
    <3> QED
      BY <1>2, <2>6, <3>1, <3>3, SmallRemainder, SMTT(20)
  <2>7. Counted(b, e[k + 1]) * size = a + d
    BY <2>4, <2>5 DEF a, d
  <2> QED
    BY <2>1, <2>6, <2>7
<1> HIDE DEF T
<1>10. 0 .. n \subseteq T
  BY <1>1, <1>8, <1>9, IntervalInduction
<1>11. n \in T
  BY <1>1, <1>10
<1>12. Instrumented(blk) \in Seq(Rec)
  BY <1>1, <1>6
<1>13. Counted(b, Instrumented(blk)) \in Nat
  BY <1>12, CountedConcat
<1>14. f[n] = Counted(b, e[n]) * size
  BY <1>2, <1>6, <1>11 DEF T
<1> QED
  BY <1>6, <1>7, <1>13, <1>14 DEF size

(* What the rest of the block still appends fits behind what is there.     *)
FitInv ==
  /\ client \in Clients
  /\ ptr \in [Buffer -> Nat]
  /\ todo \in Seq(Rec)
  /\ \A b \in Buffer : ptr[b] + Counted(b, todo) * RecordSize[b] <= BufSize[b]

(* No records take no room.                                                *)
LEMMA CountedNone ==
  ASSUME NEW b
  PROVE  Counted(b, <<>>) = 0
<1>1. {j \in DOMAIN <<>> : <<>>[j].buf = b} = {}
  OBVIOUS
<1> QED
  BY <1>1, FS_EmptySet DEF Counted

(* The buffers are empty when the thread starts.                           *)
LEMMA FitInit == Init => FitInv
<1> SUFFICES ASSUME Init PROVE FitInv
  OBVIOUS
<1>1. \A b \in Buffer : 0 + 0 * RecordSize[b] <= BufSize[b]
  BY TraceAssumption
<1> QED
  BY <1>1, CountedNone DEF Init, FitInv

(* What a block is let in with fits.                                       *)
LEMMA EnterFits ==
  ASSUME FitInv, EmptyBuffersSuffice, NEW blk \in Block, EnterBlock(blk)
  PROVE  FitInv'
<1>1. \A b \in Buffer : ptr[b] \in Nat /\ RecordSize[b] \in Nat /\ BufSize[b] \in Nat
  BY TraceAssumption DEF FitInv
<1>2. client' = client /\ client \in Clients
  BY DEF FitInv, EnterBlock
<1>3. CASE Hot(blk)
  <2>1. Drain({b \in Buffer : Full(b, blk)}) /\ todo' = Instrumented(blk)
    BY <1>3 DEF EnterBlock
  <2>2. ptr' \in [Buffer -> Nat]
    BY <1>1, <2>1 DEF Drain
  <2>3. ASSUME NEW b \in Buffer PROVE ptr'[b] + Counted(b, todo') * RecordSize[b] <= BufSize[b]
    <3> DEFINE bytes == Counted(b, Instrumented(blk)) * RecordSize[b]
    <3>1. Scratch(b, blk) = bytes /\ bytes <= BufSize[b] /\ bytes \in Nat
      <4>1. Counted(b, Instrumented(blk)) \in Nat /\ Scratch(b, blk) = bytes
        BY <1>2, ScratchExact
      <4>2. bytes \in Nat
        BY <1>1, <4>1, Z3
      <4> QED
        BY <4>1, <4>2 DEF EmptyBuffersSuffice
    <3> HIDE DEF bytes
    <3>2. ptr'[b] + bytes <= BufSize[b]
      <4>1. CASE Full(b, blk)
        <5>1. ptr'[b] = 0
          BY <2>1, <4>1 DEF Drain
        <5> QED
          BY <1>1, <3>1, <5>1
      <4>2. CASE ~Full(b, blk)
        <5>1. ptr'[b] = ptr[b]
          BY <2>1, <4>2 DEF Drain
        <5>2. bytes > 0 => ~(ptr[b] + bytes >= BufSize[b])
          BY <3>1, <4>2 DEF Full
        <5>3. ptr[b] <= BufSize[b]
          <6>1. Counted(b, todo) \in Nat /\ ptr[b] + Counted(b, todo) * RecordSize[b] <= BufSize[b]
            BY CountedConcat DEF FitInv
          <6>2. Counted(b, todo) * RecordSize[b] \in Nat
            BY <1>1, <6>1, Z3
          <6> DEFINE rest == Counted(b, todo) * RecordSize[b]
          <6>3. rest \in Nat /\ ptr[b] + rest <= BufSize[b]
            BY <6>1, <6>2
          <6> HIDE DEF rest
          <6> QED
            BY <1>1, <6>3
        <5> QED
          BY <1>1, <3>1, <5>1, <5>2, <5>3
      <4> QED
        BY <4>1, <4>2
    <3> QED
      BY <2>1, <3>2 DEF bytes
  <2>4. todo' \in Seq(Rec)
    BY <1>2, <2>1, InstrumentedTyped DEF EmptyBuffersSuffice
  <2> QED
    BY <1>2, <2>2, <2>3, <2>4 DEF FitInv
<1>4. CASE ~Hot(blk)
  <2>1. todo' = <<>> /\ ptr' = ptr
    BY <1>4 DEF EnterBlock, buffers
  <2>2. ASSUME NEW b \in Buffer PROVE ptr[b] + 0 * RecordSize[b] <= BufSize[b]
    <3>1. Counted(b, todo) \in Nat /\ ptr[b] + Counted(b, todo) * RecordSize[b] <= BufSize[b]
      BY CountedConcat DEF FitInv
    <3>2. Counted(b, todo) * RecordSize[b] \in Nat
      BY <1>1, <3>1, Z3
    <3> DEFINE rest == Counted(b, todo) * RecordSize[b]
    <3>3. rest \in Nat /\ ptr[b] + rest <= BufSize[b]
      BY <3>1, <3>2
    <3> HIDE DEF rest
    <3> QED
      BY <1>1, <3>3
  <2> QED
    BY <1>2, <2>1, <2>2, CountedNone DEF FitInv
<1> QED
  BY <1>3, <1>4

(* A sequence is its first element and the rest.                           *)
LEMMA FirstAndRest ==
  ASSUME NEW V, NEW s \in Seq(V), s # <<>>
  PROVE  /\ Head(s) \in V /\ Tail(s) \in Seq(V) /\ <<Head(s)>> \in Seq(V)
         /\ s = <<Head(s)>> \o Tail(s)
<1> DEFINE h == Head(s)
           r == Tail(s)
           one == <<h>>
           u == one \o r
<1>1. /\ h \in V /\ r \in Seq(V) /\ Len(r) = Len(s) - 1 /\ Len(s) \in Nat /\ Len(r) \in Nat
      /\ \A i \in 1 .. Len(r) : r[i] = s[i + 1]
  BY HeadTailProperties, LenProperties
<1>2. h = s[1]
  OBVIOUS
<1> HIDE DEF h, r
<1>3. one \in Seq(V) /\ Len(one) = 1 /\ one[1] = h
  BY <1>1
<1> HIDE DEF one
<1>4. /\ u \in Seq(V) /\ Len(u) = 1 + Len(r)
      /\ \A i \in 1 .. 1 + Len(r) : u[i] = IF i <= 1 THEN one[i] ELSE r[i - 1]
  <2>1. /\ u \in Seq(V) /\ Len(u) = Len(one) + Len(r)
        /\ \A i \in 1 .. Len(one) + Len(r) : u[i] = IF i <= Len(one) THEN one[i] ELSE r[i - Len(one)]
    <3>1. one \in Seq(V) /\ r \in Seq(V)
      BY <1>1, <1>3
    <3> QED
      BY <3>1, ConcatProperties
  <2> HIDE DEF u
  <2> QED
    BY <1>3, <2>1
<1> HIDE DEF u
<1>5. ASSUME NEW i \in 1 .. Len(s) PROVE s[i] = u[i]
  <2>1. i \in 1 .. 1 + Len(r)
    BY <1>1
  <2>2. CASE i = 1
    BY <1>2, <1>3, <1>4, <2>1, <2>2
  <2>3. CASE i # 1
    <3>1. i - 1 \in 1 .. Len(r) /\ (i - 1) + 1 = i /\ ~(i <= 1)
      BY <1>1, <2>3
    <3> QED
      BY <1>1, <1>4, <2>1, <3>1
  <2> QED
    BY <2>2, <2>3
<1>6. s = u
  BY <1>1, <1>4, <1>5, SeqEqual
<1> QED
  BY <1>1, <1>3, <1>6 DEF u, one, h, r

(* A record takes the room kept for it.                                    *)
LEMMA RecordFits ==
  ASSUME FitInv, Record
  PROVE  FitInv'
<1> DEFINE h == Head(todo)
           r == Tail(todo)
<1>1. /\ todo \in Seq(Rec) /\ todo # <<>> /\ todo' = r /\ client' = client
      /\ ptr' = IF h.forward THEN [ptr EXCEPT ![h.buf] = @ + RecordSize[h.buf]] ELSE ptr
  BY DEF FitInv, Record
<1>2. h \in Rec /\ r \in Seq(Rec) /\ todo = <<h>> \o r /\ <<h>> \in Seq(Rec)
  BY <1>1, FirstAndRest
<1> HIDE DEF h, r
<1>3. ASSUME NEW b \in Buffer
      PROVE  Counted(b, todo) = (IF h.buf = b THEN 1 ELSE 0) + Counted(b, r) /\ Counted(b, r) \in Nat
  <2>1. Counted(b, <<h>>) = IF h.buf = b THEN 1 ELSE 0
    <3>1. {j \in DOMAIN <<h>> : <<h>>[j].buf = b} = IF h.buf = b THEN {1} ELSE {}
      OBVIOUS
    <3> QED
      BY <3>1, FS_EmptySet, FS_Singleton DEF Counted
  <2> QED
    BY <1>2, <2>1, CountedConcat
<1>4. ASSUME NEW b \in Buffer
      PROVE  ptr'[b] \in Nat /\ ptr'[b] + Counted(b, r) * RecordSize[b] <= BufSize[b]
  <2> DEFINE size == RecordSize[b]
             c == Counted(b, r)
             p == ptr[b]
  <2>1. size \in Nat /\ c \in Nat /\ p \in Nat /\ BufSize[b] \in Nat
    BY <1>3, TraceAssumption DEF FitInv
  <2>2. p + Counted(b, todo) * size <= BufSize[b]
    BY DEF FitInv
  <2>3. ptr'[b] = IF h.forward /\ h.buf = b THEN p + size ELSE p
    BY <1>1, <1>2 DEF FitInv, Rec
  <2> HIDE DEF size, c, p
  <2>4. c * size \in Nat /\ (1 + c) * size = size + c * size /\ (0 + c) * size = c * size
    BY <2>1, Z3
  <2> DEFINE a == c * size
  <2>5. p + (IF h.buf = b THEN size + a ELSE a) <= BufSize[b]
    BY <1>3, <2>2, <2>4 DEF c
  <2>6. a \in Nat
    BY <2>4
  <2> HIDE DEF a
  <2>7. ptr'[b] \in Nat /\ ptr'[b] + a <= BufSize[b]
    BY <2>1, <2>3, <2>5, <2>6
  <2> QED
    BY <2>7 DEF a, c, size
<1>5. ptr' \in [Buffer -> Nat]
  <2>1. DOMAIN ptr' = Buffer /\ ptr' = [b \in Buffer |-> ptr'[b]]
    BY <1>1 DEF FitInv
  <2> QED
    BY <1>4, <2>1
<1> QED
  BY <1>1, <1>2, <1>4, <1>5 DEF FitInv

(* Nothing has been written past the end.                                  *)
LEMMA FitInside ==
  ASSUME FitInv
  PROVE  \A b \in Buffer : ptr[b] + 0 * RecordSize[b] <= BufSize[b] /\ ptr[b] <= BufSize[b]
<1> TAKE b \in Buffer
<1> DEFINE size == RecordSize[b]
           c == Counted(b, todo)
           p == ptr[b]
<1>1. size \in Nat /\ BufSize[b] \in Nat /\ c \in Nat /\ p \in Nat /\ p + c * size <= BufSize[b]
  BY TraceAssumption, CountedConcat DEF FitInv
<1> HIDE DEF size, c, p
<1>2. c * size \in Nat /\ 0 * size = 0
  BY <1>1, Z3
<1> DEFINE a == c * size
           z == 0 * size
<1>3. a \in Nat /\ p + a <= BufSize[b] /\ z = 0
  BY <1>1, <1>2
<1> HIDE DEF a, z
<1>4. p + z <= BufSize[b] /\ p <= BufSize[b]
  BY <1>1, <1>3
<1> QED
  BY <1>4 DEF p, z, size

(* One case per action.                                                    *)
LEMMA StepFits == FitInv /\ EmptyBuffersSuffice /\ [Next]_vars => FitInv'
<1> SUFFICES ASSUME FitInv, EmptyBuffersSuffice, [Next]_vars PROVE FitInv'
  OBVIOUS
<1>1. ASSUME NEW blk \in Block, EnterBlock(blk) PROVE FitInv'
  BY <1>1, EnterFits
<1>2. CASE Record
  BY <1>2, RecordFits
<1>3. CASE LeaveBlock
  BY <1>3, FitInside, CountedNone DEF LeaveBlock, buffers, FitInv
<1>4. CASE ThreadExit
  <2>1. \A b \in Buffer : ptr'[b] = 0
    BY <1>4 DEF ThreadExit, LastDrain, Drain
  <2>2. ptr' \in [Buffer -> Nat]
    BY <1>4 DEF ThreadExit, LastDrain, Drain, FitInv
  <2>3. client' = client /\ todo' = todo
    BY <1>4 DEF ThreadExit
  <2>4. ASSUME NEW b \in Buffer PROVE 0 + Counted(b, todo) * RecordSize[b] <= BufSize[b]
    <3> DEFINE size == RecordSize[b]
               c == Counted(b, todo)
               p == ptr[b]
    <3>1. size \in Nat /\ BufSize[b] \in Nat /\ c \in Nat /\ p \in Nat /\ p + c * size <= BufSize[b]
      BY TraceAssumption, CountedConcat DEF FitInv
    <3> HIDE DEF size, c, p
    <3>2. c * size \in Nat
      BY <3>1, Z3
    <3> DEFINE a == c * size
    <3>3. a \in Nat /\ p + a <= BufSize[b]
      BY <3>1, <3>2
    <3> HIDE DEF a
    <3>4. 0 + a <= BufSize[b]
      BY <3>1, <3>3
    <3> QED
      BY <3>4 DEF a, c, size
  <2> QED
    BY <2>1, <2>2, <2>3, <2>4 DEF FitInv
<1>5. CASE UNCHANGED vars
  BY <1>5 DEF vars, buffers, FitInv
<1> QED
  BY <1>1, <1>2, <1>3, <1>4, <1>5 DEF Next

(* No block writes past the end of a buffer, whatever blocks ran before it *)
(* and wherever exceptions left them: the check at the start of a block is *)
(* enough for all of its records.                                          *)
THEOREM RecordsAlwaysFit == Spec /\ []EmptyBuffersSuffice => []RecordsFit
<1>1. FitInv => RecordsFit
  BY FitInside DEF RecordsFit
<1> QED
  BY <1>1, FitInit, StepFits, PTL DEF Spec

(* The most that one block counts.                                         *)
Longest == Max({NumCount(blk) : blk \in Block})

(* A window has an enabled part and is not empty.                          *)
WindowSet == Bursty => 0 < WindowDisable /\ WindowEnable <= WindowDisable

(* What is counted of a block is a number: with the mode of operands, the  *)
(* sum of what is estimated for the buffers.                               *)
LEMMA NumCountNat ==
  ASSUME client \in Clients, NEW blk \in Block
  PROVE  NumCount(blk) \in Nat
<1>1. Len(Code[blk]) \in Nat
  BY CodeTyped, SeqFacts
<1>2. ASSUME NEW b \in Buffer PROVE Scratch(b, blk) \in Nat
  <2> DEFINE n == Len(Code[blk])
  <2>1. PICK f \in [0 .. n -> Nat] : Scratch(b, blk) = f[n]
    BY ScratchSums
  <2>2. n \in 0 .. n
    BY <1>1
  <2> HIDE DEF n
  <2> QED
    BY <2>1, <2>2
<1> DEFINE S == Buffer
           c == [s \in SUBSET S |-> CHOOSE x \in s : TRUE]
           g == [p \in S \X Nat |-> Scratch(p[1], blk) + p[2]]
           Sums(f) == f = [s \in SUBSET S |-> IF s = {} THEN 0
                            ELSE Scratch(CHOOSE x \in s : TRUE, blk) + f[s \ {CHOOSE x \in s : TRUE}]]
           it == CHOOSE f : Sums(f)
<1>3. MapThenSumSet(LAMBDA b : Scratch(b, blk), Buffer) = it[S]
  BY Zenon DEF MapThenSumSet, MapThenFoldSet
<1>4. Chooses(c, S)
  BY DEF Chooses
<1>5. g \in FoldSteps(S, Nat) /\ IsFiniteSet(S)
  <2>1. \A p \in S \X Nat : Scratch(p[1], blk) + p[2] \in Nat
    BY <1>2
  <2> QED
    BY <2>1, TraceAssumption DEF FoldSteps
<1>6. PICK f : Folds(f, S, Nat, 0, g, c)
  <2> HIDE DEF g, c, S
  <2> QED
    BY <1>4, <1>5, FoldExists
<1>7. f \in [SUBSET S -> Nat]
      /\ f = [s \in SUBSET S |-> IF s = {} THEN 0 ELSE g[<<c[s], f[s \ {c[s]}]>>]]
  BY <1>6, Zenon DEF Folds
<1>8. Sums(f)
  <2>1. ASSUME NEW s \in SUBSET S, s # {}
        PROVE  g[<<c[s], f[s \ {c[s]}]>>]
                 = Scratch(CHOOSE x \in s : TRUE, blk) + f[s \ {CHOOSE x \in s : TRUE}]
    <3>1. c[s] = (CHOOSE x \in s : TRUE) /\ c[s] \in S
      BY <1>4, <2>1 DEF Chooses
    <3>2. f[s \ {c[s]}] \in Nat
      BY <1>7
    <3> DEFINE a == c[s]
               rest == f[s \ {c[s]}]
    <3>3. g[<<a, rest>>] = Scratch(a, blk) + rest
      <4>1. a \in S /\ rest \in Nat
        BY <3>1, <3>2
      <4> HIDE DEF a, rest
      <4> QED
        BY <4>1
    <3> QED
      BY <3>1, <3>3, Zenon
  <2> QED
    BY <1>7, <2>1
<1>9. Sums(it)
  <2> HIDE DEF Sums
  <2> QED
    BY <1>8, Zenon
<1> HIDE DEF it
<1>10. it[S] \in Nat
  <2> DEFINE T == {n \in Nat : \A s \in SUBSET S : Cardinality(s) = n => it[s] \in Nat}
  <2>1. \A s \in SUBSET S : IsFiniteSet(s) /\ Cardinality(s) \in Nat /\ (Cardinality(s) = 0 => s = {})
    BY <1>5, FS_Subset, FS_CardinalityType, FS_EmptySet
  <2>2. 0 \in T
    BY <1>9, <2>1
  <2>3. ASSUME NEW n \in Nat, n \in T PROVE n + 1 \in T
    <3> SUFFICES ASSUME NEW s \in SUBSET S, Cardinality(s) = n + 1
                 PROVE  it[s] \in Nat
      OBVIOUS
    <3>1. s # {}
      BY FS_EmptySet
    <3> DEFINE x == CHOOSE e \in s : TRUE
    <3>2. x \in s
      BY <3>1
    <3>3. it[s] = Scratch(x, blk) + it[s \ {x}]
      BY <1>9, <3>1
    <3> HIDE DEF x
    <3>4. Cardinality(s \ {x}) = n
      <4>1. Cardinality(s \ {x}) = Cardinality(s) - 1
        BY <2>1, <3>2, FS_RemoveElement
      <4> QED
        BY <4>1
    <3>5. it[s \ {x}] \in Nat
      BY <2>3, <3>4
    <3> QED
      BY <1>2, <3>2, <3>3, <3>5
  <2>4. Nat \subseteq T
    <3> HIDE DEF T
    <3> QED
      BY <2>2, <2>3, Induction
  <2>5. Cardinality(S) \in Nat
    BY <2>1
  <2> QED
    BY <2>4, <2>5
<1> QED
  BY <1>1, <1>3, <1>10, Zenon DEF NumCount

(* No block counts more than the longest one.                              *)
LEMMA LongestFacts ==
  ASSUME client \in Clients
  PROVE  Longest \in Nat /\ \A blk \in Block : NumCount(blk) \in Nat /\ NumCount(blk) <= Longest
<1> DEFINE all == {NumCount(blk) : blk \in Block}
           f == [blk \in Block |-> NumCount(blk)]
<1>1. \A blk \in Block : NumCount(blk) \in Nat
  BY NumCountNat
<1>2. IsFiniteSet(Block) /\ Block # {}
  BY TraceAssumption DEF Block
<1>3. f \in Surjection(Block, all)
  BY DEF Surjection
<1>4. IsFiniteSet(all)
  <2> HIDE DEF f, all
  <2> QED
    BY <1>2, <1>3, FS_Surjection
<1>5. all \in SUBSET Nat /\ all # {}
  BY <1>1, <1>2
<1>6. Max(all) \in all /\ \A i \in all : i <= Max(all)
  <2> HIDE DEF all
  <2> QED
    BY <1>4, <1>5, MaxOfFinite
<1> QED
  BY <1>1, <1>5, <1>6 DEF Longest

(* After w windows the counter stands at c, x has been counted in all and  *)
(* s of it sampled; d is the window, e its enabled part, l the longest     *)
(* block.                                                                  *)
Windows(w, c, x, s, d, e, l) ==
  /\ x = c + w * d
  /\ s <= w * (e + l) + c
  /\ s <= w * (e + l) + (e + l)
  /\ l < e => c <= d /\ s + w * l >= w * e + (IF c <= e THEN c ELSE e)

(* A block that counts n, not more than l, takes the counter into the next *)
(* window or leaves it in this one; its operands are sampled when it was   *)
(* within the enabled part before.                                         *)
LEMMA WindowTurn ==
  ASSUME NEW w \in Nat, NEW c \in Nat, NEW x \in Nat, NEW s \in Nat,
         NEW d \in Nat, NEW e \in Nat, NEW l \in Nat, NEW n \in Nat,
         e <= d, n <= l, Windows(w, c, x, s, d, e, l)
  PROVE  Windows(IF c + n > d THEN w + 1 ELSE w, IF c + n > d THEN c + n - d ELSE c + n,
                 x + n, s + (IF c <= e THEN n ELSE 0), d, e, l)
<1>1. /\ (w + 1) * d = w * d + d /\ (w + 1) * l = w * l + l /\ (w + 1) * e = w * e + e
      /\ w * d \in Nat /\ w * l \in Nat /\ w * e \in Nat
  BY Z3
<1>2. (w + 1) * (e + l) = w * (e + l) + (e + l) /\ w * (e + l) \in Nat
  <2>1. e + l \in Nat
    OBVIOUS
  <2> DEFINE k == e + l
  <2>2. k \in Nat
    BY <2>1
  <2> HIDE DEF k
  <2>3. (w + 1) * k = w * k + k /\ w * k \in Nat
    BY <2>2, Z3
  <2> QED
    BY <2>3 DEF k
<1> DEFINE wd == w * d
           wl == w * l
           we == w * e
           wk == w * (e + l)
           vd == (w + 1) * d
           vl == (w + 1) * l
           ve == (w + 1) * e
           vk == (w + 1) * (e + l)
<1>3. /\ vd = wd + d /\ vl = wl + l /\ ve = we + e /\ vk = wk + (e + l)
      /\ wd \in Nat /\ wl \in Nat /\ we \in Nat /\ wk \in Nat
  BY <1>1, <1>2
<1>4. /\ x = c + wd /\ s <= wk + c /\ s <= wk + (e + l)
      /\ l < e => c <= d /\ s + wl >= we + (IF c <= e THEN c ELSE e)
  BY DEF Windows
<1> HIDE DEF wd, wl, we, wk, vd, vl, ve, vk
<1>5. CASE c + n > d
  <2>1. /\ x + n = (c + n - d) + vd
        /\ s + (IF c <= e THEN n ELSE 0) <= vk + (c + n - d)
        /\ s + (IF c <= e THEN n ELSE 0) <= vk + (e + l)
    BY <1>3, <1>4, <1>5
  <2>2. l < e => /\ c + n - d <= d
                 /\ s + (IF c <= e THEN n ELSE 0) + vl
                      >= ve + (IF c + n - d <= e THEN c + n - d ELSE e)
    BY <1>3, <1>4, <1>5
  <2> QED
    BY <1>5, <2>1, <2>2 DEF Windows, vd, vl, ve, vk
<1>6. CASE ~(c + n > d)
  <2>1. /\ x + n = (c + n) + wd
        /\ s + (IF c <= e THEN n ELSE 0) <= wk + (c + n)
        /\ s + (IF c <= e THEN n ELSE 0) <= wk + (e + l)
    BY <1>3, <1>4, <1>6
  <2>2. l < e => /\ c + n <= d
                 /\ s + (IF c <= e THEN n ELSE 0) + wl
                      >= we + (IF c + n <= e THEN c + n ELSE e)
    BY <1>3, <1>4, <1>6
  <2> QED
    BY <1>6, <2>1, <2>2 DEF Windows, wd, wl, we, wk
<1> QED
  BY <1>5, <1>6

(* What that says of the share of the windows that have been counted.      *)
LEMMA WindowShare ==
  ASSUME NEW w \in Nat, NEW c \in Nat, NEW x \in Nat, NEW s \in Nat,
         NEW d \in Nat \ {0}, NEW e \in Nat, NEW l \in Nat, e <= d, Windows(w, c, x, s, d, e, l)
  PROVE  /\ s + (x \div d) * l >= (x \div d) * e
         /\ s <= ((x \div d) + 1) * (e + l)
<1> DEFINE q == x \div d
           r == x % d
<1>1. q \in Nat /\ r \in Nat /\ r < d /\ x = d * q + r
  OBVIOUS
<1> HIDE DEF q, r
<1>2. d * q = q * d /\ q * d \in Nat /\ w * d \in Nat /\ (q + 1) * d = q * d + d
      /\ (w + 1) * d = w * d + d /\ ((w + 1) + 1) * d = (w + 1) * d + d
  BY <1>1, Z3
<1>3. /\ q + 1 <= w => (q + 1) * d <= w * d
      /\ (w + 1) + 1 <= q => ((w + 1) + 1) * d <= q * d
  BY <1>1, Z3
<1> DEFINE wd == w * d
           qd == q * d
           q1d == (q + 1) * d
           w1d == (w + 1) * d
           w2d == ((w + 1) + 1) * d
<1>4. /\ x = qd + r /\ qd \in Nat /\ wd \in Nat /\ q1d = qd + d /\ w1d = wd + d /\ w2d = w1d + d
      /\ (q + 1 <= w => q1d <= wd) /\ ((w + 1) + 1 <= q => w2d <= qd)
      /\ x = c + wd
      /\ q = w + 1 => qd = w1d
  BY <1>1, <1>2, <1>3 DEF Windows
<1> HIDE DEF wd, qd, q1d, w1d, w2d
<1>5. w <= q /\ (c <= d => q = w \/ (q = w + 1 /\ c = d))
  BY <1>1, <1>4
<1>6. s + q * l >= q * e
  <2>1. CASE l >= e
    <3>1. q * l >= q * e /\ q * l \in Nat /\ q * e \in Nat
      BY <1>1, <2>1, Z3
    <3> DEFINE ql == q * l
               qe == q * e
    <3>2. ql >= qe /\ ql \in Nat /\ qe \in Nat
      BY <3>1
    <3> HIDE DEF ql, qe
    <3>3. s + ql >= qe
      BY <3>2
    <3> QED
      BY <3>3 DEF ql, qe
  <2>2. CASE ~(l >= e)
    <3>1. w * l \in Nat /\ w * e \in Nat /\ (w + 1) * l = w * l + l /\ (w + 1) * e = w * e + e
      BY Z3
    <3> DEFINE wl == w * l
               we == w * e
               vl == (w + 1) * l
               ve == (w + 1) * e
    <3>2. /\ wl \in Nat /\ we \in Nat /\ vl = wl + l /\ ve = we + e
          /\ c <= d /\ s + wl >= we + (IF c <= e THEN c ELSE e)
      BY <2>2, <3>1 DEF Windows
    <3> HIDE DEF wl, we, vl, ve
    <3>3. CASE q = w
      <4>1. s + wl >= we
        BY <3>2
      <4> QED
        BY <3>3, <4>1 DEF wl, we
    <3>4. CASE q = w + 1 /\ c = d
      <4>1. s + vl >= ve
        BY <3>2, <3>4
      <4> QED
        BY <3>4, <4>1 DEF vl, ve
    <3> QED
      BY <1>5, <3>2, <3>3, <3>4
  <2> QED
    BY <2>1, <2>2
<1>7. s <= (q + 1) * (e + l)
  <2> DEFINE k == e + l
  <2>1. k \in Nat /\ s <= w * k + k
    BY DEF Windows
  <2> HIDE DEF k
  <2>2. (w + 1) * k = w * k + k /\ (w + 1) * k <= (q + 1) * k /\ (q + 1) * k \in Nat /\ w * k \in Nat
    BY <1>1, <1>5, <2>1, Z3
  <2> DEFINE a == w * k
             b == (w + 1) * k
             z == (q + 1) * k
  <2>3. s <= a + k /\ b = a + k /\ b <= z /\ a \in Nat /\ z \in Nat
    BY <2>1, <2>2
  <2> HIDE DEF a, b, z
  <2>4. s <= z
    BY <2>1, <2>3
  <2> QED
    BY <2>4 DEF z, k
<1> QED
  BY <1>6, <1>7 DEF q

(* The counter has wrapped around w times.                                 *)
SampleInv ==
  /\ client \in Clients
  /\ counter \in Nat /\ executed \in Nat /\ sampled \in Nat
  /\ Bursty => \E w \in Nat : Windows(w, counter, executed, sampled, WindowDisable, WindowEnable, Longest)

(* Nothing has been counted when the thread starts.                        *)
LEMMA SampleInit == Init => SampleInv
<1> SUFFICES ASSUME Init PROVE SampleInv
  OBVIOUS
<1>1. Longest \in Nat /\ WindowEnable \in Nat /\ WindowDisable \in Nat
  BY LongestFacts, TraceAssumption DEF Init, WindowEnable, WindowDisable
<1>2. Windows(0, 0, 0, 0, WindowDisable, WindowEnable, Longest)
  <2> DEFINE d == WindowDisable
             e == WindowEnable
             l == Longest
  <2>1. d \in Nat /\ e \in Nat /\ l \in Nat
    BY <1>1
  <2> HIDE DEF d, e, l
  <2>2. 0 * d = 0 /\ 0 * l = 0 /\ 0 * e = 0 /\ 0 * (e + l) = 0
    BY <2>1
  <2>3. Windows(0, 0, 0, 0, d, e, l)
    BY <2>1, <2>2 DEF Windows
  <2> QED
    BY <2>3 DEF d, e, l
<1> QED
  BY <1>2 DEF SampleInv, Init

(* The program of the client that is loaded determines what a block        *)
(* counts; these are FillNum, Scratch, NumCount and Longest, of a client.  *)
FillNumOf(c, b, i) ==
  LET writes == Occurrences(b, i.dsts)
  IN ((IF i.cti THEN 0 ELSE writes) + (IF c.before_write THEN writes ELSE 0)
      + Occurrences(b, ReadBuffers(i))) * RecordSize[b]

ScratchOf(c, b, blk) == FoldLeft(LAMBDA n, i : (n + FillNumOf(c, b, i)) % ScratchWidth, 0, c.code[blk])

NumCountOf(c, blk) ==
  IF c.by_operand THEN MapThenSumSet(LAMBDA b : ScratchOf(c, b, blk), Buffer)
  ELSE Len(c.code[blk])

LongestOf(c) == Max({NumCountOf(c, blk) : blk \in DOMAIN c.code})

(* So it stays the same as long as the client does.                        *)
LEMMA SameLongest ==
  ASSUME client' = client
  PROVE  /\ Longest' = Longest /\ WindowEnable' = WindowEnable /\ WindowDisable' = WindowDisable
         /\ Bursty' = Bursty
<1>1. Longest = LongestOf(client)
  BY Zenon DEF Longest, NumCount, Scratch, FillNum, Code, Block, BeforeWrite,
               LongestOf, NumCountOf, ScratchOf, FillNumOf
<1>2. Longest' = LongestOf(client')
  BY Zenon DEF Longest, NumCount, Scratch, FillNum, Code, Block, BeforeWrite,
               LongestOf, NumCountOf, ScratchOf, FillNumOf,
               FoldLeft, MapThenSumSet, MapThenFoldSet, Occurrences, ReadBuffers
<1>3. LongestOf(client') = LongestOf(client)
  OBVIOUS
<1>4. WindowEnable' = WindowEnable /\ WindowDisable' = WindowDisable /\ Bursty' = Bursty
  BY DEF WindowEnable, WindowDisable, Bursty
<1> QED
  BY <1>1, <1>2, <1>3, <1>4

(* Only the start of a block counts.                                       *)
LEMMA StepSamples == SampleInv /\ WindowSet /\ [Next]_vars => SampleInv'
<1> SUFFICES ASSUME SampleInv, WindowSet, [Next]_vars PROVE SampleInv'
  OBVIOUS
<1>1. ASSUME client' = client, UNCHANGED window PROVE SampleInv'
  <2>1. UNCHANGED <<counter, executed, sampled>>
    BY <1>1 DEF window
  <2> QED
    BY <1>1, <2>1, SameLongest DEF SampleInv
<1>2. ASSUME NEW blk \in Block, EnterBlock(blk) PROVE SampleInv'
  <2> DEFINE n == NumCount(blk)
  <2>1. client' = client /\ Count(blk)
    BY <1>2 DEF EnterBlock
  <2>2. CASE Bursty /\ Traces(blk)
    <3>1. PICK w \in Nat : Windows(w, counter, executed, sampled, WindowDisable, WindowEnable, Longest)
      BY <2>2 DEF SampleInv
    <3>2. /\ counter' = IF counter + n > WindowDisable THEN counter + n - WindowDisable ELSE counter + n
          /\ executed' = executed + n
          /\ sampled' = sampled + (IF counter <= WindowEnable THEN n ELSE 0)
      BY <2>1, <2>2 DEF Count, Advance, Hot
    <3>3. /\ n \in Nat /\ n <= Longest /\ Longest \in Nat
          /\ counter \in Nat /\ executed \in Nat /\ sampled \in Nat
      BY LongestFacts DEF SampleInv
    <3>4. WindowEnable \in Nat /\ WindowDisable \in Nat /\ WindowEnable <= WindowDisable
      BY <2>2, TraceAssumption DEF SampleInv, WindowSet, WindowEnable, WindowDisable
    <3> HIDE DEF n
    <3> DEFINE v == IF counter + n > WindowDisable THEN w + 1 ELSE w
    <3>5. v \in Nat
      BY <3>1
    <3>6. Windows(v, counter', executed', sampled', WindowDisable, WindowEnable, Longest)
      BY <3>1, <3>2, <3>3, <3>4, WindowTurn
    <3>7. counter' \in Nat /\ executed' \in Nat /\ sampled' \in Nat
      BY <3>2, <3>3, <3>4
    <3> HIDE DEF v
    <3> QED
      BY <2>1, <3>5, <3>6, <3>7, SameLongest DEF SampleInv
  <2>3. CASE ~(Bursty /\ Traces(blk))
    BY <1>1, <2>1, <2>3 DEF Count
  <2> QED
    BY <2>2, <2>3
<1>3. CASE Record \/ LeaveBlock \/ ThreadExit \/ UNCHANGED vars
  BY <1>1, <1>3 DEF Record, LeaveBlock, ThreadExit, vars
<1> QED
  BY <1>2, <1>3 DEF Next

(* The share of operands that is sampled is that of the enabled part of    *)
(* the window, up to one block per window, for any program and window.     *)
THEOREM SampleRateKept == Spec /\ []WindowSet => []SampleRate
<1>1. SampleInv /\ WindowSet => SampleRate
  <2> SUFFICES ASSUME SampleInv, WindowSet, Bursty
               PROVE  LET windows == executed \div WindowDisable
                      IN  /\ sampled + windows * Longest >= windows * WindowEnable
                          /\ sampled <= (windows + 1) * (WindowEnable + Longest)
    BY DEF SampleRate, Longest
  <2>1. PICK w \in Nat : Windows(w, counter, executed, sampled, WindowDisable, WindowEnable, Longest)
    BY DEF SampleInv
  <2>2. /\ Longest \in Nat /\ counter \in Nat /\ executed \in Nat /\ sampled \in Nat
        /\ WindowEnable \in Nat /\ WindowDisable \in Nat \ {0} /\ WindowEnable <= WindowDisable
    BY LongestFacts, TraceAssumption DEF SampleInv, WindowSet, WindowEnable, WindowDisable
  <2> QED
    BY <2>1, <2>2, WindowShare
<1> QED
  BY <1>1, SampleInit, StepSamples, PTL DEF Spec
=============================================================================
