------------------------ MODULE MemoryClientsProofs ------------------------
(***************************************************************************)
(* Proofs about ShadowMemory and the clients on it, for any number of      *)
(* threads, slots, pages and programs.                                     *)
(*                                                                         *)
(* First the memory: no table and no page is lost or freed while it is in  *)
(* use, and what the threads share behaves as one map from addresses to    *)
(* cells.  Then the clients: every step of one is a step of the memory or  *)
(* leaves it alone, so what is proved about the memory holds below every   *)
(* client.  Then what the clients count of their own: the records they      *)
(* apply, what these weigh, and the slots in which redspy keeps values.    *)
(***************************************************************************)
EXTENDS MemoryClients, DataInduction, SequenceTheorems, TLAPS

(* The page of a base address, through the slot its table is in. *)
PageAt(b) == IF directory[b[1]] = NULL THEN NULL ELSE table[directory[b[1]]][b[2]]

(* What is in a slot was made for that slot. *)
SlotsOwn ==
    /\ \A i \in DirSlot : directory[i] # NULL => directory[i][1] = i
    /\ \A b \in Base : PageAt(b) # NULL => PageAt(b)[1] = b

(* What is in no slot is as it was allocated. *)
SparesFresh ==
    /\ \A T \in TableId, j \in TableSlot : directory[T[1]] # T => table[T][j] = NULL
    /\ \A p \in PageId, o \in Offset : PageAt(p[1]) # p => page[p][o] = Zero

(* What a thread has found is still in its slot, and what it is about to    *)
(* offer is not.                                                           *)
FoundOK(t) ==
    /\ step[t] \in {"load table", "swap table", "reload table"} =>
         v1[t] # NULL /\ v1[t] = directory[at[t][1]]
    /\ step[t] = "held" => v2[t] # NULL /\ v2[t] = PageAt(at[t])
    /\ step[t] = "swap dir" => directory[at[t][1]] # OwnTable(t)
    /\ step[t] = "swap table" => PageAt(at[t]) # OwnPage(t)
    /\ step[t] = "reload dir" => directory[at[t][1]] # NULL
    /\ step[t] = "reload table" => PageAt(at[t]) # NULL
    /\ ~ mapped => step[t] \in Resting

(* PagesAccounted, one table and one page at a time. *)
AllCounted ==
    /\ \A T \in TableId : T \in tables <=>
         mapped /\ (directory[T[1]] = T \/ (step[T[2]] = "swap dir" /\ at[T[2]][1] = T[1]))
    /\ \A p \in PageId : p \in pages <=>
         mapped /\ (PageAt(p[1]) = p \/ (step[p[2]] = "swap table" /\ at[p[2]] = p[1]))

IInv ==
    /\ ShadowTypeOK
    /\ SlotsOwn
    /\ SparesFresh
    /\ \A t \in Thread : FoundOK(t)
    /\ AllCounted

-----------------------------------------------------------------------------
(* Type correctness.                                                       *)

LEMMA Ids ==
  /\ \A T \in TableId : T # NULL
  /\ \A p \in PageId : p # NULL
  /\ 0 \in DirSlot /\ 0 \in TableSlot
BY ShadowMemoryAssumption DEF DirSlot, TableSlot

LEMMA OwnIds ==
  ASSUME ShadowTypeOK, NEW t \in Thread
  PROVE  /\ at[t] \in Base
         /\ at[t] = <<at[t][1], at[t][2]>>
         /\ at[t][1] \in DirSlot /\ at[t][2] \in TableSlot
         /\ OwnTable(t) \in TableId /\ OwnPage(t) \in PageId
BY DEF ShadowTypeOK, Base, OwnTable, OwnPage, TableId, PageId

(* Every step of one thread, for the proofs that go through its actions. *)
ThreadNext(t) ==
    \/ \E b \in Base, c \in BOOLEAN : Ask(t, b, c)
    \/ LookupStep(t)
    \/ \E a \in Addr : ReadCell(t, a)
    \/ \E a \in Addr, c \in Cell : WriteCell(t, a, c)

LEMMA TypeInit == ShadowInit => ShadowTypeOK
BY Ids, ShadowMemoryAssumption DEF ShadowInit, ShadowTypeOK, Base, Resting

LEMMA TypeKept ==
  ASSUME ShadowTypeOK, \A t \in Thread : FoundOK(t), SlotsOwn, [ShadowNext]_shadowVars
  PROVE  ShadowTypeOK'
<1>1. CASE UNCHANGED shadowVars
  BY <1>1 DEF ShadowTypeOK, shadowVars, memory, look
<1>2. CASE Destroy
  BY <1>2 DEF Destroy, ShadowTypeOK, slots, look
<1>3. ASSUME NEW t \in Thread, ThreadNext(t) PROVE ShadowTypeOK'
  <2>1. CASE \E b \in Base, c \in BOOLEAN : Ask(t, b, c)
    BY <2>1, ZenonT(30) DEF Ask, ShadowTypeOK, memory, Lookup
  <2>2. CASE FindTable(t)
    BY <2>2, OwnIds DEF FindTable, DirValue, ShadowTypeOK, memory, Lookup
  <2>3. CASE NoTable(t)
    BY <2>3 DEF NoTable, ShadowTypeOK, memory, Resting
  <2>4. CASE AllocTable(t)
    BY <2>4, OwnIds DEF AllocTable, ShadowTypeOK, Lookup
  <2>5. CASE InstallTable(t)
    BY <2>5, OwnIds DEF InstallTable, ShadowTypeOK, Lookup
  <2>6. CASE LoseTable(t)
    BY <2>6 DEF LoseTable, ShadowTypeOK, slots, Lookup
  <2>7. CASE AdoptTable(t)
    BY <2>7, OwnIds DEF AdoptTable, DirValue, ShadowTypeOK, memory, Lookup
  <2>8. CASE FindPage(t)
    <3>1. TableValue(t) \in PageId \cup {NULL}
      <4>1. v1[t] \in TableId /\ at[t][2] \in TableSlot
        BY <2>8, OwnIds DEF FindPage, FoundOK, ShadowTypeOK
      <4> QED
        BY <4>1 DEF TableValue, ShadowTypeOK
    <3> QED
      BY <2>8, <3>1 DEF FindPage, ShadowTypeOK, memory, Resting
  <2>9. CASE NoPage(t)
    BY <2>9 DEF NoPage, ShadowTypeOK, memory, Resting
  <2>10. CASE AllocPage(t)
    BY <2>10, OwnIds, ShadowMemoryAssumption DEF AllocPage, ShadowTypeOK, slots, Lookup
  <2>11. CASE InstallPage(t)
    <3>1. v1[t] \in TableId /\ OwnPage(t) \in PageId /\ at[t][2] \in TableSlot
      BY <2>11, OwnIds DEF InstallPage, FoundOK, ShadowTypeOK
    <3>2. table' \in [TableId -> [TableSlot -> PageId \cup {NULL}]]
      BY <2>11, <3>1 DEF InstallPage, ShadowTypeOK
    <3> QED
      BY <2>11, <3>1, <3>2 DEF InstallPage, ShadowTypeOK, Resting
  <2>12. CASE LosePage(t)
    BY <2>12 DEF LosePage, ShadowTypeOK, slots, Lookup
  <2>13. CASE AdoptPage(t)
    <3>1. TableValue(t) \in PageId \cup {NULL}
      <4>1. v1[t] \in TableId /\ at[t][2] \in TableSlot
        BY <2>13, OwnIds DEF AdoptPage, FoundOK, ShadowTypeOK
      <4> QED
        BY <4>1 DEF TableValue, ShadowTypeOK
    <3> QED
      BY <2>13, <3>1 DEF AdoptPage, ShadowTypeOK, memory, Resting
  <2>14. ASSUME NEW a \in Addr, ReadCell(t, a) PROVE ShadowTypeOK'
    <3>1. v2[t] \in PageId /\ a[3] \in Offset
      <4>1. PageAt(at[t]) \in PageId \cup {NULL}
        BY OwnIds DEF PageAt, ShadowTypeOK
      <4> QED
        BY <2>14, <4>1 DEF ReadCell, Holds, FoundOK, Addr
    <3> QED
      BY <2>14, <3>1 DEF ReadCell, ShadowTypeOK, memory
  <2>15. ASSUME NEW a \in Addr, NEW c \in Cell, WriteCell(t, a, c) PROVE ShadowTypeOK'
    <3>1. page' \in [PageId -> [Offset -> Cell]]
      BY <2>15 DEF WriteCell, ShadowTypeOK
    <3> QED
      BY <2>15, <3>1 DEF WriteCell, ShadowTypeOK, slots, look
  <2> QED
    BY <1>3, <2>1, <2>2, <2>3, <2>4, <2>5, <2>6, <2>7, <2>8, <2>9, <2>10, <2>11, <2>12,
       <2>13, <2>14, <2>15 DEF ThreadNext, LookupStep
<1> QED
  BY <1>1, <1>2, <1>3 DEF ShadowNext, ThreadNext

-----------------------------------------------------------------------------
(* What a step does to the slots.                                          *)

(* A fresh table and a fresh page are what the model has there already. *)
LEMMA AllocTableFresh ==
  ASSUME ShadowTypeOK, SparesFresh, NEW t \in Thread, AllocTable(t)
  PROVE  table' = table
<1>1. OwnTable(t) \in TableId /\ directory[at[t][1]] = NULL /\ OwnTable(t)[1] = at[t][1]
  BY OwnIds DEF AllocTable, DirValue, OwnTable
<1>2. \A j \in TableSlot : table[OwnTable(t)][j] = NULL
  BY <1>1, Ids DEF SparesFresh
<1>3. table[OwnTable(t)] = [j \in TableSlot |-> NULL]
  BY <1>1, <1>2 DEF ShadowTypeOK
<1> QED
  BY <1>1, <1>3 DEF AllocTable, ShadowTypeOK

LEMMA TableSlotIsPageAt ==
  ASSUME ShadowTypeOK, NEW t \in Thread, FoundOK(t),
         step[t] \in {"load table", "swap table", "reload table"}
  PROVE  /\ TableValue(t) = PageAt(at[t])
         /\ v1[t] \in TableId /\ v1[t] = directory[at[t][1]]
BY OwnIds DEF FoundOK, TableValue, PageAt, ShadowTypeOK

LEMMA AllocPageFresh ==
  ASSUME ShadowTypeOK, SparesFresh, NEW t \in Thread, FoundOK(t), AllocPage(t)
  PROVE  page' = page
<1>1. OwnPage(t) \in PageId /\ PageAt(at[t]) = NULL /\ OwnPage(t)[1] = at[t]
  BY OwnIds, TableSlotIsPageAt DEF AllocPage, OwnPage
<1>2. \A o \in Offset : page[OwnPage(t)][o] = Zero
  BY <1>1, Ids DEF SparesFresh
<1>3. page[OwnPage(t)] = [o \in Offset |-> Zero]
  BY <1>1, <1>2 DEF ShadowTypeOK
<1> QED
  BY <1>1, <1>3 DEF AllocPage, ShadowTypeOK

(* A new table is empty: installing it moves no page. *)
LEMMA InstallTableMoves ==
  ASSUME ShadowTypeOK, SparesFresh, NEW t \in Thread, InstallTable(t)
  PROVE  /\ \A i \in DirSlot : directory'[i] = IF i = at[t][1] THEN OwnTable(t) ELSE directory[i]
         /\ directory[at[t][1]] = NULL
         /\ \A b \in Base : PageAt(b)' = PageAt(b)
<1>1. /\ OwnTable(t) \in TableId /\ OwnTable(t) # NULL /\ OwnTable(t)[1] = at[t][1]
      /\ directory[at[t][1]] = NULL /\ at[t][1] \in DirSlot
  BY OwnIds, Ids DEF InstallTable, DirValue, OwnTable
<1>2. \A i \in DirSlot : directory'[i] = IF i = at[t][1] THEN OwnTable(t) ELSE directory[i]
  BY <1>1 DEF InstallTable, ShadowTypeOK
<1>3. \A j \in TableSlot : table[OwnTable(t)][j] = NULL
  BY <1>1 DEF SparesFresh
<1>4. ASSUME NEW b \in Base PROVE PageAt(b)' = PageAt(b)
  <2>1. b[1] \in DirSlot /\ b[2] \in TableSlot
    BY DEF Base
  <2>2. table' = table
    BY DEF InstallTable
  <2>3. CASE b[1] = at[t][1]
    <3>1. PageAt(b) = NULL
      BY <1>1, <2>3 DEF PageAt
    <3>2. directory'[b[1]] = OwnTable(t)
      BY <1>2, <2>1, <2>3
    <3>3. PageAt(b)' = table[OwnTable(t)][b[2]]
      BY <1>1, <2>2, <3>2 DEF PageAt
    <3> QED
      BY <1>3, <2>1, <3>1, <3>3
  <2>4. CASE b[1] # at[t][1]
    BY <1>2, <2>1, <2>2, <2>4 DEF PageAt
  <2> QED
    BY <2>3, <2>4
<1> QED
  BY <1>1, <1>2, <1>4

LEMMA InstallPageMoves ==
  ASSUME ShadowTypeOK, SlotsOwn, NEW t \in Thread, FoundOK(t), InstallPage(t)
  PROVE  /\ PageAt(at[t]) = NULL
         /\ \A b \in Base : PageAt(b)' = IF b = at[t] THEN OwnPage(t) ELSE PageAt(b)
<1>1. /\ TableValue(t) = PageAt(at[t]) /\ v1[t] = directory[at[t][1]]
      /\ v1[t] \in TableId /\ v1[t] # NULL
  BY TableSlotIsPageAt, Ids DEF InstallPage
<1>2. at[t] \in Base /\ at[t][1] \in DirSlot /\ at[t][2] \in TableSlot
      /\ at[t] = <<at[t][1], at[t][2]>>
  BY OwnIds
<1>3. ASSUME NEW b \in Base PROVE PageAt(b)' = IF b = at[t] THEN OwnPage(t) ELSE PageAt(b)
  <2>1. b[1] \in DirSlot /\ b[2] \in TableSlot /\ b = <<b[1], b[2]>>
    BY DEF Base
  <2>2. CASE b = at[t]
    BY <1>1, <1>2, <2>2 DEF PageAt, InstallPage, ShadowTypeOK
  <2>3. CASE b[1] # at[t][1]
    <3>1. directory[b[1]] # NULL => directory[b[1]] # v1[t]
      BY <1>1, <1>2, <2>1, <2>3 DEF SlotsOwn
    <3> QED
      BY <1>1, <1>2, <2>1, <2>3, <3>1 DEF PageAt, InstallPage, ShadowTypeOK
  <2>4. CASE b[2] # at[t][2]
    BY <1>1, <1>2, <2>1, <2>4 DEF PageAt, InstallPage, ShadowTypeOK
  <2> QED
    BY <1>2, <2>1, <2>2, <2>3, <2>4
<1> QED
  BY <1>1, <1>3 DEF InstallPage

(* A thread only changes its own look-up; a slot it changes was empty and   *)
(* gets what the thread made for it.                                       *)
OthersSame(t) ==
    \A u \in Thread \ {t} : /\ step'[u] = step[u] /\ at'[u] = at[u]
                            /\ v1'[u] = v1[u] /\ v2'[u] = v2[u]
PagesMove(t) ==
    \A b \in Base : PageAt(b)' = PageAt(b) \/ (PageAt(b) = NULL /\ PageAt(b)' = <<b, t>>)

Effects(t) ==
    /\ mapped' = mapped
    /\ OthersSame(t)
    /\ \A i \in DirSlot :
         directory'[i] = directory[i] \/ (directory[i] = NULL /\ directory'[i] = <<i, t>>)
    /\ PagesMove(t)

LEMMA SlotsSame ==
  ASSUME directory' = directory, table' = table, NEW b
  PROVE  PageAt(b)' = PageAt(b)
BY DEF PageAt

LEMMA EffectsOfStep ==
  ASSUME IInv, NEW t \in Thread, ThreadNext(t)
  PROVE  Effects(t)
<1> USE DEF IInv
<1>0. ShadowTypeOK /\ SlotsOwn /\ SparesFresh /\ FoundOK(t)
  OBVIOUS
<1>1. CASE \/ \E b \in Base, c \in BOOLEAN : Ask(t, b, c)
           \/ \E a \in Addr : ReadCell(t, a)
           \/ \E a \in Addr, c \in Cell : WriteCell(t, a, c)
           \/ FindTable(t) \/ NoTable(t) \/ LoseTable(t) \/ AdoptTable(t)
           \/ FindPage(t) \/ NoPage(t) \/ AllocPage(t) \/ LosePage(t) \/ AdoptPage(t)
  <2>1. directory' = directory /\ table' = table /\ mapped' = mapped
    BY <1>1 DEF Ask, ReadCell, WriteCell, FindTable, NoTable, LoseTable, AdoptTable, FindPage,
                NoPage, AllocPage, LosePage, AdoptPage, memory, slots
  <2>2. OthersSame(t)
    BY <1>0, <1>1 DEF Ask, ReadCell, WriteCell, FindTable, NoTable, LoseTable, AdoptTable, FindPage,
                NoPage, AllocPage, LosePage, AdoptPage, look, ShadowTypeOK, OthersSame
  <2>3. PagesMove(t)
    BY <2>1, SlotsSame DEF PagesMove
  <2> QED
    BY <2>1, <2>2, <2>3 DEF Effects
<1>2. CASE AllocTable(t)
  <2>1. directory' = directory /\ table' = table /\ mapped' = mapped
    BY <1>0, <1>2, AllocTableFresh DEF AllocTable
  <2>2. OthersSame(t)
    BY <1>0, <1>2 DEF AllocTable, OthersSame, ShadowTypeOK
  <2>3. PagesMove(t)
    BY <2>1, SlotsSame DEF PagesMove
  <2> QED
    BY <2>1, <2>2, <2>3 DEF Effects
<1>3. CASE InstallTable(t)
  <2>1. /\ \A i \in DirSlot : directory'[i] = IF i = at[t][1] THEN OwnTable(t) ELSE directory[i]
        /\ directory[at[t][1]] = NULL
    BY <1>0, <1>3, InstallTableMoves
  <2>2. OthersSame(t) /\ mapped' = mapped
    BY <1>0, <1>3 DEF InstallTable, OthersSame, ShadowTypeOK
  <2>3. PagesMove(t)
    BY <1>0, <1>3, InstallTableMoves DEF PagesMove
  <2> QED
    BY <2>1, <2>2, <2>3 DEF Effects, OwnTable
<1>4. CASE InstallPage(t)
  <2>1. directory' = directory /\ mapped' = mapped
    BY <1>4 DEF InstallPage
  <2>2. OthersSame(t)
    BY <1>0, <1>4 DEF InstallPage, OthersSame, ShadowTypeOK
  <2>3. PagesMove(t)
    <3>1. /\ PageAt(at[t]) = NULL
          /\ \A b \in Base : PageAt(b)' = IF b = at[t] THEN OwnPage(t) ELSE PageAt(b)
      BY <1>0, <1>4, InstallPageMoves
    <3>2. ASSUME NEW b \in Base
          PROVE  PageAt(b)' = PageAt(b) \/ (PageAt(b) = NULL /\ PageAt(b)' = <<b, t>>)
      <4>1. PageAt(b)' = IF b = at[t] THEN OwnPage(t) ELSE PageAt(b)
        BY <3>1
      <4>2. CASE b = at[t]
        BY <3>1, <4>1, <4>2 DEF OwnPage
      <4>3. CASE b # at[t]
        BY <4>1, <4>3
      <4> QED
        BY <4>2, <4>3
    <3> QED
      BY <3>2 DEF PagesMove
  <2> QED
    BY <2>1, <2>2, <2>3 DEF Effects
<1> QED
  BY <1>1, <1>2, <1>3, <1>4 DEF ThreadNext, LookupStep

-----------------------------------------------------------------------------
(* The rest of the invariant is kept by the steps of a thread.             *)

LEMMA SlotsOwnKept ==
  ASSUME IInv, NEW t \in Thread, Effects(t)
  PROVE  SlotsOwn'
<1>1. ASSUME NEW i \in DirSlot, directory'[i] # NULL PROVE directory'[i][1] = i
  BY <1>1 DEF IInv, SlotsOwn, Effects
<1>2. ASSUME NEW b \in Base, PageAt(b)' # NULL PROVE PageAt(b)'[1] = b
  BY <1>2 DEF IInv, SlotsOwn, Effects, PagesMove
<1> QED
  BY <1>1, <1>2 DEF SlotsOwn

(* Tables: only a slot of an installed table is ever filled. *)
LEMMA TablesFreshKept ==
  ASSUME IInv, NEW t \in Thread, ThreadNext(t), Effects(t),
         NEW T \in TableId, NEW j \in TableSlot, directory'[T[1]] # T
  PROVE  table'[T][j] = NULL
<1>0. ShadowTypeOK /\ SlotsOwn /\ SparesFresh /\ FoundOK(t) /\ T[1] \in DirSlot
  BY DEF IInv, TableId
<1>1. directory[T[1]] # T
  BY <1>0, Ids DEF Effects
<1>2. table[T][j] = NULL
  BY <1>0, <1>1 DEF SparesFresh
<1>3. CASE table' = table
  BY <1>2, <1>3
<1>4. CASE InstallPage(t)
  <2>1. v1[t] \in TableId /\ v1[t] = directory[at[t][1]] /\ v1[t] # NULL /\ at[t][1] \in DirSlot
    BY <1>0, <1>4, TableSlotIsPageAt, OwnIds, Ids DEF InstallPage
  <2>2. v1[t] # T
    BY <1>0, <1>1, <2>1 DEF SlotsOwn
  <2> QED
    BY <1>0, <1>2, <1>4, <2>1, <2>2 DEF InstallPage, ShadowTypeOK
<1>5. CASE AllocTable(t)
  BY <1>0, <1>2, <1>5, AllocTableFresh
<1> QED
  BY <1>3, <1>4, <1>5 DEF ThreadNext, LookupStep, Ask, ReadCell, WriteCell, FindTable, NoTable,
     InstallTable, LoseTable, AdoptTable, FindPage, NoPage, AllocPage, LosePage, AdoptPage,
     memory, slots

(* Pages: only a cell of an installed page is ever written. *)
LEMMA PagesFreshKept ==
  ASSUME IInv, NEW t \in Thread, ThreadNext(t), Effects(t),
         NEW p \in PageId, NEW o \in Offset, PageAt(p[1])' # p
  PROVE  page'[p][o] = Zero
<1>0. ShadowTypeOK /\ SlotsOwn /\ SparesFresh /\ FoundOK(t) /\ p[1] \in Base
  BY DEF IInv, PageId
<1>1. PageAt(p[1]) # p
  BY <1>0, Ids DEF Effects, PagesMove
<1>2. page[p][o] = Zero
  BY <1>0, <1>1 DEF SparesFresh
<1>3. CASE page' = page
  BY <1>2, <1>3
<1>4. ASSUME NEW a \in Addr, NEW c \in Cell, WriteCell(t, a, c) PROVE page'[p][o] = Zero
  <2>1. v2[t] = PageAt(at[t]) /\ v2[t] # NULL /\ at[t] \in Base
    BY <1>0, <1>4, OwnIds DEF WriteCell, Holds, FoundOK
  <2>2. v2[t] # p
    BY <1>0, <1>1, <2>1 DEF SlotsOwn
  <2> QED
    BY <1>0, <1>2, <1>4, <2>2 DEF WriteCell, ShadowTypeOK
<1>5. CASE AllocPage(t)
  BY <1>0, <1>2, <1>5, AllocPageFresh
<1> QED
  BY <1>3, <1>4, <1>5 DEF ThreadNext, LookupStep, Ask, ReadCell, FindTable, NoTable, AllocTable,
     InstallTable, LoseTable, AdoptTable, FindPage, NoPage, InstallPage, LosePage, AdoptPage,
     memory, slots

LEMMA SparesFreshKept ==
  ASSUME IInv, NEW t \in Thread, ThreadNext(t), Effects(t)
  PROVE  SparesFresh'
BY TablesFreshKept, PagesFreshKept DEF SparesFresh

(* What the others have found stays where it is. *)
LEMMA FoundOKOfOthers ==
  ASSUME IInv, NEW t \in Thread, Effects(t), NEW u \in Thread, u # t
  PROVE  FoundOK(u)'
<1>0. FoundOK(u) /\ at[u] \in Base /\ at[u][1] \in DirSlot
  BY OwnIds DEF IInv
<1>1. step'[u] = step[u] /\ at'[u] = at[u] /\ v1'[u] = v1[u] /\ v2'[u] = v2[u] /\ mapped' = mapped
  BY DEF Effects, OthersSame
<1>2. /\ directory[at[u][1]] # NULL => directory'[at[u][1]] = directory[at[u][1]]
      /\ directory[at[u][1]] # OwnTable(u) => directory'[at[u][1]] # OwnTable(u)
  BY <1>0 DEF Effects, OwnTable
<1>3. PICK b \in Base : at[u] = b /\ at'[u] = b
  BY <1>0, <1>1
<1>4. /\ PageAt(b) # NULL => PageAt(b)' = PageAt(b)
      /\ PageAt(b) # <<b, u>> => PageAt(b)' # <<b, u>>
  BY DEF Effects, PagesMove
<1>5. OwnTable(u)' = OwnTable(u) /\ OwnPage(u)' = OwnPage(u)
  BY <1>1 DEF OwnTable, OwnPage
<1> QED
  BY <1>0, <1>1, <1>2, <1>3, <1>4, <1>5 DEF FoundOK, OwnPage, PageAt

(* No thread looks anything up once the memory has been given back. *)
LEMMA MappedWhileRunning ==
  ASSUME IInv, NEW t \in Thread, ThreadNext(t)
  PROVE  mapped /\ mapped'
<1>1. CASE mapped
  <2>1. UNCHANGED mapped
    BY DEF ThreadNext, LookupStep, Ask, ReadCell, WriteCell, FindTable, NoTable, AllocTable,
       InstallTable, LoseTable, AdoptTable, FindPage, NoPage, AllocPage, InstallPage, LosePage,
       AdoptPage, memory
  <2> QED
    BY <1>1, <2>1
<1>2. CASE ~ mapped
  <2>1. step[t] \in Resting
    BY <1>2 DEF IInv, FoundOK
  <2>2. ~ LookupStep(t)
    BY <2>1 DEF LookupStep, FindTable, NoTable, AllocTable, InstallTable, LoseTable, AdoptTable,
       FindPage, NoPage, AllocPage, InstallPage, LosePage, AdoptPage, Resting
  <2> QED
    BY <1>2, <2>2 DEF ThreadNext, Ask, ReadCell, WriteCell, Holds
<1> QED
  BY <1>1, <1>2

LEMMA FoundOKOfOwn ==
  ASSUME IInv, NEW t \in Thread, ThreadNext(t)
  PROVE  FoundOK(t)'
<1>0. ShadowTypeOK /\ SlotsOwn /\ SparesFresh /\ FoundOK(t)
  BY DEF IInv
<1>1. at[t] \in Base /\ at[t][1] \in DirSlot /\ OwnTable(t) \in TableId /\ OwnPage(t) \in PageId
  BY <1>0, OwnIds
<1>2. mapped'
  BY MappedWhileRunning
<1>3. CASE \E b \in Base, c \in BOOLEAN : Ask(t, b, c)
  BY <1>0, <1>2, <1>3 DEF Ask, ShadowTypeOK, FoundOK, Resting
<1>4. CASE FindTable(t)
  <2>1. directory' = directory /\ at' = at
        /\ v1'[t] = directory[at[t][1]] /\ v1'[t] # NULL /\ step'[t] = "load table"
    BY <1>0, <1>4 DEF FindTable, DirValue, memory, ShadowTypeOK
  <2> QED
    BY <1>2, <1>4, <2>1 DEF FindTable, FoundOK, Resting
<1>5. CASE NoTable(t) \/ NoPage(t)
  BY <1>0, <1>5 DEF NoTable, NoPage, ShadowTypeOK, FoundOK, Resting
<1>6. CASE AllocTable(t)
  <2>1. /\ directory[at[t][1]] = NULL /\ OwnTable(t) # NULL
        /\ directory' = directory /\ at' = at /\ step'[t] = "swap dir"
    BY <1>0, <1>1, <1>6, Ids DEF AllocTable, DirValue, ShadowTypeOK
  <2> QED
    BY <1>2, <1>6, <2>1 DEF AllocTable, FoundOK, Resting, OwnTable
<1>7. CASE InstallTable(t)
  <2>1. /\ directory'[at[t][1]] = OwnTable(t) /\ OwnTable(t) # NULL /\ v1'[t] = OwnTable(t)
        /\ at' = at /\ step'[t] = "load table"
    BY <1>0, <1>1, <1>7, Ids DEF InstallTable, ShadowTypeOK
  <2> QED
    BY <1>2, <1>7, <2>1 DEF InstallTable, FoundOK, Resting, OwnTable
<1>8. CASE LoseTable(t)
  <2>1. /\ directory[at[t][1]] # NULL /\ step'[t] = "reload dir"
        /\ directory' = directory /\ at' = at
    BY <1>0, <1>8 DEF LoseTable, DirValue, slots, ShadowTypeOK
  <2> QED
    BY <1>2, <1>8, <2>1 DEF LoseTable, FoundOK, Resting
<1>9. CASE AdoptTable(t)
  <2>1. directory' = directory /\ at' = at
        /\ v1'[t] = directory[at[t][1]] /\ step'[t] = "load table"
    BY <1>0, <1>9 DEF AdoptTable, DirValue, memory, ShadowTypeOK
  <2>2. directory[at[t][1]] # NULL
    BY <1>0, <1>9 DEF AdoptTable, FoundOK
  <2> QED
    BY <1>2, <1>9, <2>1, <2>2 DEF AdoptTable, FoundOK, Resting
<1>10. CASE FindPage(t) \/ AdoptPage(t)
  <2>1. TableValue(t) = PageAt(at[t]) /\ PageAt(at[t]) # NULL
    BY <1>0, <1>10, TableSlotIsPageAt DEF FindPage, AdoptPage, FoundOK
  <2>2. directory' = directory /\ table' = table /\ at' = at
        /\ v2'[t] = TableValue(t) /\ step'[t] = "held"
    BY <1>0, <1>10 DEF FindPage, AdoptPage, memory, ShadowTypeOK
  <2> QED
    BY <2>1, <2>2 DEF FoundOK, Resting, PageAt
<1>11. CASE AllocPage(t)
  <2>1. PageAt(at[t]) = NULL /\ OwnPage(t) # NULL
    BY <1>0, <1>1, <1>11, TableSlotIsPageAt, Ids DEF AllocPage
  <2>2. /\ directory' = directory /\ table' = table /\ at' = at
        /\ v1' = v1 /\ step'[t] = "swap table"
        /\ v1[t] # NULL /\ v1[t] = directory[at[t][1]]
    BY <1>0, <1>11 DEF AllocPage, slots, ShadowTypeOK, FoundOK
  <2> QED
    BY <1>2, <1>11, <2>1, <2>2 DEF AllocPage, FoundOK, Resting, PageAt, OwnPage
<1>12. CASE InstallPage(t)
  <2>1. PICK b \in Base : at[t] = b /\ at'[t] = b
    BY <1>1, <1>12 DEF InstallPage
  <2>2. PageAt(b)' = <<b, t>>
    BY <1>0, <1>12, <2>1, InstallPageMoves DEF OwnPage
  <2>3. v2'[t] = <<b, t>> /\ <<b, t>> # NULL /\ step'[t] = "held"
    BY <1>0, <1>1, <1>12, <2>1, Ids DEF InstallPage, OwnPage, ShadowTypeOK
  <2> QED
    BY <2>1, <2>2, <2>3 DEF FoundOK, Resting, PageAt
<1>13. CASE LosePage(t)
  <2>1. PageAt(at[t]) # NULL
    BY <1>0, <1>13, TableSlotIsPageAt DEF LosePage
  <2>2. /\ directory' = directory /\ table' = table /\ at' = at
        /\ v1' = v1 /\ step'[t] = "reload table"
        /\ v1[t] # NULL /\ v1[t] = directory[at[t][1]]
    BY <1>0, <1>13 DEF LosePage, slots, ShadowTypeOK, FoundOK
  <2> QED
    BY <1>2, <1>13, <2>1, <2>2 DEF LosePage, FoundOK, Resting, PageAt
<1>14. CASE \/ \E a \in Addr : ReadCell(t, a)
            \/ \E a \in Addr, c \in Cell : WriteCell(t, a, c)
  <2>1. /\ directory' = directory /\ table' = table /\ at' = at /\ v2' = v2
        /\ step' = step /\ step[t] = "held"
    BY <1>14 DEF ReadCell, WriteCell, Holds, memory, slots, look
  <2> QED
    BY <1>0, <1>2, <2>1 DEF FoundOK, PageAt, Resting
<1> QED
  BY <1>3, <1>4, <1>5, <1>6, <1>7, <1>8, <1>9, <1>10, <1>11, <1>12, <1>13, <1>14
     DEF ThreadNext, LookupStep

-----------------------------------------------------------------------------
(* Tables and pages are counted.                                           *)

(* What other threads have made, or are about to offer, does not change.   *)
LEMMA TableCountedKept ==
  ASSUME IInv, NEW t \in Thread, ThreadNext(t), Effects(t), NEW T \in TableId
  PROVE  T \in tables' <=>
           \/ directory'[T[1]] = T
           \/ /\ step'[T[2]] = "swap dir"
              /\ at'[T[2]][1] = T[1]
<1>0. /\ ShadowTypeOK /\ SlotsOwn /\ FoundOK(t)
      /\ T[1] \in DirSlot /\ T[2] \in Thread /\ T = <<T[1], T[2]>> /\ T # NULL
  BY Ids DEF IInv, TableId
<1>1. T \in tables <=> (directory[T[1]] = T \/ (step[T[2]] = "swap dir" /\ at[T[2]][1] = T[1]))
  BY MappedWhileRunning DEF IInv, AllCounted
<1>2. CASE T[2] # t
  <2>1. directory'[T[1]] = T <=> directory[T[1]] = T
    BY <1>0, <1>2 DEF Effects
  <2>2. step'[T[2]] = step[T[2]] /\ at'[T[2]] = at[T[2]]
    BY <1>0, <1>2 DEF Effects, OthersSame
  <2>3. T \in tables' <=> T \in tables
    <3>1. \/ tables' = tables
          \/ tables' = tables \cup {OwnTable(t)}
          \/ tables' = tables \ {OwnTable(t)}
      BY DEF ThreadNext, LookupStep, Ask, ReadCell, WriteCell, FindTable, NoTable, AllocTable,
         InstallTable, LoseTable, AdoptTable, FindPage, NoPage, AllocPage, InstallPage, LosePage,
         AdoptPage, memory
    <3>2. OwnTable(t) # T
      BY <1>2 DEF OwnTable
    <3> QED
      BY <3>1, <3>2
  <2> QED
    BY <1>1, <2>1, <2>2, <2>3
<1>3. CASE T[2] = t
  <2>0. T = <<at[t][1], t>> <=> at[t][1] = T[1]
    BY <1>0, <1>3
  <2>1. CASE /\ tables' = tables /\ directory' = directory
             /\ step[t] # "swap dir" /\ step'[t] # "swap dir"
    BY <1>1, <1>3, <2>1
  <2>2. CASE AllocTable(t)
    <3>1. /\ directory' = directory /\ step'[t] = "swap dir" /\ at' = at
          /\ tables' = tables \cup {<<at[t][1], t>>} /\ step[t] = "load dir"
      BY <1>0, <2>2 DEF AllocTable, ShadowTypeOK, OwnTable
    <3> QED
      BY <1>0, <1>1, <1>3, <2>0, <3>1
  <2>3. CASE InstallTable(t)
    <3>1. /\ directory'[T[1]] = IF T[1] = at[t][1] THEN <<at[t][1], t>> ELSE directory[T[1]]
          /\ step[t] = "swap dir" /\ step'[t] = "load table" /\ at' = at /\ tables' = tables
          /\ directory[at[t][1]] = NULL
      BY <1>0, <2>3 DEF InstallTable, ShadowTypeOK, OwnTable, DirValue
    <3> QED
      BY <1>0, <1>1, <1>3, <2>0, <3>1
  <2>4. CASE LoseTable(t)
    <3>1. /\ directory' = directory /\ step[t] = "swap dir" /\ step'[t] = "reload dir" /\ at' = at
          /\ tables' = tables \ {<<at[t][1], t>>} /\ directory[at[t][1]] # <<at[t][1], t>>
      BY <1>0, <2>4 DEF LoseTable, ShadowTypeOK, OwnTable, slots, FoundOK
    <3> QED
      BY <1>0, <1>1, <1>3, <2>0, <3>1
  <2>5. CASE \/ \E b \in Base, c \in BOOLEAN : Ask(t, b, c)
             \/ \E a \in Addr : ReadCell(t, a)
             \/ \E a \in Addr, c \in Cell : WriteCell(t, a, c)
             \/ FindTable(t) \/ NoTable(t) \/ AdoptTable(t)
             \/ FindPage(t) \/ NoPage(t) \/ AllocPage(t) \/ InstallPage(t)
             \/ LosePage(t) \/ AdoptPage(t)
    <3>1. /\ tables' = tables /\ directory' = directory
          /\ step[t] # "swap dir" /\ step'[t] # "swap dir"
      BY <1>0, <2>5 DEF Ask, ReadCell, WriteCell, FindTable, NoTable, AdoptTable, FindPage, NoPage,
         AllocPage, InstallPage, LosePage, AdoptPage, Holds, memory, slots, look, Resting,
         ShadowTypeOK
    <3> QED
      BY <2>1, <3>1
  <2> QED
    BY <2>2, <2>3, <2>4, <2>5 DEF ThreadNext, LookupStep
<1> QED
  BY <1>2, <1>3

LEMMA PageCountedKept ==
  ASSUME IInv, NEW t \in Thread, ThreadNext(t), Effects(t), NEW p \in PageId
  PROVE  p \in pages' <=>
           \/ PageAt(p[1])' = p
           \/ /\ step'[p[2]] = "swap table"
              /\ at'[p[2]] = p[1]
<1>0. /\ ShadowTypeOK /\ SlotsOwn /\ FoundOK(t)
      /\ p[1] \in Base /\ p[2] \in Thread /\ p = <<p[1], p[2]>> /\ p # NULL
  BY Ids DEF IInv, PageId
<1>1. p \in pages <=> (PageAt(p[1]) = p \/ (step[p[2]] = "swap table" /\ at[p[2]] = p[1]))
  BY MappedWhileRunning DEF IInv, AllCounted
<1>2. CASE p[2] # t
  <2>1. PageAt(p[1])' = p <=> PageAt(p[1]) = p
    BY <1>0, <1>2 DEF Effects, PagesMove
  <2>2. step'[p[2]] = step[p[2]] /\ at'[p[2]] = at[p[2]]
    BY <1>0, <1>2 DEF Effects, OthersSame
  <2>3. p \in pages' <=> p \in pages
    <3>1. \/ pages' = pages
          \/ pages' = pages \cup {OwnPage(t)}
          \/ pages' = pages \ {OwnPage(t)}
      BY DEF ThreadNext, LookupStep, Ask, ReadCell, WriteCell, FindTable, NoTable, AllocTable,
         InstallTable, LoseTable, AdoptTable, FindPage, NoPage, AllocPage, InstallPage, LosePage,
         AdoptPage, memory
    <3>2. OwnPage(t) # p
      BY <1>2 DEF OwnPage
    <3> QED
      BY <3>1, <3>2
  <2> QED
    BY <1>1, <2>1, <2>2, <2>3
<1>3. CASE p[2] = t
  <2>0. p = <<at[t], t>> <=> at[t] = p[1]
    BY <1>0, <1>3
  <2>1. CASE AllocPage(t)
    <3>1. /\ directory' = directory /\ table' = table
          /\ step'[t] = "swap table" /\ step[t] = "load table" /\ at' = at
          /\ pages' = pages \cup {<<at[t], t>>}
      BY <1>0, <2>1 DEF AllocPage, ShadowTypeOK, OwnPage, slots
    <3>2. PageAt(p[1])' = PageAt(p[1])
      BY <3>1, SlotsSame
    <3> QED
      BY <1>0, <1>1, <1>3, <2>0, <3>1, <3>2
  <2>2. CASE InstallPage(t)
    <3>1. PageAt(p[1])' = IF p[1] = at[t] THEN <<at[t], t>> ELSE PageAt(p[1])
      BY <1>0, <2>2, InstallPageMoves DEF OwnPage
    <3>2. /\ step[t] = "swap table" /\ step'[t] = "held" /\ at' = at /\ pages' = pages
      BY <1>0, <2>2 DEF InstallPage, ShadowTypeOK
    <3> QED
      BY <1>0, <1>1, <1>3, <2>0, <3>1, <3>2
  <2>3. CASE LosePage(t)
    <3>1. /\ directory' = directory /\ table' = table
          /\ step[t] = "swap table" /\ step'[t] = "reload table" /\ at' = at
          /\ pages' = pages \ {<<at[t], t>>}
      BY <1>0, <2>3 DEF LosePage, ShadowTypeOK, OwnPage, slots
    <3>2. PageAt(p[1])' = PageAt(p[1])
      BY <3>1, SlotsSame
    <3>3. PageAt(at[t]) # <<at[t], t>>
      BY <1>0, <3>1 DEF FoundOK, OwnPage
    <3> QED
      BY <1>0, <1>1, <1>3, <2>0, <3>1, <3>2, <3>3
  <2>4. CASE \/ \E b \in Base, c \in BOOLEAN : Ask(t, b, c)
             \/ \E a \in Addr : ReadCell(t, a)
             \/ \E a \in Addr, c \in Cell : WriteCell(t, a, c)
             \/ FindTable(t) \/ NoTable(t) \/ AllocTable(t) \/ InstallTable(t)
             \/ LoseTable(t) \/ AdoptTable(t) \/ FindPage(t) \/ NoPage(t) \/ AdoptPage(t)
    <3>1. pages' = pages /\ step[t] # "swap table" /\ step'[t] # "swap table"
      BY <1>0, <2>4 DEF Ask, ReadCell, WriteCell, FindTable, NoTable, AllocTable, InstallTable,
         LoseTable, AdoptTable, FindPage, NoPage, AdoptPage, Holds, memory, slots, look, Resting,
         ShadowTypeOK
    <3>2. PageAt(p[1])' = PageAt(p[1])
      <4>1. CASE InstallTable(t)
        BY <1>0, <4>1, InstallTableMoves DEF IInv
      <4>2. CASE AllocTable(t)
        <5>1. directory' = directory /\ table' = table
          BY <4>2, AllocTableFresh DEF IInv, AllocTable
        <5> QED
          BY <5>1, SlotsSame
      <4>3. CASE ~ InstallTable(t) /\ ~ AllocTable(t)
        <5>1. directory' = directory /\ table' = table
          BY <2>4, <4>3 DEF Ask, ReadCell, WriteCell, FindTable, NoTable, LoseTable, AdoptTable,
             FindPage, NoPage, AdoptPage, memory, slots
        <5> QED
          BY <5>1, SlotsSame
      <4> QED
        BY <4>1, <4>2, <4>3
    <3> QED
      BY <1>1, <1>3, <3>1, <3>2
  <2> QED
    BY <2>1, <2>2, <2>3, <2>4 DEF ThreadNext, LookupStep
<1> QED
  BY <1>2, <1>3

LEMMA AllCountedKept ==
  ASSUME IInv, NEW t \in Thread, ThreadNext(t), Effects(t)
  PROVE  AllCounted'
<1>1. mapped'
  BY MappedWhileRunning
<1> QED
  BY <1>1, TableCountedKept, PageCountedKept DEF AllCounted

-----------------------------------------------------------------------------
(* The sums: what PagesAccounted says of the sets. *)

LEMMA InstalledPagesAt ==
  ASSUME ShadowTypeOK, SlotsOwn
  PROVE  InstalledPages = {p \in PageId : PageAt(p[1]) = p}
<1>1. ASSUME NEW p \in PageId, PageAt(p[1]) = p
      PROVE  \E T \in InstalledTables : T[1] = p[1][1] /\ table[T][p[1][2]] = p
  <2>1. p[1] \in Base /\ p[1][1] \in DirSlot /\ p # NULL
    BY Ids DEF PageId, Base
  <2>2. directory[p[1][1]] # NULL
    BY <1>1, <2>1 DEF PageAt
  <2>3. directory[p[1][1]] \in TableId /\ directory[p[1][1]][1] = p[1][1]
    BY <2>1, <2>2 DEF ShadowTypeOK, SlotsOwn
  <2> QED
    BY <1>1, <2>2, <2>3 DEF InstalledTables, PageAt
<1>2. ASSUME NEW p \in PageId, NEW T \in InstalledTables, T[1] = p[1][1], table[T][p[1][2]] = p
      PROVE  PageAt(p[1]) = p
  BY <1>2, Ids DEF InstalledTables, PageAt
<1> QED
  BY <1>1, <1>2 DEF InstalledPages

LEMMA CountedIsAccounted == IInv => PagesAccounted
<1> SUFFICES ASSUME IInv PROVE PagesAccounted
  OBVIOUS
<1>0. ShadowTypeOK /\ SlotsOwn /\ AllCounted
  BY DEF IInv
<1>1. ASSUME NEW T \in TableId
      PROVE  T \in SpareTables <=> (step[T[2]] = "swap dir" /\ at[T[2]][1] = T[1])
  <2>1. T = <<T[1], T[2]>> /\ T[2] \in Thread
    BY DEF TableId
  <2>2. T \in SpareTables <=> \E u \in Thread : step[u] = "swap dir" /\ T = <<at[u][1], u>>
    BY DEF SpareTables, OwnTable
  <2>3. ASSUME NEW u \in Thread PROVE T = <<at[u][1], u>> <=> T[1] = at[u][1] /\ T[2] = u
    BY <2>1
  <2> QED
    BY <2>1, <2>2, <2>3
<1>2. ASSUME NEW p \in PageId
      PROVE  p \in SparePages <=> (step[p[2]] = "swap table" /\ at[p[2]] = p[1])
  <2>1. p = <<p[1], p[2]>> /\ p[2] \in Thread
    BY DEF PageId
  <2>2. p \in SparePages <=> \E u \in Thread : step[u] = "swap table" /\ p = <<at[u], u>>
    BY DEF SparePages, OwnPage
  <2>3. ASSUME NEW u \in Thread PROVE p = <<at[u], u>> <=> p[1] = at[u] /\ p[2] = u
    BY <2>1
  <2> QED
    BY <2>1, <2>2, <2>3
<1>3. SpareTables \subseteq TableId /\ SparePages \subseteq PageId
  BY <1>0, OwnIds DEF SpareTables, SparePages
<1>4. tables \subseteq TableId /\ pages \subseteq PageId /\ InstalledTables \subseteq TableId
  BY <1>0 DEF ShadowTypeOK, InstalledTables
<1>5. tables = IF mapped THEN InstalledTables \cup SpareTables ELSE {}
  BY <1>0, <1>1, <1>3, <1>4 DEF AllCounted, InstalledTables
<1>6. pages = IF mapped THEN InstalledPages \cup SparePages ELSE {}
  BY <1>0, <1>2, <1>3, <1>4, InstalledPagesAt DEF AllCounted
<1> QED
  BY <1>5, <1>6 DEF PagesAccounted

(* The destructor frees all there is: no thread has a spare left.          *)
LEMMA DestroyKeeps == IInv /\ Destroy /\ ShadowTypeOK' => IInv'
<1> SUFFICES ASSUME IInv, Destroy, ShadowTypeOK' PROVE IInv'
  OBVIOUS
<1>1. /\ directory' = directory /\ table' = table /\ page' = page
      /\ step' = step /\ at' = at /\ v1' = v1 /\ v2' = v2
      /\ ~ mapped' /\ mapped /\ \A t \in Thread : step[t] \in Resting
  BY DEF Destroy, slots, look
<1>2. SlotsOwn'
  BY <1>1 DEF IInv, SlotsOwn, PageAt
<1>3. SparesFresh'
  BY <1>1 DEF IInv, SparesFresh, PageAt
<1>4. \A t \in Thread : FoundOK(t)'
  BY <1>1 DEF IInv, FoundOK, PageAt, OwnTable, OwnPage
<1>5. SpareTables = {} /\ SparePages = {}
  BY <1>1 DEF SpareTables, SparePages, Resting
<1>6. tables' = {} /\ pages' = {}
  BY <1>1, <1>5, CountedIsAccounted DEF PagesAccounted, Destroy
<1>7. AllCounted'
  BY <1>1, <1>6 DEF AllCounted
<1> QED
  BY <1>2, <1>3, <1>4, <1>7 DEF IInv

LEMMA StutterKeeps == IInv /\ UNCHANGED shadowVars => IInv'
<1> SUFFICES ASSUME IInv, UNCHANGED shadowVars PROVE IInv'
  OBVIOUS
<1> USE DEF shadowVars, memory, look
<1>1. ShadowTypeOK'
  BY DEF IInv, ShadowTypeOK
<1>2. SlotsOwn' /\ SparesFresh'
  BY DEF IInv, SlotsOwn, SparesFresh, PageAt
<1>3. \A t \in Thread : FoundOK(t)'
  BY DEF IInv, FoundOK, PageAt, OwnTable, OwnPage
<1>4. AllCounted'
  BY DEF IInv, AllCounted, PageAt
<1> QED
  BY <1>1, <1>2, <1>3, <1>4 DEF IInv

LEMMA InvInit == ShadowInit => IInv
<1> SUFFICES ASSUME ShadowInit PROVE IInv
  OBVIOUS
<1>1. ShadowTypeOK
  BY TypeInit
<1>2. \A b \in Base : PageAt(b) = NULL
  BY DEF ShadowInit, PageAt, Base
<1>3. SlotsOwn
  BY <1>2 DEF SlotsOwn, ShadowInit
<1>4. SparesFresh
  BY DEF SparesFresh, ShadowInit
<1>5. \A t \in Thread : FoundOK(t)
  BY DEF FoundOK, ShadowInit, Resting
<1>6. AllCounted
  <2>1. ASSUME NEW T \in TableId PROVE directory[T[1]] # T /\ step[T[2]] # "swap dir"
    BY Ids DEF ShadowInit, TableId
  <2>2. ASSUME NEW p \in PageId PROVE PageAt(p[1]) # p /\ step[p[2]] # "swap table"
    BY <1>2, Ids DEF ShadowInit, PageId
  <2> QED
    BY <2>1, <2>2 DEF AllCounted, ShadowInit
<1> QED
  BY <1>1, <1>3, <1>4, <1>5, <1>6 DEF IInv

LEMMA InvKept == IInv /\ [ShadowNext]_shadowVars => IInv'
<1> SUFFICES ASSUME IInv, [ShadowNext]_shadowVars PROVE IInv'
  OBVIOUS
<1>1. ShadowTypeOK'
  BY TypeKept DEF IInv
<1>2. ASSUME NEW t \in Thread, ThreadNext(t) PROVE IInv'
  <2>1. Effects(t)
    BY <1>2, EffectsOfStep
  <2>2. SlotsOwn' /\ SparesFresh' /\ AllCounted'
    BY <1>2, <2>1, SlotsOwnKept, SparesFreshKept, AllCountedKept
  <2>3. ASSUME NEW u \in Thread PROVE FoundOK(u)'
    BY <1>2, <2>1, FoundOKOfOthers, FoundOKOfOwn
  <2> QED
    BY <1>1, <2>2, <2>3 DEF IInv
<1>3. CASE Destroy
  BY <1>1, <1>3, DestroyKeeps
<1>4. CASE UNCHANGED shadowVars
  BY <1>4, StutterKeeps
<1> QED
  BY <1>2, <1>3, <1>4 DEF ShadowNext, ThreadNext

LEMMA ShadowInductive == ShadowSpec => []IInv
BY InvInit, InvKept, PTL DEF ShadowSpec

(* Slots, tables and pages keep their types whatever the threads do.       *)
THEOREM ShadowTypeCorrect == ShadowSpec => []ShadowTypeOK
<1>1. IInv => ShadowTypeOK
  BY DEF IInv
<1> QED
  BY <1>1, ShadowInductive, PTL

(* What the exchange of a pointer decides between threads is accounted for: *)
(* of two pages made for one slot one is used and the other is freed, and   *)
(* the destructor finds all that is left.                                   *)
THEOREM PagesAreAccounted == ShadowSpec => []PagesAccounted
BY CountedIsAccounted, ShadowInductive, PTL

-----------------------------------------------------------------------------
(* The shared memory implements the map.                                   *)

LEMMA CellByPage ==
  ASSUME NEW a \in Addr, NEW b \in Base, b = BaseOf(a)
  PROVE  /\ CellAt(a) = IF PageAt(b) = NULL THEN Zero ELSE page[PageAt(b)][a[3]]
         /\ CellAt(a)' = IF PageAt(b)' = NULL THEN Zero ELSE page'[PageAt(b)'][a[3]]
<1>1. b[1] = a[1] /\ b[2] = a[2]
  BY DEF BaseOf
<1> QED
  BY <1>1 DEF CellAt, PageAt

LEMMA BaseOfAddr ==
  ASSUME NEW a \in Addr PROVE BaseOf(a) \in Base /\ a[3] \in Offset
BY DEF Addr, Base, BaseOf

(* However a page comes to be in its slot, no cell changes by it. *)
LEMMA CellsStay ==
  ASSUME IInv, NEW t \in Thread, PagesMove(t), page' = page
  PROVE  Cells' = Cells
<1>1. ASSUME NEW a \in Addr PROVE CellAt(a)' = CellAt(a)
  <2>1. PICK b \in Base : b = BaseOf(a)
    BY BaseOfAddr
  <2>2. CASE PageAt(b)' = PageAt(b)
    BY <2>1, <2>2, CellByPage
  <2>3. CASE PageAt(b) = NULL /\ PageAt(b)' = <<b, t>>
    <3>1. <<b, t>> \in PageId /\ <<b, t>> # NULL
      BY Ids DEF PageId
    <3>2. page[<<b, t>>][a[3]] = Zero
      BY <2>3, <3>1, BaseOfAddr DEF IInv, SparesFresh
    <3>3. CellAt(a) = Zero
      BY <2>1, <2>3, CellByPage
    <3>4. CellAt(a)' = page'[<<b, t>>][a[3]]
      BY <2>1, <2>3, <3>1, CellByPage
    <3> QED
      BY <3>2, <3>3, <3>4
  <2> QED
    BY <2>2, <2>3 DEF PagesMove
<1> QED
  BY <1>1 DEF Cells

LEMMA AnswerMoves ==
  ASSUME ShadowTypeOK, NEW t \in Thread, NEW s, step' = [step EXCEPT ![t] = s]
  PROVE  Answers' = [Answers EXCEPT ![t] = AnswerAt(s)]
<1>1. step \in [Thread -> Resting \cup Lookup]
  BY DEF ShadowTypeOK
<1>2. \A u \in Thread : step'[u] = IF u = t THEN s ELSE step[u]
  BY <1>1
<1>3. \A u \in Thread : AnswerAt(step'[u]) = IF u = t THEN AnswerAt(s) ELSE AnswerAt(step[u])
  BY <1>2
<1>4. Answers' = [u \in Thread |-> AnswerAt(step'[u])]
  BY DEF Answers, AnswerAt
<1> QED
  BY <1>3, <1>4 DEF Answers

(* The steps inside a look-up. *)
LEMMA LookupStutters ==
  ASSUME IInv, NEW t \in Thread, Effects(t),
         FindTable(t) \/ AllocTable(t) \/ InstallTable(t) \/ LoseTable(t) \/ AdoptTable(t)
         \/ AllocPage(t) \/ LosePage(t)
  PROVE  UNCHANGED Promise!vars
<1>0. ShadowTypeOK /\ SparesFresh /\ FoundOK(t)
  BY DEF IInv
<1>1. page' = page
  BY <1>0, AllocPageFresh DEF FindTable, AllocTable, InstallTable, LoseTable, AdoptTable,
     LosePage, memory, slots
<1>2. Cells' = Cells
  BY <1>1, CellsStay DEF Effects
<1>3. PICK s \in Lookup : step' = [step EXCEPT ![t] = s]
  BY DEF FindTable, AllocTable, InstallTable, LoseTable, AdoptTable, AllocPage, LosePage, Lookup
<1>4. AnswerAt(step[t]) = "waiting" /\ AnswerAt(s) = "waiting"
  BY DEF FindTable, AllocTable, InstallTable, LoseTable, AdoptTable, AllocPage, LosePage,
     Lookup, AnswerAt
<1>5. Answers' = Answers
  BY <1>0, <1>3, <1>4, AnswerMoves DEF Answers
<1> QED
  BY <1>2, <1>5 DEF Promise!vars, FindTable, AllocTable, InstallTable, LoseTable, AdoptTable,
     AllocPage, LosePage, memory, slots

LEMMA GrantRefines ==
  ASSUME IInv, NEW t \in Thread, Effects(t), FindPage(t) \/ InstallPage(t) \/ AdoptPage(t)
  PROVE  Promise!Grant(t)
<1>0. ShadowTypeOK
  BY DEF IInv
<1>1. Cells' = Cells
  <2>1. page' = page
    BY DEF FindPage, InstallPage, AdoptPage, memory
  <2> QED
    BY <2>1, CellsStay DEF Effects
<1>2. AnswerAt(step[t]) = "waiting" /\ AnswerAt("held") = "held"
  BY DEF FindPage, InstallPage, AdoptPage, Lookup, AnswerAt
<1>3. Answers' = [Answers EXCEPT ![t] = "held"]
  <2>1. step' = [step EXCEPT ![t] = "held"]
    BY DEF FindPage, InstallPage, AdoptPage
  <2> QED
    BY <1>0, <1>2, <2>1, AnswerMoves
<1> QED
  BY <1>1, <1>2, <1>3 DEF Promise!Grant, Answers, FindPage, InstallPage, AdoptPage, memory

(* A slot on the way is empty: nothing was ever written on the page. *)
LEMMA DenyRefines ==
  ASSUME IInv, NEW t \in Thread, NoTable(t) \/ NoPage(t)
  PROVE  Promise!Deny(t)
<1>0. ShadowTypeOK /\ FoundOK(t) /\ at[t] \in Base
  BY OwnIds DEF IInv
<1>1. PageAt(at[t]) = NULL
  <2>1. CASE NoTable(t)
    BY <2>1 DEF NoTable, DirValue, PageAt
  <2>2. CASE NoPage(t)
    BY <1>0, <2>2, TableSlotIsPageAt DEF NoPage
  <2> QED
    BY <2>1, <2>2
<1>2. ASSUME NEW a \in Addr, <<a[1], a[2]>> = at[t] PROVE Cells[a] = Zero
  <2>1. at[t] = BaseOf(a)
    BY <1>2 DEF BaseOf
  <2> QED
    BY <1>0, <1>1, <2>1, CellByPage DEF Cells
<1>3. AnswerAt(step[t]) = "waiting" /\ AnswerAt("missed") = "missed"
  BY DEF NoTable, NoPage, Lookup, AnswerAt
<1>4. Answers' = [Answers EXCEPT ![t] = "missed"]
  <2>1. step' = [step EXCEPT ![t] = "missed"]
    BY DEF NoTable, NoPage
  <2> QED
    BY <1>0, <1>3, <2>1, AnswerMoves
<1>5. Cells' = Cells
  BY DEF NoTable, NoPage, memory, Cells, CellAt
<1> QED
  BY <1>2, <1>3, <1>4, <1>5 DEF Promise!Deny, Promise!OnPage, Answers, NoTable, NoPage, memory

LEMMA AskRefines ==
  ASSUME IInv, NEW t \in Thread, NEW b \in Base, NEW c \in BOOLEAN, Ask(t, b, c)
  PROVE  Promise!Ask(t, b)
<1>0. ShadowTypeOK
  BY DEF IInv
<1>1. Answers[t] # "waiting" /\ AnswerAt("load dir") = "waiting"
  BY DEF Ask, Answers, AnswerAt, Resting, Lookup
<1>2. Answers' = [Answers EXCEPT ![t] = "waiting"]
  BY <1>0, <1>1, AnswerMoves DEF Ask
<1>3. Cells' = Cells
  BY DEF Ask, memory, Cells, CellAt
<1> QED
  BY <1>1, <1>2, <1>3 DEF Promise!Ask, Ask, memory

(* What a thread holds is the page of the address it uses. *)
LEMMA HeldCell ==
  ASSUME IInv, NEW t \in Thread, NEW a \in Addr, Holds(t, a)
  PROVE  /\ mapped /\ Answers[t] = "held" /\ <<a[1], a[2]>> = at[t]
         /\ v2[t] \in PageId /\ v2[t] = PageAt(at[t]) /\ at[t] \in Base
         /\ Cells[a] = page[v2[t]][a[3]]
<1>0. ShadowTypeOK /\ FoundOK(t) /\ at[t] \in Base
  BY OwnIds DEF IInv
<1>1. mapped /\ Answers[t] = "held" /\ at[t] = BaseOf(a)
  BY DEF Holds, Answers, AnswerAt, Lookup
<1>2. v2[t] = PageAt(at[t]) /\ v2[t] # NULL /\ v2[t] \in PageId
  BY <1>0 DEF Holds, FoundOK, ShadowTypeOK
<1>3. Cells[a] = page[v2[t]][a[3]]
  BY <1>0, <1>1, <1>2, CellByPage DEF Cells
<1> QED
  BY <1>0, <1>1, <1>2, <1>3 DEF BaseOf

LEMMA ReadRefines ==
  ASSUME IInv, NEW t \in Thread, NEW a \in Addr, ReadCell(t, a)
  PROVE  Promise!Read(t, a)
<1>1. Cells' = Cells /\ Answers' = Answers
  BY DEF ReadCell, memory, Cells, CellAt, Answers
<1>2. /\ mapped /\ Answers[t] = "held" /\ <<a[1], a[2]>> = at[t]
      /\ Cells[a] = page[v2[t]][a[3]]
  BY HeldCell DEF ReadCell
<1> QED
  BY <1>1, <1>2 DEF Promise!Read, Promise!OnPage, ReadCell, memory

(* A page is in one slot only: no other address sees the write. *)
LEMMA WriteRefines ==
  ASSUME IInv, NEW t \in Thread, NEW a \in Addr, NEW c \in Cell, WriteCell(t, a, c)
  PROVE  Promise!Write(t, a)
<1>0. ShadowTypeOK /\ SlotsOwn /\ a[3] \in Offset
  BY BaseOfAddr DEF IInv
<1>1. /\ mapped /\ Answers[t] = "held" /\ <<a[1], a[2]>> = at[t]
      /\ v2[t] \in PageId /\ v2[t] = PageAt(at[t]) /\ at[t] \in Base
  BY HeldCell DEF WriteCell
<1>2. /\ directory' = directory /\ table' = table /\ step' = step /\ at' = at
      /\ seen' = seen /\ mapped' = mapped
  BY DEF WriteCell, slots, look
<1>3. ASSUME NEW d \in Addr PROVE CellAt(d)' = IF d = a THEN c ELSE CellAt(d)
  <2>1. PICK b \in Base : b = BaseOf(d)
    BY BaseOfAddr
  <2>2. PageAt(b)' = PageAt(b)
    BY <1>2, SlotsSame
  <2>3. /\ CellAt(d) = IF PageAt(b) = NULL THEN Zero ELSE page[PageAt(b)][d[3]]
        /\ CellAt(d)' = IF PageAt(b) = NULL THEN Zero ELSE page'[PageAt(b)][d[3]]
    BY <2>1, <2>2, CellByPage
  <2>4. CASE PageAt(b) = NULL
    <3>1. d # a
      BY <1>1, <2>1, <2>4, Ids DEF BaseOf
    <3> QED
      BY <2>3, <2>4, <3>1
  <2>5. CASE PageAt(b) # NULL
    <3>1. PageAt(b) \in PageId /\ PageAt(b)[1] = b /\ d[3] \in Offset
      BY <1>0, <2>5, BaseOfAddr DEF SlotsOwn, PageAt, ShadowTypeOK, Base
    <3>2. PageAt(b) = v2[t] <=> b = at[t]
      BY <1>0, <1>1, <2>5, <3>1, Ids DEF SlotsOwn
    <3>3. page'[PageAt(b)][d[3]] =
            IF PageAt(b) = v2[t] /\ d[3] = a[3] THEN c ELSE page[PageAt(b)][d[3]]
      BY <1>0, <1>1, <3>1 DEF WriteCell, ShadowTypeOK
    <3>4. b = at[t] /\ d[3] = a[3] <=> d = a
      BY <1>1, <2>1 DEF BaseOf, Addr
    <3> QED
      BY <2>3, <2>5, <3>2, <3>3, <3>4
  <2> QED
    BY <2>4, <2>5
<1>4. Cells' = [Cells EXCEPT ![a] = c] /\ Cells'[a] = c
  BY <1>3 DEF Cells
<1>5. Answers' = Answers
  BY <1>2 DEF Answers
<1> QED
  BY <1>1, <1>2, <1>4, <1>5 DEF Promise!Write, Promise!OnPage

LEMMA CloseRefines == IInv /\ Destroy => Promise!Close
<1> SUFFICES ASSUME IInv, Destroy PROVE Promise!Close
  OBVIOUS
<1>1. Cells' = Cells /\ Answers' = Answers
  BY DEF Destroy, slots, look, Cells, CellAt, Answers
<1>2. \A t \in Thread : Answers[t] # "waiting"
  BY DEF Destroy, Answers, AnswerAt, Resting, Lookup
<1> QED
  BY <1>1, <1>2 DEF Promise!Close, Destroy, look

LEMMA StepImplements == IInv /\ [ShadowNext]_shadowVars => [Promise!Next]_(Promise!vars)
<1> SUFFICES ASSUME IInv, [ShadowNext]_shadowVars PROVE [Promise!Next]_(Promise!vars)
  OBVIOUS
<1>1. CASE UNCHANGED shadowVars
  BY <1>1 DEF shadowVars, memory, look, Promise!vars, Cells, CellAt, Answers
<1>2. CASE Destroy
  BY <1>2, CloseRefines DEF Promise!Next
<1>3. ASSUME NEW t \in Thread, ThreadNext(t) PROVE [Promise!Next]_(Promise!vars)
  <2>1. Effects(t)
    BY <1>3, EffectsOfStep
  <2>2. CASE \E b \in Base, c \in BOOLEAN : Ask(t, b, c)
    BY <2>2, AskRefines DEF Promise!Next
  <2>3. CASE \E a \in Addr : ReadCell(t, a)
    BY <2>3, ReadRefines DEF Promise!Next
  <2>4. CASE \E a \in Addr, c \in Cell : WriteCell(t, a, c)
    BY <2>4, WriteRefines DEF Promise!Next
  <2>5. CASE FindPage(t) \/ InstallPage(t) \/ AdoptPage(t)
    BY <2>1, <2>5, GrantRefines DEF Promise!Next
  <2>6. CASE NoTable(t) \/ NoPage(t)
    BY <2>6, DenyRefines DEF Promise!Next
  <2>7. CASE FindTable(t) \/ AllocTable(t) \/ InstallTable(t) \/ LoseTable(t) \/ AdoptTable(t)
             \/ AllocPage(t) \/ LosePage(t)
    BY <2>1, <2>7, LookupStutters
  <2> QED
    BY <1>3, <2>2, <2>3, <2>4, <2>5, <2>6, <2>7 DEF ThreadNext, LookupStep
<1> QED
  BY <1>1, <1>2, <1>3 DEF ShadowNext, ThreadNext

LEMMA InitImplements == ShadowInit => Promise!Init
<1> SUFFICES ASSUME ShadowInit PROVE Promise!Init
  OBVIOUS
<1>1. at \in [Thread -> Base]
  BY TypeInit DEF ShadowTypeOK
<1>2. ASSUME NEW a \in Addr PROVE CellAt(a) = Zero
  BY DEF ShadowInit, CellAt, Addr
<1>3. AnswerAt("idle") = "none"
  BY DEF AnswerAt, Lookup
<1> QED
  BY <1>1, <1>2, <1>3 DEF ShadowInit, Promise!Init, Cells, Answers

(* Threads that grow the memory without a lock share one map: what one      *)
(* writes at an address the others read there, whoever made the page, and   *)
(* a look-up only says "missed" where nothing was written.                  *)
THEOREM MemoryImplementsMap == ShadowSpec => ActsAsMap
<1>1. ShadowSpec => Promise!Init
  BY InitImplements DEF ShadowSpec
<1> QED
  BY <1>1, StepImplements, ShadowInductive, PTL DEF ShadowSpec, ActsAsMap, Promise!Spec

-----------------------------------------------------------------------------
(* The clients.                                                            *)

Record ==
    {r \in [kind : {"read", "before write", "after write"}, addr : Addr, size : 1 .. PageSize,
            ctxt : Contexts, val : UNION {[0 .. (n - 1) -> Value] : n \in 1 .. PageSize}] :
        r.val \in [0 .. (r.size - 1) -> Value]}

(* A thread in a pass has a record, and the byte it is at is one of its bytes. *)
InRecord(t) ==
    /\ pass[t] # "none" => queue[t] # <<>>
    /\ pass[t] \notin {"none", "end"} => nth[t] < Rec(t).size

RecordsOK ==
    /\ client \in Clients
    /\ mem \in [Addr -> Value]
    /\ ip \in [Thread -> Nat]
    /\ buffer \in [Thread -> Seq(Record)]
    /\ queue \in [Thread -> Seq(Record)]
    /\ pass \in [Thread -> Passes]
    /\ nth \in [Thread -> Nat]
    /\ \A t \in Thread : InRecord(t)

-----------------------------------------------------------------------------
(* Addresses and records.                                                  *)

LEMMA PlusInAddr ==
    ASSUME NEW a \in Addr, NEW n \in Nat
    PROVE  Plus(a, n) \in Addr /\ BaseOf(Plus(a, n)) \in Base
<1> DEFINE o == a[3] + n
           j == a[2] + o \div PageSize
           i == a[1] + j \div TableEntries
<1>1. /\ DirEntries \in Nat /\ DirEntries > 0 /\ TableEntries \in Nat /\ TableEntries > 0
      /\ PageSize \in Nat /\ PageSize > 0
    BY ShadowMemoryAssumption
<1>2. a[1] \in Nat /\ a[2] \in Nat /\ a[3] \in Nat
    BY DEF Addr, DirSlot, TableSlot, Offset
<1>3. o \in Nat /\ o % PageSize \in Offset
    BY <1>1, <1>2 DEF Offset
<1>4. j \in Nat /\ j % TableEntries \in TableSlot
    <2>1. o \div PageSize \in Nat
        BY <1>1, <1>3
    <2> HIDE DEF o
    <2> QED
        BY <1>1, <1>2, <2>1 DEF TableSlot
<1>5. i \in Nat /\ i % DirEntries \in DirSlot
    <2>1. j \div TableEntries \in Nat
        BY <1>1, <1>4
    <2> HIDE DEF j
    <2> QED
        BY <1>1, <1>2, <2>1 DEF DirSlot
<1>6. Plus(a, n) = <<i % DirEntries, j % TableEntries, o % PageSize>>
    BY DEF Plus
<1> HIDE DEF i, j, o
<1> QED
    BY <1>3, <1>4, <1>5, <1>6 DEF Addr, Base, BaseOf

LEMMA FunctionIsSeq ==
    ASSUME NEW S, NEW n \in Nat, NEW f \in [1 .. n -> S]
    PROVE  f \in Seq(S)
BY SeqDef

LEMMA SizesAreNumbers == PageSize \in Nat /\ 1 .. PageSize \subseteq Nat /\ PageSize >= 1
BY ShadowMemoryAssumption

LEMMA ContentsOfOperand ==
    ASSUME NEW o \in Operand, NEW m \in [Addr -> Value]
    PROVE  Contents(m, o) \in [0 .. (o.size - 1) -> Value]
<1>1. o.addr \in Addr /\ o.size \in 1 .. PageSize
    BY DEF Operand
<1>2. ASSUME NEW k \in 0 .. (o.size - 1) PROVE m[Plus(o.addr, k)] \in Value
    <2>1. k \in Nat
        BY <1>1, SizesAreNumbers
    <2> QED
        BY <1>1, <2>1, PlusInAddr
<1> QED
    BY <1>2 DEF Contents

LEMMA RecordOfOperand ==
    ASSUME NEW o \in Operand, NEW m \in [Addr -> Value], NEW c \in Contexts,
           NEW k \in {"read", "before write", "after write"}
    PROVE  [kind |-> k, addr |-> o.addr, size |-> o.size, ctxt |-> c, val |-> Contents(m, o)]
             \in Record
<1>1. o.addr \in Addr /\ o.size \in 1 .. PageSize
    BY DEF Operand
<1> QED
    BY <1>1, ContentsOfOperand DEF Record

LEMMA RecordsOfSeq ==
    ASSUME NEW os \in Seq(Operand), NEW m \in [Addr -> Value], NEW c \in Contexts,
           NEW k \in {"read", "before write", "after write"}
    PROVE  RecordsOf(os, k, m, c) \in Seq(Record)
<1>1. CASE k \in Traces
    <2> DEFINE r(j) == [kind |-> k, addr |-> os[j].addr, size |-> os[j].size,
                        ctxt |-> c, val |-> Contents(m, os[j])]
               f == [j \in DOMAIN os |-> r(j)]
    <2>1. RecordsOf(os, k, m, c) = f
        BY <1>1, Zenon DEF RecordsOf
    <2>2. DOMAIN os = 1 .. Len(os) /\ Len(os) \in Nat
        BY LenProperties
    <2>3. \A j \in 1 .. Len(os) : r(j) \in Record
        BY ElementOfSeq, RecordOfOperand
    <2> HIDE DEF r
    <2>4. f \in [1 .. Len(os) -> Record]
        BY <2>2, <2>3
    <2> HIDE DEF f
    <2> QED
        BY <2>1, <2>2, <2>4, FunctionIsSeq
<1>2. CASE k \notin Traces
    <2>1. RecordsOf(os, k, m, c) = <<>>
        BY <1>2, Zenon DEF RecordsOf
    <2> QED
        BY <2>1, EmptySeq
<1> QED
    BY <1>1, <1>2

LEMMA EmitsSeq ==
    ASSUME NEW i \in Instruction, NEW m \in [Addr -> Value], NEW c \in Contexts
    PROVE  /\ Put(m, i) \in [Addr -> Value]
           /\ Emits(i, m, c) \in Seq(Record)
           /\ CallsOf(i, m, c) \in Seq(Record)
<1>1. i.src \in Seq(Operand) /\ i.dst \in Seq(Operand) /\ i.put \in Value
    BY DEF Instruction
<1>2. Put(m, i) \in [Addr -> Value]
    BY <1>1 DEF Put
<1> DEFINE before == RecordsOf(i.dst, "before write", m, c)
           reads  == RecordsOf(i.src, "read", m, c)
           after  == IF i.cti THEN <<>> ELSE RecordsOf(i.dst, "after write", Put(m, i), c)
<1>3. before \in Seq(Record) /\ reads \in Seq(Record)
    BY <1>1, RecordsOfSeq
<1>4. after \in Seq(Record)
    <2>1. RecordsOf(i.dst, "after write", Put(m, i), c) \in Seq(Record)
        BY <1>1, <1>2, RecordsOfSeq
    <2> QED
        BY <2>1, EmptySeq
<1>5. Emits(i, m, c) = IF ~ Watches(i) THEN <<>> ELSE before \o reads \o after
    BY DEF Emits
<1>6. CallsOf(i, m, c) = IF ~ Watches(i) THEN <<>> ELSE reads \o before
    BY DEF CallsOf
<1> HIDE DEF before, reads, after
<1> QED
    BY <1>2, <1>3, <1>4, <1>5, <1>6, ConcatProperties, EmptySeq

LEMMA SampledSeq ==
    ASSUME NEW rs \in Seq(Record)
    PROVE  Sampled(rs) \in Seq(Record)
<1> DEFINE L == Len(rs)
           q == (L + Period - 1) \div Period
<1>1. Period \in Nat /\ Period >= 1 /\ L \in Nat
    BY ClientsAssumption
<1>2. q \in Nat /\ q * Period <= L + Period - 1
    BY <1>1
<1>3. ASSUME NEW n \in 1 .. q
      PROVE  (n - 1) * Period + 1 \in 1 .. L
    <2> HIDE DEF q, L
    <2>1. n \in Nat /\ n >= 1 /\ n <= q
        BY <1>2, <1>3
    <2>2. n * Period <= q * Period
        BY <1>1, <1>2, <2>1
    <2>3. (n - 1) * Period = n * Period - Period /\ (n - 1) * Period \in Nat
        BY <1>1, <2>1
    <2>4. n * Period \in Nat /\ q * Period \in Nat
        BY <1>1, <1>2, <2>1
    <2> QED
        BY <1>1, <1>2, <2>2, <2>3, <2>4
<1>4. Sampled(rs) \in [1 .. q -> Record]
    <2>1. Sampled(rs) = [n \in 1 .. q |-> rs[(n - 1) * Period + 1]]
        BY DEF Sampled
    <2>2. \A n \in 1 .. L : rs[n] \in Record
        OBVIOUS
    <2> HIDE DEF q, L
    <2> QED
        BY <1>3, <2>1, <2>2
<1> QED
    BY <1>2, <1>4, FunctionIsSeq

-----------------------------------------------------------------------------
(* Records stay records.                                                   *)

LEMMA RecordsInit == Init => RecordsOK
<1> SUFFICES ASSUME Init PROVE RecordsOK
    OBVIOUS
<1>1. client \in Clients /\ ip \in [Thread -> Nat] /\ mem \in [Addr -> Value]
    BY ClientsAssumption DEF Init
<1>2. buffer \in [Thread -> Seq(Record)] /\ queue \in [Thread -> Seq(Record)]
    BY EmptySeq DEF Init
<1>3. pass \in [Thread -> Passes] /\ nth \in [Thread -> Nat]
    BY DEF Init, Passes
<1>4. \A t \in Thread : InRecord(t)
    BY DEF Init, InRecord
<1> QED
    BY <1>1, <1>2, <1>3, <1>4 DEF RecordsOK

(* What a step does to its own thread is all that has to be looked at. *)
LEMMA OneThread ==
    ASSUME RecordsOK, NEW t \in Thread, UNCHANGED <<client, mem, ip, buffer>>,
           NEW q \in Seq(Record), queue' = [queue EXCEPT ![t] = q],
           NEW p \in Passes, pass' = [pass EXCEPT ![t] = p],
           NEW n \in Nat, nth' = [nth EXCEPT ![t] = n],
           p # "none" => q # <<>>,
           p \notin {"none", "end"} => n < Head(q).size
    PROVE  RecordsOK'
<1>1. /\ queue' \in [Thread -> Seq(Record)] /\ pass' \in [Thread -> Passes]
      /\ nth' \in [Thread -> Nat]
    BY DEF RecordsOK
<1>2. InRecord(t)'
    <2>1. queue'[t] = q /\ pass'[t] = p /\ nth'[t] = n
        BY DEF RecordsOK
    <2> QED
        BY <2>1 DEF InRecord, Rec
<1>3. ASSUME NEW u \in Thread, u # t PROVE InRecord(u)'
    <2>1. queue'[u] = queue[u] /\ pass'[u] = pass[u] /\ nth'[u] = nth[u]
        BY <1>3 DEF RecordsOK
    <2>2. InRecord(u)
        BY DEF RecordsOK
    <2> QED
        BY <2>1, <2>2 DEF InRecord, Rec
<1> QED
    BY <1>1, <1>2, <1>3 DEF RecordsOK

LEMMA RecOfQueue ==
    ASSUME RecordsOK, NEW t \in Thread, queue[t] # <<>>
    PROVE  /\ Rec(t) \in Record /\ Tail(queue[t]) \in Seq(Record)
           /\ Rec(t).size \in Nat /\ Rec(t).size >= 1 /\ Rec(t).addr \in Addr
<1>1. queue[t] \in Seq(Record)
    BY DEF RecordsOK
<1>2. Rec(t) \in Record /\ Tail(queue[t]) \in Seq(Record)
    BY <1>1, HeadTailProperties DEF Rec
<1>3. Rec(t).size \in 1 .. PageSize /\ Rec(t).addr \in Addr
    BY <1>2 DEF Record
<1> QED
    BY <1>2, <1>3, SizesAreNumbers

(* A record is taken, or its bytes are gone over again. *)
LEMMA BeginKeeps ==
    ASSUME RecordsOK, NEW t \in Thread, UNCHANGED <<client, mem, ip, buffer, queue>>,
           queue[t] # <<>>, NEW p \in Passes, Begin(t, p)
    PROVE  RecordsOK'
<1>1. queue[t] \in Seq(Record) /\ queue' = [queue EXCEPT ![t] = queue[t]]
    BY DEF RecordsOK
<1>2. pass' = [pass EXCEPT ![t] = p] /\ nth' = [nth EXCEPT ![t] = 0]
    BY DEF Begin
<1>3. 0 < Head(queue[t]).size
    BY RecOfQueue DEF Rec
<1> QED
    BY <1>1, <1>2, <1>3, OneThread

LEMMA TurnKeeps ==
    ASSUME RecordsOK, NEW t \in Thread, UNCHANGED <<client, mem, ip, buffer>>,
           pass[t] \notin {"none", "end"}, NEW p \in Passes, Turn(t, p)
    PROVE  RecordsOK'
<1>1. queue[t] \in Seq(Record) /\ queue' = [queue EXCEPT ![t] = queue[t]]
    BY DEF RecordsOK, Turn
<1>2. nth[t] \in Nat /\ pass' = [pass EXCEPT ![t] = p] /\ nth' = [nth EXCEPT ![t] = nth[t]]
    BY DEF RecordsOK, Turn
<1>3. queue[t] # <<>> /\ nth[t] < Head(queue[t]).size
    BY DEF RecordsOK, InRecord, Rec
<1> QED
    BY <1>1, <1>2, <1>3, OneThread

LEMMA NextByteKeeps ==
    ASSUME RecordsOK, NEW t \in Thread, UNCHANGED <<client, mem, ip, buffer>>,
           pass[t] \notin {"none", "end"},
           NEW p \in Passes \ {"none"}, NEW e \in Passes, NextByte(t, p, e)
    PROVE  RecordsOK'
<1>0. queue[t] # <<>> /\ queue[t] \in Seq(Record) /\ nth[t] \in Nat
    BY DEF RecordsOK, InRecord
<1>1. /\ Rec(t).size \in Nat /\ Rec(t).size >= 1 /\ Tail(queue[t]) \in Seq(Record)
      /\ Rec(t) = Head(queue[t])
    BY <1>0, RecOfQueue DEF Rec
<1>2. CASE nth[t] + 1 < Rec(t).size
    <2>1. /\ pass' = [pass EXCEPT ![t] = p] /\ nth' = [nth EXCEPT ![t] = nth[t] + 1]
          /\ queue' = [queue EXCEPT ![t] = queue[t]]
        BY <1>2 DEF NextByte, RecordsOK
    <2>2. nth[t] + 1 \in Nat /\ nth[t] + 1 < Head(queue[t]).size
        BY <1>0, <1>1, <1>2
    <2> QED
        BY <1>0, <2>1, <2>2, OneThread
<1>3. CASE ~ (nth[t] + 1 < Rec(t).size)
    <2>1. /\ pass' = [pass EXCEPT ![t] = e] /\ nth' = [nth EXCEPT ![t] = 0]
          /\ queue' = [queue EXCEPT ![t] = IF e = "none" THEN Tail(queue[t]) ELSE queue[t]]
        BY <1>3 DEF NextByte, RecordsOK
    <2>2. 0 \in Nat /\ 0 < Head(queue[t]).size
        BY <1>1
    <2>3. CASE e = "none"
        <3>1. queue' = [queue EXCEPT ![t] = Tail(queue[t])]
            BY <2>1, <2>3
        <3> QED
            BY <1>1, <2>1, <2>2, <2>3, <3>1, OneThread
    <2>4. CASE e # "none"
        <3>1. queue' = [queue EXCEPT ![t] = queue[t]]
            BY <2>1, <2>4
        <3> QED
            BY <1>0, <2>1, <2>2, <3>1, OneThread
    <2> QED
        BY <2>3, <2>4
<1> QED
    BY <1>2, <1>3

(* The steps that change neither a record nor where a thread is in one. *)
LEMMA NothingMoved ==
    ASSUME RecordsOK, UNCHANGED <<client, mem, ip, buffer, queue, pass, nth>>
    PROVE  RecordsOK'
BY DEF RecordsOK, InRecord, Rec

LEMMA DeliveryKeeps ==
    ASSUME RecordsOK, NEW t \in Thread, Quiet(t), UNCHANGED <<client, mem, ip, pass, nth>>,
           queue' = [queue EXCEPT ![t] = Sampled(buffer[t])],
           buffer' = [buffer EXCEPT ![t] = <<>>]
    PROVE  RecordsOK'
<1>1. buffer[t] \in Seq(Record) /\ Sampled(buffer[t]) \in Seq(Record) /\ <<>> \in Seq(Record)
    BY SampledSeq, EmptySeq DEF RecordsOK
<1>2. queue' \in [Thread -> Seq(Record)] /\ buffer' \in [Thread -> Seq(Record)]
    BY <1>1 DEF RecordsOK
<1>3. ASSUME NEW u \in Thread PROVE InRecord(u)'
    <2>1. CASE u = t
        BY <2>1 DEF InRecord, Quiet
    <2>2. CASE u # t
        <3>1. queue'[u] = queue[u] /\ InRecord(u)
            BY <2>2 DEF RecordsOK
        <3> QED
            BY <3>1 DEF InRecord, Rec
    <2> QED
        BY <2>1, <2>2
<1> QED
    BY <1>2, <1>3 DEF RecordsOK

(* The instruction a thread is at, and what it leaves. *)
LEMMA InstrAt ==
    ASSUME RecordsOK, NEW t \in Thread, ip[t] \in DOMAIN Code(t)
    PROVE  /\ Instr(t) \in Instruction /\ <<t, ip[t]>> \in Contexts
           /\ Put(mem, Instr(t)) \in [Addr -> Value]
           /\ Emits(Instr(t), mem, <<t, ip[t]>>) \in Seq(Record)
           /\ CallsOf(Instr(t), mem, <<t, ip[t]>>) \in Seq(Record)
<1>1. ip[t] \in Nat /\ client \in Clients
    BY DEF RecordsOK
<1>2. Code(t) \in Seq(Instruction)
    BY <1>1, ClientsAssumption DEF Code
<1>3. Instr(t) \in Instruction
    <2>1. ip[t] \in 1 .. Len(Code(t))
        BY <1>1, <1>2, LenProperties
    <2> QED
        BY <1>2, <2>1, ElementOfSeq DEF Instr
<1>4. <<t, ip[t]>> \in Contexts
    <2> DEFINE Of(u, c) == {<<u, n>> : n \in DOMAIN c.code[u]}
    <2>1. <<t, ip[t]>> \in Of(t, client)
        BY <1>1 DEF Code
    <2>2. Of(t, client) \in {Of(u, c) : c \in Clients, u \in Thread}
        BY <1>1
    <2>3. Contexts = UNION {Of(u, c) : c \in Clients, u \in Thread}
        BY DEF Contexts
    <2> HIDE DEF Of
    <2> QED
        BY <2>1, <2>2, <2>3
<1> QED
    BY <1>3, <1>4, EmitsSeq DEF RecordsOK

LEMMA CallKeeps ==
    ASSUME RecordsOK, NEW t \in Thread, Call(t)
    PROVE  RecordsOK'
<1> DEFINE q == CallsOf(Instr(t), mem, <<t, ip[t]>>)
<1>1. /\ UNCHANGED <<client, mem, ip, buffer>> /\ pass' = pass /\ nth' = nth
      /\ queue' = [queue EXCEPT ![t] = q]
      /\ pass[t] = "none" /\ ip[t] \in DOMAIN Code(t)
    BY DEF Call, Quiet
<1>2. q \in Seq(Record)
    BY <1>1, InstrAt
<1>3. /\ pass' = [pass EXCEPT ![t] = "none"] /\ nth' = [nth EXCEPT ![t] = nth[t]]
      /\ nth[t] \in Nat /\ "none" \in Passes
    BY <1>1 DEF RecordsOK, Passes
<1> HIDE DEF q
<1> QED
    BY <1>1, <1>2, <1>3, OneThread

LEMMA ExecuteKeeps ==
    ASSUME RecordsOK, NEW t \in Thread, Execute(t)
    PROVE  RecordsOK'
<1> DEFINE b == buffer[t] \o Emits(Instr(t), mem, <<t, ip[t]>>)
<1>1. ip[t] \in DOMAIN Code(t)
    BY DEF Execute
<1>2. b \in Seq(Record)
    <2>1. buffer[t] \in Seq(Record)
        BY DEF RecordsOK
    <2> QED
        BY <1>1, <2>1, InstrAt, ConcatProperties
<1>3. buffer' \in [Thread -> Seq(Record)]
    <2>1. buffer' = IF client.naive THEN buffer ELSE [buffer EXCEPT ![t] = b]
        BY DEF Execute
    <2> HIDE DEF b
    <2> QED
        BY <1>2, <2>1 DEF RecordsOK
<1>4. ip' \in [Thread -> Nat] /\ mem' \in [Addr -> Value]
    BY <1>1, InstrAt DEF Execute, RecordsOK
<1>5. UNCHANGED <<client, queue, pass, nth>>
    BY DEF Execute, applying
<1> QED
    BY <1>3, <1>4, <1>5 DEF RecordsOK, InRecord, Rec

LEMMA TakeKeeps ==
    ASSUME RecordsOK, NEW t \in Thread,
           \/ TakeDeadspyRead(t) \/ TakeDeadspyWrite(t) \/ TakeLoadspyRead(t)
           \/ TakeRedspyAfter(t)
    PROVE  RecordsOK'
<1>1. CASE TakeDeadspyRead(t)
    <2>1. UNCHANGED <<client, mem, ip, buffer, queue>> /\ queue[t] # <<>> /\ Begin(t, "read mark")
        BY <1>1 DEF TakeDeadspyRead, Taking, program
    <2> QED
        BY <2>1, BeginKeeps DEF Passes
<1>2. CASE TakeDeadspyWrite(t)
    <2>1. UNCHANGED <<client, mem, ip, buffer, queue>> /\ queue[t] # <<>> /\ Begin(t, "test mark")
        BY <1>2 DEF TakeDeadspyWrite, Taking, program
    <2> QED
        BY <2>1, BeginKeeps DEF Passes
<1>3. CASE TakeLoadspyRead(t)
    <2>1. UNCHANGED <<client, mem, ip, buffer, queue>> /\ queue[t] # <<>> /\ Begin(t, "compare")
        BY <1>3 DEF TakeLoadspyRead, Taking, program
    <2> QED
        BY <2>1, BeginKeeps DEF Passes
<1>4. CASE TakeRedspyAfter(t)
    <2>1. UNCHANGED <<client, mem, ip, buffer, queue>> /\ queue[t] # <<>>
        BY <1>4 DEF TakeRedspyAfter, Taking, program
    <2>2. PICK p \in {"report", "stamp", "end"} : Begin(t, p)
        BY <1>4 DEF TakeRedspyAfter
    <2> QED
        BY <2>1, <2>2, BeginKeeps DEF Passes
<1> QED
    BY <1>1, <1>2, <1>3, <1>4

LEMMA DropKeeps ==
    ASSUME RecordsOK, NEW t \in Thread, UNCHANGED <<client, mem, ip, buffer, nth>>,
           queue[t] # <<>>, queue' = [queue EXCEPT ![t] = Tail(queue[t])],
           pass' = [pass EXCEPT ![t] = "none"]
    PROVE  RecordsOK'
<1>1. Tail(queue[t]) \in Seq(Record)
    BY RecOfQueue
<1>2. nth[t] \in Nat /\ nth' = [nth EXCEPT ![t] = nth[t]] /\ "none" \in Passes
    BY DEF RecordsOK, Passes
<1> QED
    BY <1>1, <1>2, OneThread

LEMMA ByteKeeps ==
    ASSUME RecordsOK, NEW t \in Thread,
           \/ MarkRead(t) \/ SkipRead(t) \/ Copy(t) \/ Stamp(t)
    PROVE  RecordsOK'
<1> USE DEF At
<1>1. UNCHANGED <<client, mem, ip, buffer>> /\ pass[t] \notin {"none", "end"}
    BY DEF MarkRead, SkipRead, Copy, Stamp, program
<1>2. CASE MarkRead(t) \/ SkipRead(t)
    <2>1. NextByte(t, "read mark", "none")
        BY <1>2 DEF MarkRead, SkipRead
    <2> QED
        BY <1>1, <2>1, NextByteKeeps DEF Passes
<1>3. CASE Copy(t)
    <2>1. PICK e \in {"report", "stamp"} : NextByte(t, "copy", e)
        BY <1>3 DEF Copy
    <2> QED
        BY <1>1, <2>1, NextByteKeeps DEF Passes
<1>4. CASE Stamp(t)
    <2>1. Again(t) \in {"test mark", "report", "stamp"}
        BY DEF Again
    <2>2. PICK e \in {"end", "none"} : NextByte(t, Again(t), e)
        BY <1>4 DEF Stamp
    <2>3. Again(t) \in Passes \ {"none"} /\ e \in Passes
        BY <2>1 DEF Passes
    <2> QED
        BY <1>1, <2>2, <2>3, NextByteKeeps
<1> QED
    BY <1>2, <1>3, <1>4

LEMMA TurningKeeps ==
    ASSUME RecordsOK, NEW t \in Thread, TestMark(t) \/ SetMark(t) \/ Report(t)
    PROVE  RecordsOK'
<1> USE DEF At
<1>1. UNCHANGED <<client, mem, ip, buffer>> /\ pass[t] \notin {"none", "end"}
    BY DEF TestMark, SetMark, Report, program
<1>2. \E p \in {"report", "set mark", "stamp"} : Turn(t, p)
    BY DEF TestMark, SetMark, Report
<1> QED
    BY <1>1, <1>2, TurnKeeps DEF Passes

LEMMA CompareKeeps ==
    ASSUME RecordsOK, NEW t \in Thread, Compare(t)
    PROVE  RecordsOK'
<1>1. UNCHANGED <<client, mem, ip, buffer, queue>> /\ pass[t] = "compare"
    BY DEF Compare, program, At
<1>2. queue[t] # <<>> /\ queue[t] \in Seq(Record) /\ nth[t] \in Nat
    BY <1>1 DEF RecordsOK, InRecord
<1>3. Rec(t).size \in Nat /\ Rec(t).size >= 1 /\ Rec(t) = Head(queue[t])
    BY <1>2, RecOfQueue DEF Rec
<1>4. queue' = [queue EXCEPT ![t] = queue[t]]
    BY <1>1 DEF RecordsOK
<1>5. \/ /\ pass' = [pass EXCEPT ![t] = "compare"] /\ nth' = [nth EXCEPT ![t] = nth[t] + 1]
         /\ nth[t] + 1 < Rec(t).size
      \/ pass' = [pass EXCEPT ![t] = "copy"] /\ nth' = [nth EXCEPT ![t] = 0]
    BY DEF Compare
<1>6. "compare" \in Passes /\ "copy" \in Passes /\ 0 \in Nat /\ nth[t] + 1 \in Nat
      /\ 0 < Head(queue[t]).size
    BY <1>2, <1>3 DEF Passes
<1>7. CASE /\ pass' = [pass EXCEPT ![t] = "compare"] /\ nth' = [nth EXCEPT ![t] = nth[t] + 1]
           /\ nth[t] + 1 < Rec(t).size
    BY <1>1, <1>2, <1>3, <1>4, <1>6, <1>7, OneThread
<1>8. CASE pass' = [pass EXCEPT ![t] = "copy"] /\ nth' = [nth EXCEPT ![t] = 0]
    BY <1>1, <1>2, <1>4, <1>6, <1>8, OneThread
<1> QED
    BY <1>5, <1>7, <1>8

LEMMA RecordsKept ==
    ASSUME RecordsOK, [Next]_vars
    PROVE  RecordsOK'
<1> USE DEF program, applying
<1>1. CASE UNCHANGED vars
    BY <1>1, NothingMoved DEF vars
<1>2. CASE ProcessExit
    BY <1>2, NothingMoved DEF ProcessExit
<1>3. ASSUME NEW t \in Thread, ThreadStep(t) PROVE RecordsOK'
    <2>1. CASE ThreadStart(t) \/ AddBytes(t) \/ AddFound(t)
        BY <2>1, NothingMoved DEF ThreadStart, AddBytes, AddFound
    <2>2. CASE Deliver(t) \/ ThreadExit(t)
        BY <2>2, DeliveryKeeps DEF Deliver, ThreadExit
    <2>3. CASE Call(t) \/ Execute(t)
        BY <2>3, CallKeeps, ExecuteKeeps
    <2>4. CASE Apply(t)
        <3>1. CASE \/ TakeDeadspyRead(t) \/ TakeDeadspyWrite(t) \/ TakeLoadspyRead(t)
                   \/ TakeRedspyAfter(t)
            BY <3>1, TakeKeeps
        <3>2. CASE StartLookup(t) \/ Advance(t)
            BY <3>2, NothingMoved DEF StartLookup, Advance
        <3>3. CASE MarkRead(t) \/ SkipRead(t) \/ Copy(t) \/ Stamp(t)
            BY <3>3, ByteKeeps
        <3>4. CASE TestMark(t) \/ SetMark(t) \/ Report(t)
            BY <3>4, TurningKeeps
        <3>5. CASE Compare(t)
            BY <3>5, CompareKeeps
        <3>6. CASE TakeRedspyBefore(t)
            <4>1. UNCHANGED <<client, mem, ip, buffer, nth>> /\ queue[t] # <<>>
                BY <3>6 DEF TakeRedspyBefore, Taking
            <4>2. queue' = [queue EXCEPT ![t] = Tail(queue[t])]
                BY <3>6 DEF TakeRedspyBefore
            <4>3. pass' = [pass EXCEPT ![t] = "none"]
                BY <3>6 DEF TakeRedspyBefore, Taking, RecordsOK
            <4> QED
                BY <4>1, <4>2, <4>3, DropKeeps
        <3>7. CASE EndAfter(t)
            <4>1. UNCHANGED <<client, mem, ip, buffer, nth>> /\ queue[t] # <<>>
                BY <3>7 DEF EndAfter, RecordsOK, InRecord
            <4>2. /\ queue' = [queue EXCEPT ![t] = Tail(queue[t])]
                  /\ pass' = [pass EXCEPT ![t] = "none"]
                BY <3>7 DEF EndAfter
            <4> QED
                BY <4>1, <4>2, DropKeeps
        <3> QED
            BY <2>4, <3>1, <3>2, <3>3, <3>4, <3>5, <3>6, <3>7 DEF Apply
    <2> QED
        BY <1>3, <2>1, <2>2, <2>3, <2>4 DEF ThreadStep
<1> QED
    BY <1>1, <1>2, <1>3 DEF Next

-----------------------------------------------------------------------------
(* Every step of the clients is one of the memory, or leaves it alone.     *)

LEMMA ByteInAddr ==
    ASSUME RecordsOK, NEW t \in Thread, pass[t] \notin {"none", "end"}
    PROVE  /\ Byte(t) \in Addr /\ BaseOf(Byte(t)) \in Base /\ Byte(t)[3] \in Offset
           /\ Rec(t) \in Record /\ nth[t] \in 0 .. (Rec(t).size - 1)
<1>1. queue[t] # <<>> /\ nth[t] \in Nat /\ nth[t] < Rec(t).size
    BY DEF RecordsOK, InRecord
<1>2. Rec(t) \in Record /\ Rec(t).addr \in Addr /\ Rec(t).size \in Nat
    BY <1>1, RecOfQueue
<1>3. Byte(t) \in Addr /\ BaseOf(Byte(t)) \in Base
    BY <1>1, <1>2, PlusInAddr DEF Byte
<1>4. Byte(t)[3] \in Offset
    BY <1>3 DEF Addr
<1> QED
    BY <1>1, <1>2, <1>3, <1>4

LEMMA StoreWrites ==
    ASSUME IInv, RecordsOK, NEW t \in Thread, pass[t] \notin {"none", "end"}, NEW f, NEW x,
           \A c \in Cell : [c EXCEPT ![f] = x] \in Cell, Store(t, f, x)
    PROVE  ShadowNext
<1>1. Holds(t, Byte(t)) /\ Byte(t) \in Addr /\ Byte(t)[3] \in Offset
    BY ByteInAddr DEF Store, WriteCell
<1>2. v2[t] \in PageId
    <2>1. step[t] = "held" /\ FoundOK(t) /\ v2[t] \in PageId \cup {NULL}
        BY <1>1 DEF IInv, ShadowTypeOK, Holds
    <2> QED
        BY <2>1 DEF FoundOK
<1>3. page[v2[t]][Byte(t)[3]] \in Cell
    BY <1>1, <1>2 DEF IInv, ShadowTypeOK
<1>4. [page[v2[t]][Byte(t)[3]] EXCEPT ![f] = x] \in Cell
    BY <1>3
<1> QED
    BY <1>1, <1>4 DEF Store, ShadowNext

LEMMA StepUsesMemory ==
    ASSUME IInv, RecordsOK, [Next]_vars
    PROVE  [ShadowNext]_shadowVars
<1> SUFFICES ShadowNext \/ UNCHANGED <<memory, look>>
    BY DEF shadowVars
<1>1. CASE UNCHANGED vars
    BY <1>1 DEF vars
<1>2. CASE ProcessExit
    BY <1>2 DEF ProcessExit, ShadowNext
<1>3. ASSUME NEW t \in Thread, ThreadStep(t) PROVE ShadowNext \/ UNCHANGED <<memory, look>>
    <2>1. CASE \/ ThreadStart(t) \/ AddBytes(t) \/ AddFound(t) \/ Deliver(t) \/ ThreadExit(t)
               \/ Call(t) \/ Execute(t)
        BY <2>1 DEF ThreadStart, AddBytes, AddFound, Deliver, ThreadExit, Call, Execute
    <2>2. CASE \/ TakeDeadspyRead(t) \/ TakeDeadspyWrite(t) \/ TakeLoadspyRead(t)
               \/ TakeRedspyBefore(t) \/ TakeRedspyAfter(t) \/ SkipRead(t) \/ EndAfter(t)
        BY <2>2 DEF TakeDeadspyRead, TakeDeadspyWrite, TakeLoadspyRead, TakeRedspyBefore,
            TakeRedspyAfter, SkipRead, EndAfter
    <2>3. CASE StartLookup(t)
        <3>1. BaseOf(Byte(t)) \in Base
            BY <2>3, ByteInAddr DEF StartLookup
        <3>2. (pass[t] # "read mark") \in BOOLEAN
            OBVIOUS
        <3>3. Ask(t, BaseOf(Byte(t)), pass[t] # "read mark")
            BY <2>3 DEF StartLookup
        <3>4. \E b \in Base, c \in BOOLEAN : Ask(t, b, c)
            BY <3>1, <3>2, <3>3, Zenon
        <3> QED
            BY <3>4 DEF ShadowNext
    <2>4. CASE Advance(t)
        BY <2>4 DEF Advance, ShadowNext
    <2>5. CASE TestMark(t) \/ Compare(t) \/ Report(t)
        <3>1. ReadCell(t, Byte(t)) /\ pass[t] \notin {"none", "end"}
            BY <2>5 DEF TestMark, Compare, Report, At
        <3>2. Byte(t) \in Addr
            BY <3>1, ByteInAddr
        <3> QED
            BY <3>1, <3>2 DEF ShadowNext
    <2>6. CASE MarkRead(t)
        <3>1. Store(t, "mark", ReadAction) /\ pass[t] \notin {"none", "end"}
            BY <2>6 DEF MarkRead, At
        <3>2. \A c \in Cell : [c EXCEPT !["mark"] = ReadAction] \in Cell
            BY CellAssumption
        <3> QED
            BY <3>1, <3>2, StoreWrites
    <2>7. CASE SetMark(t)
        <3>1. Store(t, "mark", WriteAction) /\ pass[t] \notin {"none", "end"}
            BY <2>7 DEF SetMark, At
        <3>2. \A c \in Cell : [c EXCEPT !["mark"] = WriteAction] \in Cell
            BY CellAssumption
        <3> QED
            BY <3>1, <3>2, StoreWrites
    <2>8. CASE Copy(t)
        <3>1. Store(t, "mark", Loaded(t)) /\ pass[t] \notin {"none", "end"}
            BY <2>8 DEF Copy, At
        <3>2. Rec(t).val[nth[t]] \in Value /\ mem[Byte(t)] \in Value
            BY <3>1, ByteInAddr DEF Record, RecordsOK
        <3>3. \A c \in Cell : [c EXCEPT !["mark"] = Loaded(t)] \in Cell
            BY <3>2, CellAssumption DEF Loaded
        <3> QED
            BY <3>1, <3>3, StoreWrites
    <2>9. CASE Stamp(t)
        <3>1. Store(t, "ctxt", Rec(t).ctxt) /\ pass[t] \notin {"none", "end"}
            BY <2>9 DEF Stamp, At
        <3>2. Rec(t).ctxt \in Contexts
            BY <3>1, ByteInAddr DEF Record
        <3>3. \A c \in Cell : [c EXCEPT !["ctxt"] = Rec(t).ctxt] \in Cell
            BY <3>2, CellAssumption
        <3> QED
            BY <3>1, <3>3, StoreWrites
    <2> QED
        BY <1>3, <2>1, <2>2, <2>3, <2>4, <2>5, <2>6, <2>7, <2>8, <2>9 DEF ThreadStep, Apply
<1> QED
    BY <1>1, <1>2, <1>3 DEF Next

(* What the memory needs and what the clients need are kept together.      *)
LEMMA ClientsInductive == Spec => [](IInv /\ RecordsOK)
<1>1. Init => IInv /\ RecordsOK
    BY InvInit, RecordsInit DEF Init
<1>2. (IInv /\ RecordsOK) /\ [Next]_vars => (IInv /\ RecordsOK)'
    BY StepUsesMemory, InvKept, RecordsKept
<1> QED
    BY <1>1, <1>2, PTL DEF Spec

-----------------------------------------------------------------------------
(* The clients are users of the memory: what a thread looks up, reads and  *)
(* writes for its records is never more than ShadowMemory allows.          *)
THEOREM ClientsUseMemory == Spec => ShadowSpec
<1>1. Init => ShadowInit
    BY DEF Init
<1>2. (IInv /\ RecordsOK) /\ [Next]_vars => [ShadowNext]_shadowVars
    BY StepUsesMemory
<1> QED
    BY <1>1, <1>2, ClientsInductive, PTL DEF Spec, ShadowSpec

(* Every page made for a record is used or freed, and freed once, while    *)
(* clients apply their records and when the process exits.                 *)
THEOREM ClientsPagesAccounted == Spec => []PagesAccounted
BY ClientsUseMemory, PagesAreAccounted, PTL

(* The clients may take the memory for one map from addresses to cells.    *)
THEOREM ClientsSeeMap == Spec => ActsAsMap
BY ClientsUseMemory, MemoryImplementsMap, PTL

-----------------------------------------------------------------------------
(* Type correctness of the clients.                                        *)

(* A bag with finitely many members. *)
FiniteBag(b) == IsABag(b) /\ IsFiniteSet(DOMAIN b)

Lives == {"new", "running", "exiting", "counted", "gone"}

(* What RecordsOK leaves of the type invariant. *)
TallyOK ==
    /\ life \in [Thread -> Lives]
    /\ called \in [Thread -> BOOLEAN]
    /\ fetched \in [Thread -> BOOLEAN]
    /\ same \in [Thread -> BOOLEAN]
    /\ slotNum \in [Thread -> 0 .. 255]
    /\ readIndex \in [Thread -> 0 .. 255]
    /\ bytes \in [Thread -> Nat]
    /\ DOMAIN found = Thread
    /\ \A t \in Thread : FiniteBag(found[t])
    /\ totals \in [bytes : Nat, found : Nat]

LEMMA SumOfBag ==
    ASSUME NEW b, FiniteBag(b)
    PROVE  SumFunction(b) \in Nat
<1> DEFINE S == DOMAIN b
<1>1. IsFiniteSet(S) /\ b \in [S -> Nat]
    BY DEF FiniteBag, IsABag
<1> HIDE DEF S
<1> QED
    BY <1>1, SumIsNumber

LEMMA BagAddFinite ==
    ASSUME NEW b, FiniteBag(b), NEW x
    PROVE  FiniteBag(BagAdd(b, x))
<1>1. b \in [DOMAIN b -> {n \in Nat : n > 0}] /\ IsFiniteSet(DOMAIN b)
    BY DEF FiniteBag, IsABag
<1>2. CASE x \in DOMAIN b
    <2>1. BagAdd(b, x) = [e \in DOMAIN b |-> IF e = x THEN b[e] + 1 ELSE b[e]]
        BY <1>2 DEF BagAdd
    <2>2. DOMAIN BagAdd(b, x) = DOMAIN b
        BY <2>1
    <2>3. BagAdd(b, x) \in [DOMAIN b -> {n \in Nat : n > 0}]
        BY <1>1, <2>1
    <2> QED
        BY <1>1, <2>2, <2>3 DEF FiniteBag, IsABag
<1>3. CASE x \notin DOMAIN b
    <2> DEFINE S == DOMAIN b \cup {x}
    <2>1. BagAdd(b, x) = [e \in S |-> IF e = x THEN 1 ELSE b[e]]
        BY <1>3 DEF BagAdd
    <2>2. DOMAIN BagAdd(b, x) = S
        BY <2>1
    <2>3. BagAdd(b, x) \in [S -> {n \in Nat : n > 0}]
        BY <1>1, <2>1
    <2>4. IsFiniteSet(S)
        <3> DEFINE D == DOMAIN b
        <3>1. IsFiniteSet(D)
            BY <1>1
        <3> HIDE DEF D
        <3>2. IsFiniteSet(D \cup {x})
            BY <3>1, FS_AddElement
        <3> QED
            BY <3>2 DEF D
    <2> QED
        BY <2>2, <2>3, <2>4 DEF FiniteBag, IsABag
<1> QED
    BY <1>2, <1>3

LEMMA EmptyBagFinite == FiniteBag(EmptyBag)
<1>1. EmptyBag = [e \in {} |-> 1]
    BY DEF EmptyBag, SetToBag
<1>2. DOMAIN EmptyBag = {} /\ EmptyBag \in [{} -> {n \in Nat : n > 0}]
    BY <1>1
<1> QED
    BY <1>2, FS_EmptySet DEF FiniteBag, IsABag

LEMMA TallyInit == Init => TallyOK
<1> SUFFICES ASSUME Init PROVE TallyOK
    OBVIOUS
<1>1. DOMAIN found = Thread /\ \A t \in Thread : FiniteBag(found[t])
    BY EmptyBagFinite DEF Init
<1>2. /\ life \in [Thread -> Lives] /\ called \in [Thread -> BOOLEAN]
      /\ fetched \in [Thread -> BOOLEAN] /\ same \in [Thread -> BOOLEAN]
      /\ slotNum \in [Thread -> 0 .. 255] /\ readIndex \in [Thread -> 0 .. 255]
      /\ bytes \in [Thread -> Nat] /\ totals \in [bytes : Nat, found : Nat]
    BY DEF Init, Lives
<1> QED
    BY <1>1, <1>2 DEF TallyOK

(* The bags, which are no set to be typed by, one thread at a time. *)
LEMMA BagsKept ==
    ASSUME TallyOK, NEW t \in Thread, NEW b, FiniteBag(b), found' = [found EXCEPT ![t] = b]
    PROVE  DOMAIN found' = Thread /\ \A u \in Thread : FiniteBag(found'[u])
<1>1. DOMAIN found' = Thread /\ found'[t] = b /\ \A u \in Thread \ {t} : found'[u] = found[u]
    BY DEF TallyOK
<1> QED
    BY <1>1 DEF TallyOK

(* A counter of slots is a byte. *)
LEMMA CountersWrap ==
    ASSUME NEW n \in 0 .. 255
    PROVE  (n + 1) % 256 \in 0 .. 255 /\ (n < 255 => (n + 1) % 256 = n + 1)
OBVIOUS

LEMMA TakeTallies ==
    ASSUME RecordsOK, TallyOK, NEW t \in Thread,
           \/ TakeDeadspyRead(t) \/ TakeDeadspyWrite(t) \/ TakeLoadspyRead(t)
           \/ TakeRedspyBefore(t) \/ TakeRedspyAfter(t)
    PROVE  TallyOK'
<1>1. Rec(t).size \in Nat
    BY RecOfQueue DEF TakeDeadspyRead, TakeDeadspyWrite, TakeLoadspyRead, TakeRedspyBefore,
        TakeRedspyAfter, Taking
<1>2. bytes' \in [Thread -> Nat]
    <2>1. bytes' = bytes \/ bytes' = [bytes EXCEPT ![t] = bytes[t] + Rec(t).size]
        BY DEF TakeDeadspyRead, TakeDeadspyWrite, TakeLoadspyRead, TakeRedspyBefore,
            TakeRedspyAfter, Count, tally, TallyOK
    <2>2. bytes[t] + Rec(t).size \in Nat
        BY <1>1 DEF TallyOK
    <2> QED
        BY <2>1, <2>2 DEF TallyOK
<1>3. fetched' \in [Thread -> BOOLEAN]
    BY DEF TakeDeadspyRead, TakeDeadspyWrite, TakeLoadspyRead, TakeRedspyBefore,
        TakeRedspyAfter, Begin, TallyOK
<1>4. same' \in [Thread -> BOOLEAN]
    <2>1. CASE TakeRedspyAfter(t)
        <3>1. \/ \E luck \in BOOLEAN :
                   same' = [same EXCEPT ![t] = Unchanged(Rec(t), slot[t][readIndex[t]], luck)]
              \/ same' = same
            BY <2>1 DEF TakeRedspyAfter
        <3>2. \A luck \in BOOLEAN : Unchanged(Rec(t), slot[t][readIndex[t]], luck) \in BOOLEAN
            BY DEF Unchanged
        <3> QED
            BY <3>1, <3>2 DEF TallyOK
    <2>2. CASE TakeLoadspyRead(t)
        BY <2>2 DEF TakeLoadspyRead, TallyOK
    <2>3. CASE TakeDeadspyRead(t) \/ TakeDeadspyWrite(t) \/ TakeRedspyBefore(t)
        BY <2>3 DEF TakeDeadspyRead, TakeDeadspyWrite, TakeRedspyBefore, TallyOK
    <2> QED
        BY <2>1, <2>2, <2>3
<1>5. slotNum' \in [Thread -> 0 .. 255] /\ readIndex' \in [Thread -> 0 .. 255]
    <2>1. CASE TakeRedspyBefore(t)
        <3>1. readIndex' = readIndex /\ slotNum' = [slotNum EXCEPT ![t] = (slotNum[t] + 1) % 256]
            BY <2>1 DEF TakeRedspyBefore, TallyOK
        <3>2. (slotNum[t] + 1) % 256 \in 0 .. 255
            <4>1. slotNum[t] \in 0 .. 255
                BY DEF TallyOK
            <4> QED
                BY <4>1, CountersWrap
        <3> QED
            BY <3>1, <3>2 DEF TallyOK
    <2>2. CASE slotNum' = slotNum /\ readIndex' = readIndex
        BY <2>2 DEF TallyOK
    <2> QED
        BY <2>1, <2>2 DEF TakeDeadspyRead, TakeDeadspyWrite, TakeLoadspyRead,
            TakeRedspyAfter, slotting
<1>6. UNCHANGED <<life, called, found, totals>>
    BY DEF TakeDeadspyRead, TakeDeadspyWrite, TakeLoadspyRead, TakeRedspyBefore,
        TakeRedspyAfter, program, tally
<1> QED
    BY <1>2, <1>3, <1>4, <1>5, <1>6 DEF TallyOK

LEMMA ByteTallies ==
    ASSUME TallyOK, NEW t \in Thread,
           \/ StartLookup(t) \/ Advance(t) \/ MarkRead(t) \/ SkipRead(t) \/ TestMark(t)
           \/ SetMark(t) \/ Compare(t) \/ Copy(t) \/ Report(t) \/ Stamp(t) \/ EndAfter(t)
    PROVE  TallyOK'
<1>1. UNCHANGED <<life, called, bytes, totals>>
    BY DEF StartLookup, Advance, MarkRead, SkipRead, TestMark, SetMark, Compare, Copy, Report,
        Stamp, EndAfter, program, tally
<1>2. fetched' \in [Thread -> BOOLEAN]
    BY DEF StartLookup, Advance, MarkRead, SkipRead, TestMark, SetMark, Compare, Copy, Report,
        Stamp, EndAfter, applying, Turn, NextByte, OnOnePage, TallyOK
<1>3. same' \in [Thread -> BOOLEAN]
    BY DEF StartLookup, Advance, MarkRead, SkipRead, TestMark, SetMark, Compare, Copy, Report,
        Stamp, EndAfter, applying, Turn, TallyOK
<1>4. slotNum' \in [Thread -> 0 .. 255] /\ readIndex' \in [Thread -> 0 .. 255]
    <2>1. CASE EndAfter(t)
        <3> DEFINE n == (readIndex[t] + 1) % 256
        <3>1. n \in 0 .. 255
            <4>1. readIndex[t] \in 0 .. 255
                BY DEF TallyOK
            <4> QED
                BY <4>1, CountersWrap
        <3>2. /\ readIndex' = [readIndex EXCEPT ![t] = IF n = slotNum[t] THEN 0 ELSE n]
              /\ slotNum' = [slotNum EXCEPT ![t] = IF n = slotNum[t] THEN 0 ELSE slotNum[t]]
            BY <2>1 DEF EndAfter, TallyOK
        <3> HIDE DEF n
        <3> QED
            BY <3>1, <3>2 DEF TallyOK
    <2>2. CASE slotNum' = slotNum /\ readIndex' = readIndex
        BY <2>2 DEF TallyOK
    <2> QED
        BY <2>1, <2>2 DEF StartLookup, Advance, MarkRead, SkipRead, TestMark, SetMark, Compare,
            Copy, Report, Stamp, slotting
<1>5. DOMAIN found' = Thread /\ \A u \in Thread : FiniteBag(found'[u])
    <2>1. CASE Report(t)
        <3> DEFINE b == BagAdd(found[t], <<seen'[t].ctxt, Rec(t).ctxt>>)
        <3>1. found' = [found EXCEPT ![t] = b]
            BY <2>1 DEF Report, TallyOK
        <3>2. FiniteBag(b)
            BY BagAddFinite DEF TallyOK
        <3> HIDE DEF b
        <3> QED
            BY <3>1, <3>2, BagsKept
    <2>2. CASE found' = found
        BY <2>2 DEF TallyOK
    <2> QED
        BY <2>1, <2>2 DEF StartLookup, Advance, MarkRead, SkipRead, TestMark, SetMark, Compare,
            Copy, Stamp, EndAfter, tally
<1> QED
    BY <1>1, <1>2, <1>3, <1>4, <1>5 DEF TallyOK

LEMMA LifeTallies ==
    ASSUME TallyOK, NEW t \in Thread,
           \/ ThreadStart(t) \/ Deliver(t) \/ Call(t) \/ Execute(t)
           \/ ThreadExit(t) \/ AddBytes(t) \/ AddFound(t)
    PROVE  TallyOK'
<1>1. life' \in [Thread -> Lives] /\ called' \in [Thread -> BOOLEAN]
    BY ZenonT(40) DEF ThreadStart, Deliver, Call, Execute, ThreadExit, AddBytes, AddFound, TallyOK, Lives
<1>2. fetched' = fetched /\ same' = same
    BY DEF ThreadStart, Deliver, Call, Execute, ThreadExit, AddBytes, AddFound, applying
<1>3. /\ slotNum' \in [Thread -> 0 .. 255] /\ readIndex' \in [Thread -> 0 .. 255]
      /\ bytes' \in [Thread -> Nat]
    <2>1. CASE ThreadStart(t)
        <3>1. /\ slotNum' = [slotNum EXCEPT ![t] = 0] /\ readIndex' = [readIndex EXCEPT ![t] = 0]
              /\ bytes' = [bytes EXCEPT ![t] = 0]
            BY <2>1 DEF ThreadStart
        <3> QED
            BY <3>1 DEF TallyOK
    <2>2. CASE slotNum' = slotNum /\ readIndex' = readIndex /\ bytes' = bytes
        BY <2>2 DEF TallyOK
    <2> QED
        BY <2>1, <2>2 DEF Deliver, Call, Execute, ThreadExit, AddBytes, AddFound, slotting, tally
<1>4. DOMAIN found' = Thread /\ \A u \in Thread : FiniteBag(found'[u])
    <2>1. CASE ThreadStart(t)
        BY <2>1, EmptyBagFinite, BagsKept DEF ThreadStart
    <2>2. CASE found' = found
        BY <2>2 DEF TallyOK
    <2> QED
        BY <2>1, <2>2 DEF Deliver, Call, Execute, ThreadExit, AddBytes, AddFound, tally
<1>5. totals' \in [bytes : Nat, found : Nat]
    <2>1. SumFunction(found[t]) \in Nat /\ bytes[t] \in Nat
        BY SumOfBag DEF TallyOK
    <2>2. CASE AddBytes(t)
        <3>1. totals' = [totals EXCEPT !.bytes = totals.bytes + bytes[t]]
            BY <2>2 DEF AddBytes
        <3> QED
            BY <2>1, <3>1 DEF TallyOK
    <2>3. CASE AddFound(t)
        <3>1. totals' = [totals EXCEPT !.found = totals.found + SumFunction(found[t])]
            BY <2>3 DEF AddFound
        <3> QED
            BY <2>1, <3>1 DEF TallyOK
    <2>4. CASE totals' = totals
        BY <2>4 DEF TallyOK
    <2> QED
        BY <2>2, <2>3, <2>4 DEF ThreadStart, Deliver, Call, Execute, ThreadExit
<1> QED
    BY <1>1, <1>2, <1>3, <1>4, <1>5 DEF TallyOK

LEMMA TallyKept ==
    ASSUME RecordsOK, TallyOK, [Next]_vars
    PROVE  TallyOK'
<1>1. CASE UNCHANGED vars
    BY <1>1 DEF vars, program, applying, slotting, tally, TallyOK
<1>2. CASE ProcessExit
    BY <1>2 DEF ProcessExit, program, applying, slotting, tally, TallyOK
<1>3. ASSUME NEW t \in Thread, ThreadStep(t) PROVE TallyOK'
    <2>1. CASE Apply(t)
        BY <2>1, TakeTallies, ByteTallies DEF Apply
    <2> QED
        BY <1>3, <2>1, LifeTallies DEF ThreadStep
<1> QED
    BY <1>1, <1>2, <1>3 DEF Next

LEMMA ClientsTyped == Spec => [](IInv /\ RecordsOK /\ TallyOK)
<1>1. RecordsOK /\ TallyOK /\ [Next]_vars => TallyOK'
    BY TallyKept
<1> QED
    BY <1>1, TallyInit, ClientsInductive, PTL DEF Spec

LEMMA RecordTyped == Record \subseteq RecordType
<1>1. Contexts \subseteq Thread \X Nat
    <2>1. \A c \in Clients, t \in Thread : DOMAIN c.code[t] \subseteq Nat
        BY ClientsAssumption
    <2> QED
        BY <2>1 DEF Contexts
<1> QED
    BY <1>1 DEF Record, RecordType

(* Whatever threads and clients do, and however the counters of slots wrap  *)
(* around, every variable keeps its type: the cells get a mark and a context *)
(* of the record that is applied, and the tables stay bags of pairs.        *)
THEOREM ClientsTypeCorrect == Spec => []MemTypeOK
<1>1. IInv /\ RecordsOK /\ TallyOK => MemTypeOK
    <2> SUFFICES ASSUME IInv, RecordsOK, TallyOK PROVE MemTypeOK
        OBVIOUS
    <2>1. ASSUME NEW t \in Thread
          PROVE  /\ \A n \in DOMAIN buffer[t] : buffer[t][n] \in RecordType
                 /\ \A n \in DOMAIN queue[t] : queue[t][n] \in RecordType
                 /\ IsABag(found[t])
        <3>1. buffer[t] \in Seq(Record) /\ queue[t] \in Seq(Record)
            BY DEF RecordsOK
        <3>2. \A n \in DOMAIN buffer[t] : buffer[t][n] \in Record
            BY <3>1
        <3>3. \A n \in DOMAIN queue[t] : queue[t][n] \in Record
            BY <3>1
        <3>4. IsABag(found[t])
            BY DEF TallyOK, FiniteBag
        <3> QED
            BY <3>2, <3>3, <3>4, RecordTyped
    <2>2. ShadowTypeOK
        BY DEF IInv
    <2> QED
        BY <2>1, <2>2 DEF MemTypeOK, RecordsOK, TallyOK, Lives
<1> QED
    BY <1>1, ClientsTyped, PTL

-----------------------------------------------------------------------------
(* What the records of a program add up to.                                *)

(* The records a client counts the bytes of. *)
CountedKind(c) == IF c.name = "deadspy" THEN "before write"
                  ELSE IF c.name = "loadspy" THEN "read" ELSE "after write"

Weight(c, r)  == IF r.kind = CountedKind(c) THEN r.size ELSE 0
Weights(c, q) == [n \in DOMAIN q |-> Weight(c, q[n])]
Load(c, q)    == SumFunction(Weights(c, q))

(* BytesJudged and JudgedBytes, of an instruction and up to a place in a program. *)
OperandsJudged(c, i) ==
    IF i.cti /\ c.name # "deadspy" THEN <<>>
    ELSE IF c.name = "loadspy" THEN i.src ELSE i.dst
Sizes(os)        == [j \in DOMAIN os |-> os[j].size]
InstrBytes(c, i) == SumFunction(Sizes(OperandsJudged(c, i)))
BytesUpTo(c, t, n) ==
    SumFunctionOnSet([k \in DOMAIN c.code[t] |-> InstrBytes(c, c.code[t][k])], 1 .. n)

LEMMA WeightsSeq ==
    ASSUME NEW c, NEW q \in Seq(Record)
    PROVE  /\ Weights(c, q) \in Seq(Nat) /\ Len(Weights(c, q)) = Len(q)
           /\ \A n \in 1 .. Len(q) : Weights(c, q)[n] = Weight(c, q[n])
<1>1. ASSUME NEW n \in 1 .. Len(q) PROVE Weight(c, q[n]) \in Nat
    <2>1. q[n] \in Record
        BY ElementOfSeq
    <2>2. q[n].size \in Nat
        BY <2>1, SizesAreNumbers DEF Record
    <2> QED
        BY <2>2 DEF Weight
<1>2. DOMAIN q = 1 .. Len(q) /\ Len(q) \in Nat
    BY LenProperties
<1>3. Weights(c, q) \in [1 .. Len(q) -> Nat]
    BY <1>1, <1>2 DEF Weights
<1>4. Weights(c, q) \in Seq(Nat)
    BY <1>2, <1>3, FunctionIsSeq
<1>5. Len(Weights(c, q)) = Len(q)
    <2>1. DOMAIN Weights(c, q) = 1 .. Len(q)
        BY <1>3
    <2> QED
        BY <1>2, <1>4, <2>1, LenProperties
<1>6. \A n \in 1 .. Len(q) : Weights(c, q)[n] = Weight(c, q[n])
    BY <1>2 DEF Weights
<1> QED
    BY <1>4, <1>5, <1>6

LEMMA LoadIsNumber ==
    ASSUME NEW c, NEW q \in Seq(Record)
    PROVE  Load(c, q) \in Nat /\ Load(c, <<>>) = 0
<1>1. \A w \in Seq(Nat) : SumFunction(w) \in Nat /\ (w = <<>> => SumFunction(w) = 0)
    <2> SUFFICES ASSUME NEW w \in Seq(Nat)
                 PROVE  SumFunction(w) \in Nat /\ (w = <<>> => SumFunction(w) = 0)
        OBVIOUS
    <2> DEFINE S == 1 .. Len(w)
    <2>1. w \in [S -> Nat] /\ Len(w) \in Nat /\ (w = <<>> => S = {})
        BY LenProperties, EmptySeq
    <2>2. IsFiniteSet(S)
        BY <2>1, FS_Interval
    <2> HIDE DEF S
    <2> QED
        BY <2>1, <2>2, SumIsNumber
<1>2. Weights(c, <<>>) = <<>>
    BY DEF Weights
<1>3. Weights(c, q) \in Seq(Nat) /\ <<>> \in Seq(Nat)
    BY WeightsSeq, EmptySeq
<1>4. Load(c, <<>>) = 0
    BY <1>1, <1>2, <1>3 DEF Load
<1> QED
    BY <1>1, <1>3, <1>4 DEF Load

LEMMA LoadOfBoth ==
    ASSUME NEW c, NEW q \in Seq(Record), NEW r \in Seq(Record)
    PROVE  Load(c, q \o r) = Load(c, q) + Load(c, r)
<1>1. q \o r \in Seq(Record) /\ Len(q \o r) = Len(q) + Len(r)
      /\ \A i \in 1 .. Len(q) + Len(r) : (q \o r)[i] = IF i <= Len(q) THEN q[i] ELSE r[i - Len(q)]
    BY ConcatProperties
<1> DEFINE a == Weights(c, q)
           b == Weights(c, r)
           w == Weights(c, q \o r)
<1>2. /\ a \in Seq(Nat) /\ Len(a) = Len(q) /\ (\A n \in 1 .. Len(q) : a[n] = Weight(c, q[n]))
      /\ b \in Seq(Nat) /\ Len(b) = Len(r) /\ (\A n \in 1 .. Len(r) : b[n] = Weight(c, r[n]))
    BY WeightsSeq
<1>3. /\ w \in Seq(Nat) /\ Len(w) = Len(q) + Len(r)
      /\ \A n \in 1 .. Len(q) + Len(r) : w[n] = Weight(c, (q \o r)[n])
    <2> DEFINE x == q \o r
    <2>1. x \in Seq(Record) /\ Len(x) = Len(q) + Len(r)
        BY <1>1
    <2> HIDE DEF x
    <2>2. /\ Weights(c, x) \in Seq(Nat) /\ Len(Weights(c, x)) = Len(x)
          /\ \A n \in 1 .. Len(x) : Weights(c, x)[n] = Weight(c, x[n])
        BY <2>1, WeightsSeq
    <2> QED
        BY <2>1, <2>2 DEF x
<1> HIDE DEF a, b, w
<1>4. a \o b \in Seq(Nat) /\ Len(a \o b) = Len(a) + Len(b)
      /\ \A i \in 1 .. Len(a) + Len(b) : (a \o b)[i] = IF i <= Len(a) THEN a[i] ELSE b[i - Len(a)]
    <2>1. a \in Seq(Nat) /\ b \in Seq(Nat)
        BY <1>2
    <2> QED
        BY <2>1, ConcatProperties
<1>5. w = a \o b
    <2>1. ASSUME NEW i \in 1 .. Len(w) PROVE w[i] = (a \o b)[i]
        <3>1. Len(q) \in Nat /\ Len(r) \in Nat /\ i \in Nat
            BY <1>3
        <3>2. CASE i <= Len(q)
            <4>1. i \in 1 .. Len(q)
                BY <1>3, <3>1, <3>2
            <4>2. (q \o r)[i] = q[i] /\ (a \o b)[i] = a[i]
                BY <1>1, <1>2, <1>3, <1>4, <3>1, <3>2
            <4> QED
                BY <1>2, <1>3, <4>1, <4>2
        <3>3. CASE ~ (i <= Len(q))
            <4>1. i - Len(q) \in 1 .. Len(r)
                BY <1>3, <3>1, <3>3
            <4>2. (q \o r)[i] = r[i - Len(q)] /\ (a \o b)[i] = b[i - Len(q)]
                BY <1>1, <1>2, <1>3, <1>4, <3>1, <3>3
            <4> QED
                BY <1>2, <1>3, <4>1, <4>2
        <3> QED
            BY <3>2, <3>3
    <2>2. Len(w) = Len(a \o b)
        BY <1>2, <1>3, <1>4
    <2> QED
        BY <1>3, <1>4, <2>1, <2>2, SeqEqual
<1>6. SumFunction(w) = SumFunction(a) + SumFunction(b)
    BY <1>2, <1>5, SumConcat
<1> QED
    BY <1>6 DEF Load, a, b, w

LEMMA LoadOfFirst ==
    ASSUME NEW c, NEW q \in Seq(Record), q # <<>>
    PROVE  Load(c, q) = Weight(c, Head(q)) + Load(c, Tail(q))
<1>1. /\ Head(q) \in Record /\ Tail(q) \in Seq(Record) /\ Len(Tail(q)) = Len(q) - 1
      /\ \A i \in 1 .. Len(Tail(q)) : Tail(q)[i] = q[i + 1]
    BY HeadTailProperties
<1>2. Len(q) \in Nat \ {0} /\ Head(q) = q[1]
    BY EmptySeq
<1> DEFINE h == <<Head(q)>>
<1>3. h \in Seq(Record) /\ Len(h) = 1 /\ h[1] = Head(q)
    BY <1>1
<1>4. q = h \o Tail(q)
    BY <1>1, <1>2
<1>5. Load(c, h) = Weight(c, Head(q))
    <2> DEFINE w == Weights(c, h)
    <2>1. w \in Seq(Nat) /\ Len(w) = 1 /\ w[1] = Weight(c, Head(q))
        <3> HIDE DEF h
        <3>1. /\ Weights(c, h) \in Seq(Nat) /\ Len(Weights(c, h)) = Len(h)
              /\ \A n \in 1 .. Len(h) : Weights(c, h)[n] = Weight(c, h[n])
            BY <1>3, WeightsSeq
        <3> QED
            BY <1>3, <3>1
    <2> HIDE DEF w
    <2>2. DOMAIN w = 1 .. 1 /\ (\A k \in 1 .. 1 : w[k] \in Nat) /\ w[1] \in Nat
        <3>1. DOMAIN w = 1 .. Len(w) /\ \A k \in 1 .. Len(w) : w[k] \in Nat
            BY <2>1, LenProperties, ElementOfSeq
        <3>2. DOMAIN w = 1 .. 1 /\ \A k \in 1 .. 1 : w[k] \in Nat
            BY <2>1, <3>1, Zenon
        <3> QED
            BY <3>2
    <2>3. SumFunctionOnSet(w, 1 .. 0) = 0 /\ SumFunctionOnSet(w, 1 .. (0 + 1)) = SumFunctionOnSet(w, 1 .. 0) + w[0 + 1]
        <3> DEFINE N == 1
        <3>1. N \in Nat /\ 0 \in 0 .. N - 1 /\ \A k \in 1 .. N : w[k] \in Nat
            BY <2>2
        <3> HIDE DEF N
        <3>2. SumFunctionOnSet(w, 1 .. 0) = 0
            BY <3>1, SumUpTo
        <3>3. \A k \in 0 .. N - 1 :
                SumFunctionOnSet(w, 1 .. (k + 1)) = SumFunctionOnSet(w, 1 .. k) + w[k + 1]
            BY <3>1, SumUpTo
        <3> QED
            BY <3>1, <3>2, <3>3
    <2>4. SumFunction(w) = w[1]
        <3>1. SumFunction(w) = SumFunctionOnSet(w, 1 .. 1)
            BY <2>2, Zenon DEF SumFunction
        <3>2. 0 + 1 = 1
            OBVIOUS
        <3> QED
            BY <2>2, <2>3, <3>1, <3>2
    <2> QED
        BY <2>1, <2>4 DEF Load, w
<1> HIDE DEF h
<1>6. Load(c, q) = Load(c, h) + Load(c, Tail(q))
    BY <1>1, <1>3, <1>4, LoadOfBoth
<1> QED
    BY <1>5, <1>6

LEMMA PlacesFinite ==
    ASSUME NEW n \in Nat
    PROVE  IsFiniteSet(1 .. n)
BY FS_Interval

LEMMA SumOfSizes ==
    ASSUME NEW os \in Seq(Operand)
    PROVE  /\ SumFunction(Sizes(os)) \in Nat
           /\ os = <<>> => SumFunction(Sizes(os)) = 0
<1> DEFINE S == 1 .. Len(os)
<1>1. DOMAIN os = S /\ Len(os) \in Nat /\ (os = <<>> => S = {})
    BY LenProperties, EmptySeq
<1>2. \A j \in S : os[j].size \in Nat
    <2>1. \A j \in S : os[j] \in Operand
        BY ElementOfSeq
    <2> QED
        BY <2>1, SizesAreNumbers DEF Operand
<1>3. IsFiniteSet(S)
    BY <1>1, FS_Interval
<1> HIDE DEF S
<1>4. Sizes(os) \in [S -> Nat]
    BY <1>1, <1>2 DEF Sizes
<1> QED
    BY <1>1, <1>3, <1>4, SumIsNumber

LEMMA LoadOfRecords ==
    ASSUME client \in Clients, NEW os \in Seq(Operand), NEW m \in [Addr -> Value],
           NEW c \in Contexts, NEW k \in {"read", "before write", "after write"}
    PROVE  Load(client, RecordsOf(os, k, m, c))
             = IF k = CountedKind(client) THEN SumFunction(Sizes(os)) ELSE 0
<1> DEFINE R == RecordsOf(os, k, m, c)
<1>1. client.name \in {"deadspy", "loadspy", "redspy"}
    BY ClientsAssumption
<1>2. CASE k \notin Traces
    <2>1. R = <<>>
        BY <1>2, Zenon DEF RecordsOf
    <2>2. k # CountedKind(client)
        BY <1>1, <1>2 DEF Traces, CountedKind
    <2>3. <<>> \in Seq(Record)
        BY EmptySeq
    <2> QED
        BY <2>1, <2>2, <2>3, LoadIsNumber
<1>3. CASE k \in Traces
    <2> DEFINE S == 1 .. Len(os)
    <2>1. R = [j \in DOMAIN os |-> [kind |-> k, addr |-> os[j].addr, size |-> os[j].size,
                                    ctxt |-> c, val |-> Contents(m, os[j])]]
        BY <1>3, Zenon DEF RecordsOf
    <2>2. DOMAIN os = S /\ Len(os) \in Nat
        BY LenProperties
    <2> HIDE DEF R, S
    <2>3. DOMAIN R = S /\ \A j \in S : R[j].kind = k /\ R[j].size = os[j].size
        BY <2>1, <2>2
    <2>4. CASE k = CountedKind(client)
        <3>1. Weights(client, R) = Sizes(os)
            BY <2>2, <2>3, <2>4 DEF Weights, Weight, Sizes
        <3> QED
            BY <2>4, <3>1 DEF Load, R
    <2>5. CASE k # CountedKind(client)
        <3>0. Weights(client, R) = [j \in S |-> Weight(client, R[j])]
            BY <2>3 DEF Weights
        <3>1. Weights(client, R) \in [S -> {0}]
            <4>1. \A j \in S : Weight(client, R[j]) = 0
                BY <2>3, <2>5 DEF Weight
            <4> QED
                BY <3>0, <4>1
        <3>2. IsFiniteSet(S)
            <4>1. Len(os) \in Nat
                BY LenProperties
            <4>2. IsFiniteSet(1 .. Len(os))
                BY <4>1, PlacesFinite
            <4> QED
                BY <4>2 DEF S
        <3>3. SumFunction(Weights(client, R)) = 0
            BY <3>1, <3>2, SumOfZeros
        <3> QED
            BY <2>5, <3>3 DEF Load, R
    <2> QED
        BY <2>4, <2>5
<1> QED
    BY <1>2, <1>3

(* What an instruction leaves in the buffer, or a naive client is called    *)
(* with, is what it is to be judged by.                                    *)
LEMMA LoadOfEmits ==
    ASSUME client \in Clients, NEW i \in Instruction, NEW m \in [Addr -> Value],
           NEW c \in Contexts
    PROVE  /\ Load(client, Emits(i, m, c)) = InstrBytes(client, i)
           /\ client.naive => Load(client, CallsOf(i, m, c)) = InstrBytes(client, i)
<1>0. i.src \in Seq(Operand) /\ i.dst \in Seq(Operand) /\ Put(m, i) \in [Addr -> Value]
    BY EmitsSeq DEF Instruction
<1>1. /\ client.name \in {"deadspy", "loadspy", "redspy"}
      /\ client.naive => client.name \in {"deadspy", "loadspy"}
    BY ClientsAssumption
<1> DEFINE before == RecordsOf(i.dst, "before write", m, c)
           reads  == RecordsOf(i.src, "read", m, c)
           stored == RecordsOf(i.dst, "after write", Put(m, i), c)
           after  == IF i.cti THEN <<>> ELSE stored
           dst    == SumFunction(Sizes(i.dst))
           src    == SumFunction(Sizes(i.src))
<1>2. before \in Seq(Record) /\ reads \in Seq(Record) /\ stored \in Seq(Record)
    BY <1>0, RecordsOfSeq
<1>3. Load(client, before) = IF "before write" = CountedKind(client) THEN dst ELSE 0
    BY <1>0, LoadOfRecords
<1>4. Load(client, reads) = IF "read" = CountedKind(client) THEN src ELSE 0
    BY <1>0, LoadOfRecords
<1>5. Load(client, stored) = IF "after write" = CountedKind(client) THEN dst ELSE 0
    BY <1>0, LoadOfRecords
<1>6. dst \in Nat /\ src \in Nat /\ SumFunction(Sizes(<<>>)) = 0 /\ Load(client, <<>>) = 0
      /\ <<>> \in Seq(Record)
    <2>1. <<>> \in Seq(Record) /\ <<>> \in Seq(Operand)
        BY EmptySeq
    <2>2. SumFunction(Sizes(<<>>)) = 0
        BY <2>1, SumOfSizes
    <2>3. Load(client, <<>>) = 0
        BY <2>1, LoadIsNumber
    <2>4. dst \in Nat /\ src \in Nat
        BY <1>0, SumOfSizes
    <2> QED
        BY <2>1, <2>2, <2>3, <2>4
<1>7. Emits(i, m, c) = IF ~ Watches(i) THEN <<>> ELSE before \o reads \o after
    BY DEF Emits
<1>8. CallsOf(i, m, c) = IF ~ Watches(i) THEN <<>> ELSE reads \o before
    BY DEF CallsOf
<1>9. InstrBytes(client, i) = IF i.cti /\ client.name # "deadspy" THEN SumFunction(Sizes(<<>>))
                              ELSE IF client.name = "loadspy" THEN src ELSE dst
    BY DEF InstrBytes, OperandsJudged
<1>10. Load(client, reads \o before) = Load(client, reads) + Load(client, before)
       /\ Load(client, before \o reads) = Load(client, before) + Load(client, reads)
       /\ before \o reads \in Seq(Record)
    <2> HIDE DEF before, reads
    <2> QED
        BY <1>2, LoadOfBoth, ConcatProperties
<1>11. after \in Seq(Record) /\ Load(client, after) = IF i.cti THEN 0 ELSE Load(client, stored)
    <2> HIDE DEF stored
    <2> QED
        BY <1>2, <1>6
<1>12. Load(client, before \o reads \o after)
         = Load(client, before) + Load(client, reads) + Load(client, after)
    <2> HIDE DEF before, reads, after
    <2>1. Load(client, (before \o reads) \o after) = Load(client, before \o reads) + Load(client, after)
        BY <1>10, <1>11, LoadOfBoth
    <2> QED
        BY <1>10, <2>1
<1> HIDE DEF before, reads, stored, after, dst, src
<1> QED
    BY <1>1, <1>3, <1>4, <1>5, <1>6, <1>7, <1>8, <1>9, <1>10, <1>11, <1>12 DEF Watches, CountedKind

LEMMA BytesAddUp ==
    ASSUME NEW c \in Clients, NEW t \in Thread
    PROVE  /\ BytesUpTo(c, t, 0) = 0
           /\ \A n \in 1 .. Len(c.code[t]) :
                BytesUpTo(c, t, n) = BytesUpTo(c, t, n - 1) + InstrBytes(c, c.code[t][n])
<1> DEFINE N == Len(c.code[t])
           f == [k \in DOMAIN c.code[t] |-> InstrBytes(c, c.code[t][k])]
<1>1. c.code[t] \in Seq(Instruction)
    BY ClientsAssumption
<1>2. N \in Nat /\ DOMAIN c.code[t] = 1 .. N
    BY <1>1, LenProperties
<1>3. ASSUME NEW k \in 1 .. N PROVE f[k] \in Nat /\ f[k] = InstrBytes(c, c.code[t][k])
    <2>1. c.code[t][k] \in Instruction
        BY <1>1, <1>3, ElementOfSeq
    <2> DEFINE os == OperandsJudged(c, c.code[t][k])
    <2>2. os \in Seq(Operand)
        BY <2>1, EmptySeq DEF OperandsJudged, Instruction
    <2> HIDE DEF os
    <2>3. SumFunction(Sizes(os)) \in Nat
        BY <2>2, SumOfSizes
    <2>4. InstrBytes(c, c.code[t][k]) = SumFunction(Sizes(os))
        BY DEF InstrBytes, os
    <2> QED
        BY <1>2, <2>3, <2>4
<1>4. \A n : BytesUpTo(c, t, n) = SumFunctionOnSet(f, 1 .. n)
    BY DEF BytesUpTo
<1> HIDE DEF f, N
<1>5. \A k \in 1 .. N : f[k] \in Nat
    BY <1>3
<1>6. SumFunctionOnSet(f, 1 .. 0) = 0
    BY <1>2, <1>5, SumUpTo
<1>7. \A k \in 0 .. N - 1 :
        SumFunctionOnSet(f, 1 .. (k + 1)) = SumFunctionOnSet(f, 1 .. k) + f[k + 1]
    BY <1>2, <1>5, SumUpTo
<1>8. ASSUME NEW n \in 1 .. N
      PROVE  BytesUpTo(c, t, n) = BytesUpTo(c, t, n - 1) + InstrBytes(c, c.code[t][n])
    <2>1. PICK k \in 0 .. N - 1 : k = n - 1 /\ k + 1 = n
        BY <1>2
    <2>2. SumFunctionOnSet(f, 1 .. (k + 1)) = SumFunctionOnSet(f, 1 .. k) + f[k + 1]
        BY <1>7
    <2> QED
        BY <1>3, <1>4, <2>1, <2>2, Zenon
<1> QED
    BY <1>4, <1>6, <1>8 DEF N

(* What a thread does to its first record: it is taken, gone over, done     *)
(* with, or dropped at once.                                               *)
Moves(t) ==
    \/ /\ pass[t] = "none" /\ queue[t] # <<>>
       /\ pass'[t] # "none" /\ queue'[t] = queue[t]
       /\ bytes'[t] = bytes[t] + Weight(client, Head(queue[t]))
    \/ /\ pass[t] # "none" /\ pass'[t] # "none" /\ queue'[t] = queue[t]
       /\ bytes'[t] = bytes[t]
    \/ /\ pass[t] # "none" /\ pass'[t] = "none" /\ queue'[t] = Tail(queue[t])
       /\ bytes'[t] = bytes[t]
    \/ /\ pass[t] = "none" /\ queue[t] # <<>> /\ Weight(client, Head(queue[t])) = 0
       /\ pass'[t] = "none" /\ queue'[t] = Tail(queue[t])
       /\ bytes'[t] = bytes[t]

(* and that it leaves everything else alone. *)
Alone(t) ==
    /\ UNCHANGED <<client, life, ip, called, mem, buffer, totals>>
    /\ \A u \in Thread \ {t} : /\ queue'[u] = queue[u] /\ pass'[u] = pass[u]
                               /\ bytes'[u] = bytes[u] /\ found'[u] = found[u]

LEMMA TakeMoves ==
    ASSUME RecordsOK, TallyOK, NEW t \in Thread,
           \/ TakeDeadspyRead(t) \/ TakeDeadspyWrite(t) \/ TakeLoadspyRead(t)
           \/ TakeRedspyBefore(t) \/ TakeRedspyAfter(t)
    PROVE  Moves(t) /\ Alone(t)
<1> USE DEF RecordsOK, TallyOK, Taking, program, tally, Rec
<1>1. CASE TakeDeadspyRead(t)
    <2>0. bytes[t] \in Nat /\ bytes[t] + 0 = bytes[t]
        OBVIOUS
    <2>1. Weight(client, Head(queue[t])) = 0
        BY <1>1 DEF TakeDeadspyRead, Weight, CountedKind
    <2>2. pass'[t] # "none" /\ queue' = queue /\ bytes' = bytes /\ pass[t] = "none" /\ queue[t] # <<>>
        BY <1>1 DEF TakeDeadspyRead, Begin
    <2>3. Alone(t)
        BY <1>1 DEF TakeDeadspyRead, Begin, Alone
    <2> QED
        BY <2>0, <2>1, <2>2, <2>3 DEF Moves
<1>2. CASE TakeDeadspyWrite(t)
    <2>1. Weight(client, Head(queue[t])) = Head(queue[t]).size
        BY <1>2 DEF TakeDeadspyWrite, Weight, CountedKind
    <2>2. pass'[t] # "none" /\ queue' = queue /\ pass[t] = "none" /\ queue[t] # <<>>
          /\ bytes'[t] = bytes[t] + Head(queue[t]).size
        BY <1>2 DEF TakeDeadspyWrite, Begin, Count
    <2>3. Alone(t)
        BY <1>2 DEF TakeDeadspyWrite, Begin, Alone, Count
    <2> QED
        BY <2>1, <2>2, <2>3 DEF Moves
<1>3. CASE TakeLoadspyRead(t)
    <2>1. Weight(client, Head(queue[t])) = Head(queue[t]).size
        BY <1>3 DEF TakeLoadspyRead, Weight, CountedKind
    <2>2. pass'[t] # "none" /\ queue' = queue /\ pass[t] = "none" /\ queue[t] # <<>>
          /\ bytes'[t] = bytes[t] + Head(queue[t]).size
        BY <1>3 DEF TakeLoadspyRead, Begin, Count
    <2>3. Alone(t)
        BY <1>3 DEF TakeLoadspyRead, Begin, Alone, Count
    <2> QED
        BY <2>1, <2>2, <2>3 DEF Moves
<1>4. CASE TakeRedspyBefore(t)
    <2>1. Weight(client, Head(queue[t])) = 0
        BY <1>4 DEF TakeRedspyBefore, Weight, CountedKind
    <2>2. pass' = pass /\ queue'[t] = Tail(queue[t]) /\ pass[t] = "none" /\ queue[t] # <<>>
          /\ bytes' = bytes
        BY <1>4 DEF TakeRedspyBefore
    <2>3. Alone(t)
        BY <1>4 DEF TakeRedspyBefore, Alone
    <2> QED
        BY <2>1, <2>2, <2>3 DEF Moves
<1>5. CASE TakeRedspyAfter(t)
    <2>1. Weight(client, Head(queue[t])) = Head(queue[t]).size
        BY <1>5 DEF TakeRedspyAfter, Weight, CountedKind
    <2>2. PICK p \in {"report", "stamp", "end"} : Begin(t, p)
        BY <1>5 DEF TakeRedspyAfter
    <2>3. pass'[t] # "none" /\ queue' = queue /\ pass[t] = "none" /\ queue[t] # <<>>
          /\ bytes'[t] = bytes[t] + Head(queue[t]).size
        BY <1>5, <2>2 DEF TakeRedspyAfter, Begin, Count
    <2>4. Alone(t)
        BY <1>5, <2>2 DEF TakeRedspyAfter, Begin, Alone, Count
    <2> QED
        BY <2>1, <2>3, <2>4 DEF Moves
<1> QED
    BY <1>1, <1>2, <1>3, <1>4, <1>5

LEMMA NextByteMoves ==
    ASSUME RecordsOK, TallyOK, NEW t \in Thread, pass[t] # "none", bytes' = bytes,
           NEW p, p # "none", NEW e, NextByte(t, p, e)
    PROVE  /\ Moves(t)
           /\ \A u \in Thread \ {t} : queue'[u] = queue[u] /\ pass'[u] = pass[u]
<1> DEFINE q == IF nth[t] + 1 < Rec(t).size THEN p ELSE e
<1>1. /\ pass' = [pass EXCEPT ![t] = q]
      /\ queue' = IF q = "none" THEN [queue EXCEPT ![t] = Tail(queue[t])] ELSE queue
    BY DEF NextByte, RecordsOK
<1> HIDE DEF q
<1> QED
    BY <1>1 DEF Moves, RecordsOK

LEMMA ByteMoves ==
    ASSUME RecordsOK, TallyOK, NEW t \in Thread,
           \/ StartLookup(t) \/ MarkRead(t) \/ SkipRead(t) \/ TestMark(t)
           \/ SetMark(t) \/ Compare(t) \/ Copy(t) \/ Report(t) \/ Stamp(t) \/ EndAfter(t)
    PROVE  Moves(t) /\ Alone(t)
<1>1. UNCHANGED <<client, life, ip, called, mem, buffer, totals, bytes>> /\ pass[t] # "none"
    BY DEF StartLookup, MarkRead, SkipRead, TestMark, SetMark, Compare, Copy, Report,
        Stamp, EndAfter, program, tally, At
<1>2. \A u \in Thread \ {t} : found'[u] = found[u]
    <2>1. CASE Report(t)
        BY <2>1 DEF Report, TallyOK
    <2>2. CASE found' = found
        BY <2>2
    <2> QED
        BY <2>1, <2>2 DEF StartLookup, MarkRead, SkipRead, TestMark, SetMark, Compare, Copy,
            Stamp, EndAfter, tally
<1> SUFFICES Moves(t) /\ \A u \in Thread \ {t} : queue'[u] = queue[u] /\ pass'[u] = pass[u]
    BY <1>1, <1>2 DEF Alone
<1>3. CASE MarkRead(t) \/ SkipRead(t)
    <2>1. NextByte(t, "read mark", "none")
        BY <1>3 DEF MarkRead, SkipRead
    <2> QED
        BY <1>1, <2>1, NextByteMoves
<1>4. CASE Copy(t)
    <2>1. PICK e \in {"report", "stamp"} : NextByte(t, "copy", e)
        BY <1>4 DEF Copy
    <2> QED
        BY <1>1, <2>1, NextByteMoves
<1>5. CASE Stamp(t)
    <2>1. Again(t) # "none"
        BY DEF Again
    <2>2. PICK e \in {"end", "none"} : NextByte(t, Again(t), e)
        BY <1>5 DEF Stamp
    <2> QED
        BY <1>1, <2>1, <2>2, NextByteMoves
<1>6. CASE StartLookup(t)
    <2>1. queue' = queue /\ pass' = pass
        BY <1>6 DEF StartLookup
    <2> QED
        BY <1>1, <2>1 DEF Moves
<1>7. CASE TestMark(t) \/ SetMark(t) \/ Report(t)
    <2>1. \E p \in {"report", "set mark", "stamp"} : Turn(t, p)
        BY <1>7 DEF TestMark, SetMark, Report
    <2> QED
        BY <1>1, <2>1 DEF Turn, Moves, RecordsOK
<1>8. CASE Compare(t)
    <2>1. /\ queue' = queue
          /\ \E p \in {"compare", "copy"} : pass' = [pass EXCEPT ![t] = p]
        BY <1>8 DEF Compare
    <2> QED
        BY <1>1, <2>1 DEF Moves, RecordsOK
<1>9. CASE EndAfter(t)
    <2>1. queue' = [queue EXCEPT ![t] = Tail(queue[t])] /\ pass' = [pass EXCEPT ![t] = "none"]
        BY <1>9 DEF EndAfter
    <2> QED
        BY <1>1, <2>1 DEF Moves, RecordsOK
<1> QED
    BY <1>3, <1>4, <1>5, <1>6, <1>7, <1>8, <1>9

(* A look-up goes on while its thread is in a pass or out of one. *)
LEMMA AdvanceMoves ==
    ASSUME NEW t \in Thread, Advance(t)
    PROVE  Alone(t) /\ UNCHANGED <<queue, pass, bytes, found>>
BY DEF Advance, Alone, program, applying, tally

(* Where a thread is in its program, and what of it has left a trace. *)
Placed(t) ==
    /\ ip[t] \in 1 .. Len(Code(t)) + 1
    /\ called[t] => client.naive /\ ip[t] <= Len(Code(t))
    /\ client.naive => buffer[t] = <<>>
    /\ life[t] = "new" => /\ ip[t] = 1 /\ ~ called[t]
                          /\ queue[t] = <<>> /\ buffer[t] = <<>>
    /\ life[t] \in {"exiting", "counted", "gone"} =>
         ip[t] = Len(Code(t)) + 1 /\ buffer[t] = <<>>
    /\ life[t] \in {"counted", "gone"} => queue[t] = <<>>

Left(t) == IF pass[t] = "none" THEN queue[t] ELSE Tail(queue[t])
Done(t) == IF called[t] THEN ip[t] ELSE ip[t] - 1

(* What is counted, is to be counted and is not yet delivered is what the   *)
(* program has accessed.                                                   *)
Balanced(t) ==
    bytes[t] + Load(client, Left(t)) + Load(client, buffer[t]) = BytesUpTo(client, t, Done(t))

(* What a thread has added to the totals. *)
BytesGiven(t) == IF life[t] \in {"counted", "gone"} THEN bytes[t] ELSE 0
FoundGiven(t) == IF life[t] = "gone" THEN SumFunction(found[t]) ELSE 0

Added ==
    /\ totals.bytes = SumFunction([t \in Thread |-> BytesGiven(t)])
    /\ totals.found = SumFunction([t \in Thread |-> FoundGiven(t)])

CountsOK == (\A t \in Thread : Placed(t) /\ Balanced(t)) /\ Added

(* With a period of one every record of a full buffer is used. *)
LEMMA SampledIsAll ==
    ASSUME Period = 1, NEW rs \in Seq(Record)
    PROVE  Sampled(rs) = rs
<1> DEFINE L == Len(rs)
<1>1. L \in Nat /\ rs \in [1 .. L -> Record]
    BY LenProperties
<1> HIDE DEF L
<1>2. (L + Period - 1) \div Period = L
    BY <1>1
<1>3. Sampled(rs) = [n \in 1 .. L |-> rs[(n - 1) * Period + 1]]
    <2>1. Sampled(rs) = [n \in 1 .. ((Len(rs) + Period - 1) \div Period) |-> rs[(n - 1) * Period + 1]]
        BY DEF Sampled
    <2> QED
        BY <1>2, <2>1 DEF L
<1>4. \A n \in 1 .. L : (n - 1) * Period + 1 = n
    BY <1>1
<1> QED
    BY <1>1, <1>3, <1>4

(* The facts about a thread that the sums need. *)
LEMMA Numbered ==
    ASSUME RecordsOK, TallyOK, NEW t \in Thread
    PROVE  /\ bytes[t] \in Nat /\ Load(client, buffer[t]) \in Nat /\ Load(client, queue[t]) \in Nat
           /\ Load(client, <<>>) = 0
           /\ queue[t] # <<>> => /\ Load(client, Tail(queue[t])) \in Nat
                                 /\ Load(client, queue[t]) = Weight(client, Head(queue[t]))
                                                              + Load(client, Tail(queue[t]))
                                 /\ Weight(client, Head(queue[t])) \in Nat
<1>1. buffer[t] \in Seq(Record) /\ queue[t] \in Seq(Record) /\ bytes[t] \in Nat
    BY DEF RecordsOK, TallyOK
<1>2. /\ Load(client, buffer[t]) \in Nat /\ Load(client, queue[t]) \in Nat
      /\ Load(client, <<>>) = 0
    BY <1>1, LoadIsNumber
<1>3. ASSUME queue[t] # <<>>
      PROVE  /\ Load(client, Tail(queue[t])) \in Nat
             /\ Load(client, queue[t]) = Weight(client, Head(queue[t])) + Load(client, Tail(queue[t]))
             /\ Weight(client, Head(queue[t])) \in Nat
    <2>1. Tail(queue[t]) \in Seq(Record) /\ Rec(t).size \in Nat /\ Rec(t) = Head(queue[t])
        BY <1>3, RecOfQueue DEF Rec
    <2>2. Weight(client, Head(queue[t])) \in Nat
        BY <2>1 DEF Weight
    <2> QED
        BY <1>1, <1>3, <2>1, <2>2, LoadIsNumber, LoadOfFirst
<1> QED
    BY <1>1, <1>2, <1>3

LEMMA CountsInit == Init => CountsOK
<1> SUFFICES ASSUME Init PROVE CountsOK
    OBVIOUS
<1>1. client \in Clients /\ RecordsOK /\ TallyOK
    BY RecordsInit, TallyInit DEF Init
<1>2. ASSUME NEW t \in Thread PROVE Placed(t) /\ Balanced(t)
    <2>1. /\ ip[t] = 1 /\ ~ called[t] /\ life[t] = "new" /\ queue[t] = <<>> /\ buffer[t] = <<>>
          /\ pass[t] = "none" /\ bytes[t] = 0
        BY DEF Init
    <2>2. Code(t) \in Seq(Instruction)
        BY <1>1, ClientsAssumption DEF Code
    <2>3. Len(Code(t)) \in Nat
        BY <2>2, LenProperties
    <2>4. Placed(t)
        BY <2>1, <2>3 DEF Placed
    <2>5. BytesUpTo(client, t, 0) = 0 /\ Load(client, <<>>) = 0
        BY <1>1, BytesAddUp, Numbered
    <2>6. Left(t) = <<>> /\ Done(t) = 0
        BY <2>1 DEF Left, Done
    <2> QED
        BY <2>1, <2>4, <2>5, <2>6 DEF Balanced
<1>3. Added
    <2>1. [t \in Thread |-> BytesGiven(t)] \in [Thread -> {0}]
          /\ [t \in Thread |-> FoundGiven(t)] \in [Thread -> {0}]
        BY DEF Init, BytesGiven, FoundGiven
    <2>2. IsFiniteSet(Thread)
        BY ClientsAssumption
    <2>3. /\ SumFunction([t \in Thread |-> BytesGiven(t)]) = 0
          /\ SumFunction([t \in Thread |-> FoundGiven(t)]) = 0
        BY <2>1, <2>2, SumOfZeros
    <2> QED
        BY <2>3 DEF Added, Init
<1> QED
    BY <1>2, <1>3 DEF CountsOK

(* What a thread does not touch keeps its balance. *)
Untouched(u) ==
    /\ client' = client
    /\ life'[u] = life[u] /\ ip'[u] = ip[u] /\ called'[u] = called[u]
    /\ queue'[u] = queue[u] /\ buffer'[u] = buffer[u] /\ pass'[u] = pass[u]
    /\ bytes'[u] = bytes[u] /\ found'[u] = found[u]

LEMMA UntouchedKept ==
    ASSUME NEW u, Placed(u), Balanced(u), Untouched(u)
    PROVE  Placed(u)' /\ Balanced(u)' /\ BytesGiven(u)' = BytesGiven(u) /\ FoundGiven(u)' = FoundGiven(u)
<1>1. Code(u)' = Code(u) /\ Left(u)' = Left(u) /\ Done(u)' = Done(u)
    BY DEF Untouched, Code, Left, Done
<1>2. Placed(u)'
    BY <1>1 DEF Untouched, Placed
<1>3. Balanced(u)'
    BY <1>1, Zenon DEF Untouched, Balanced
<1>4. BytesGiven(u)' = BytesGiven(u) /\ FoundGiven(u)' = FoundGiven(u)
    BY DEF Untouched, BytesGiven, FoundGiven
<1> QED
    BY <1>2, <1>3, <1>4

(* One thread adds to the sums over all of them. *)
LEMMA SumsMove ==
    ASSUME NEW f \in [Thread -> Nat], NEW g \in [Thread -> Nat], NEW t \in Thread,
           \A u \in Thread \ {t} : g[u] = f[u]
    PROVE  SumFunction(g) + f[t] = SumFunction(f) + g[t] /\ SumFunction(f) \in Nat /\ SumFunction(g) \in Nat
<1>1. IsFiniteSet(Thread)
    BY ClientsAssumption
<1>2. SumFunction(g) + f[t] = SumFunction(f) + g[t]
    BY <1>1, SumUpdated
<1>3. SumFunction(f) \in Nat /\ SumFunction(g) \in Nat
    BY <1>1, SumIsNumber
<1> QED
    BY <1>2, <1>3

LEMMA GivenTyped ==
    ASSUME TallyOK
    PROVE  /\ [t \in Thread |-> BytesGiven(t)] \in [Thread -> Nat]
           /\ [t \in Thread |-> FoundGiven(t)] \in [Thread -> Nat]
BY SumOfBag DEF TallyOK, BytesGiven, FoundGiven

(* A step that is that of one thread and does not add to the totals. *)
LEMMA NothingAdded ==
    ASSUME Added, totals' = totals,
           \A u \in Thread : BytesGiven(u)' = BytesGiven(u) /\ FoundGiven(u)' = FoundGiven(u)
    PROVE  Added'
<1>1. [t \in Thread |-> BytesGiven(t)]' = [t \in Thread |-> BytesGiven(t)]
      /\ [t \in Thread |-> FoundGiven(t)]' = [t \in Thread |-> FoundGiven(t)]
    OBVIOUS
<1> QED
    BY <1>1 DEF Added

(* A step of one thread that leaves the totals alone keeps all counts if it *)
(* keeps those of its thread.                                              *)
LEMMA CountsOfOne ==
    ASSUME CountsOK, NEW t \in Thread, totals' = totals,
           \A u \in Thread \ {t} : Untouched(u),
           Placed(t)', Balanced(t)', BytesGiven(t)' = BytesGiven(t), FoundGiven(t)' = FoundGiven(t)
    PROVE  CountsOK'
<1>1. ASSUME NEW u \in Thread
      PROVE  /\ Placed(u)' /\ Balanced(u)'
             /\ BytesGiven(u)' = BytesGiven(u) /\ FoundGiven(u)' = FoundGiven(u)
    <2>1. CASE u = t
        BY <2>1
    <2>2. CASE u # t
        <3>1. Untouched(u) /\ Placed(u) /\ Balanced(u)
            BY <2>2 DEF CountsOK
        <3> QED
            BY <3>1, UntouchedKept
    <2> QED
        BY <2>1, <2>2
<1>2. Added'
    BY <1>1, NothingAdded DEF CountsOK
<1> QED
    BY <1>1, <1>2 DEF CountsOK

(* A thread that is gone, or has not begun, has nothing in its queue. *)
LEMMA ApplyingRuns ==
    ASSUME NEW t \in Thread, Placed(t), RecordsOK, queue[t] # <<>> \/ pass[t] # "none"
    PROVE  life[t] \notin {"new", "counted", "gone"} /\ queue[t] # <<>>
BY DEF Placed, RecordsOK, InRecord

LEMMA MovesCount ==
    ASSUME RecordsOK, TallyOK, CountsOK, NEW t \in Thread, Moves(t), Alone(t)
    PROVE  CountsOK'
<1>1. Placed(t) /\ Balanced(t)
    BY DEF CountsOK
<1>2. life[t] \notin {"new", "counted", "gone"} /\ queue[t] # <<>>
    BY <1>1, ApplyingRuns DEF Moves
<1>3. UNCHANGED <<client, life, ip, called, buffer, totals>>
    BY DEF Alone
<1>4. Placed(t)'
    BY <1>1, <1>2, <1>3 DEF Placed, Code
<1>5. Done(t)' = Done(t)
    BY <1>3 DEF Done
<1>6. Balanced(t)'
    <2> DEFINE rest == Load(client, Tail(queue[t]))
               all  == Load(client, queue[t])
               kept == Load(client, buffer[t])
               w    == Weight(client, Head(queue[t]))
    <2>1. bytes[t] \in Nat /\ kept \in Nat /\ rest \in Nat /\ w \in Nat /\ all = w + rest
        BY <1>2, Numbered
    <2>2. Load(client, Left(t)) = IF pass[t] = "none" THEN all ELSE rest
        BY DEF Left
    <2>3. Load(client, Left(t))' = IF pass'[t] = "none" THEN Load(client, queue'[t])
                                   ELSE Load(client, Tail(queue'[t]))
        BY <1>3 DEF Left
    <2>4. bytes[t] + Load(client, Left(t)) + kept = BytesUpTo(client, t, Done(t))
        BY <1>1 DEF Balanced
    <2>5. queue'[t] = queue[t] => Load(client, queue'[t]) = all /\ Load(client, Tail(queue'[t])) = rest
        BY Zenon
    <2>6. queue'[t] = Tail(queue[t]) => Load(client, queue'[t]) = rest
        BY Zenon
    <2> DEFINE now  == Load(client, Left(t))
               then == Load(client, Left(t))'
               qs   == Load(client, queue'[t])
               qt   == Load(client, Tail(queue'[t]))
    <2>7. bytes'[t] + then = bytes[t] + now
        <3>1. /\ \/ pass[t] = "none" /\ pass'[t] # "none" /\ queue'[t] = queue[t] /\ bytes'[t] = bytes[t] + w
                 \/ pass[t] # "none" /\ pass'[t] # "none" /\ queue'[t] = queue[t] /\ bytes'[t] = bytes[t]
                 \/ pass[t] # "none" /\ pass'[t] = "none" /\ queue'[t] = Tail(queue[t])
                      /\ bytes'[t] = bytes[t]
                 \/ pass[t] = "none" /\ w = 0 /\ pass'[t] = "none" /\ queue'[t] = Tail(queue[t])
                      /\ bytes'[t] = bytes[t]
            BY DEF Moves
        <3>2. now = IF pass[t] = "none" THEN all ELSE rest
            BY <2>2
        <3>3. then = IF pass'[t] = "none" THEN qs ELSE qt
            BY <2>3
        <3>4. /\ queue'[t] = queue[t] => qs = all /\ qt = rest
              /\ queue'[t] = Tail(queue[t]) => qs = rest
            BY <2>5, <2>6
        <3> HIDE DEF rest, all, kept, w, now, then, qs, qt
        <3> QED
            BY <2>1, <3>1, <3>2, <3>3, <3>4
    <2>8. Load(client, buffer[t])' = kept /\ BytesUpTo(client, t, Done(t))' = BytesUpTo(client, t, Done(t))
        BY <1>3, <1>5, Zenon
    <2>9. bytes'[t] + then + kept = bytes[t] + now + kept
        BY <2>7, Zenon
    <2> QED
        BY <2>4, <2>8, <2>9 DEF Balanced
<1>7. BytesGiven(t)' = BytesGiven(t) /\ FoundGiven(t)' = FoundGiven(t)
    BY <1>2, <1>3 DEF BytesGiven, FoundGiven
<1>8. \A u \in Thread \ {t} : Untouched(u)
    BY DEF Alone, Untouched
<1> QED
    BY <1>3, <1>4, <1>6, <1>7, <1>8, CountsOfOne

LEMMA ApplyCounts ==
    ASSUME RecordsOK, TallyOK, CountsOK, NEW t \in Thread, Apply(t)
    PROVE  CountsOK'
<1>1. CASE Advance(t)
    <2>1. Alone(t) /\ UNCHANGED <<queue, pass, bytes, found>>
        BY <1>1, AdvanceMoves
    <2>2. \A u \in Thread : Untouched(u)
        BY <2>1 DEF Alone, Untouched
    <2>3. Placed(t)' /\ Balanced(t)' /\ BytesGiven(t)' = BytesGiven(t) /\ FoundGiven(t)' = FoundGiven(t)
        BY <2>2, UntouchedKept DEF CountsOK
    <2> QED
        BY <2>1, <2>2, <2>3, CountsOfOne DEF Alone
<1>2. CASE ~ Advance(t)
    <2>1. Moves(t) /\ Alone(t)
        BY <1>2, TakeMoves, ByteMoves DEF Apply
    <2> QED
        BY <2>1, MovesCount
<1> QED
    BY <1>1, <1>2

(* The step to an instruction in a program. *)
LEMMA OneMore ==
    ASSUME RecordsOK, NEW t \in Thread, ip[t] \in DOMAIN Code(t)
    PROVE  /\ ip[t] \in 1 .. Len(Code(t)) /\ Len(Code(t)) \in Nat
           /\ BytesUpTo(client, t, ip[t]) = BytesUpTo(client, t, ip[t] - 1) + InstrBytes(client, Instr(t))
<1>1. client \in Clients /\ Code(t) = client.code[t]
    BY DEF RecordsOK, Code
<1>2. Code(t) \in Seq(Instruction)
    BY <1>1, ClientsAssumption
<1>3. ip[t] \in 1 .. Len(Code(t)) /\ Len(Code(t)) \in Nat
    BY <1>2, LenProperties
<1>4. Instr(t) = client.code[t][ip[t]]
    BY DEF Instr, Code
<1>5. \A n \in 1 .. Len(client.code[t]) :
         BytesUpTo(client, t, n) = BytesUpTo(client, t, n - 1) + InstrBytes(client, client.code[t][n])
    BY <1>1, BytesAddUp
<1>6. BytesUpTo(client, t, ip[t]) = BytesUpTo(client, t, ip[t] - 1) + InstrBytes(client, Instr(t))
    BY <1>1, <1>3, <1>4, <1>5
<1> QED
    BY <1>3, <1>4, <1>6

(* Records that are delivered, at the head of a block or at the end, are    *)
(* neither lost nor counted twice.                                         *)
LEMMA DeliveryCounts ==
    ASSUME Period = 1, RecordsOK, TallyOK, CountsOK, NEW t \in Thread, Deliver(t) \/ ThreadExit(t)
    PROVE  CountsOK'
<1>1. Placed(t) /\ Balanced(t) /\ buffer[t] \in Seq(Record) /\ bytes[t] \in Nat
    BY DEF CountsOK, RecordsOK, TallyOK
<1>2. Sampled(buffer[t]) = buffer[t]
    BY <1>1, SampledIsAll
<1>3. /\ queue'[t] = buffer[t] /\ buffer'[t] = <<>>
      /\ life[t] = "running" /\ life'[t] \in {"running", "exiting"}
      /\ queue[t] = <<>> /\ pass[t] = "none"
      /\ UNCHANGED <<client, ip, called, pass, bytes, found, totals>>
    BY <1>2 DEF Deliver, ThreadExit, Quiet, RecordsOK, TallyOK, tally, applying
<1>4. Placed(t)'
    <2>1. CASE Deliver(t)
        <3>1. life'[t] = "running"
            BY <1>3, <2>1 DEF Deliver
        <3> QED
            BY <1>1, <1>3, <3>1 DEF Placed, Code
    <2>2. CASE ThreadExit(t)
        <3>1. life'[t] = "exiting" /\ ip[t] \notin DOMAIN Code(t)
            BY <2>2 DEF ThreadExit, TallyOK
        <3>2. Code(t) \in Seq(Instruction)
            BY ClientsAssumption DEF Code, RecordsOK
        <3>3. Len(Code(t)) \in Nat /\ DOMAIN Code(t) = 1 .. Len(Code(t))
            BY <3>2, LenProperties
        <3>4. ip[t] = Len(Code(t)) + 1 /\ ~ called[t]
            BY <1>1, <3>1, <3>3 DEF Placed
        <3>5. Code(t)' = Code(t)
            BY <1>3 DEF Code
        <3> QED
            BY <1>1, <1>3, <3>1, <3>4, <3>5 DEF Placed
    <2> QED
        BY <2>1, <2>2
<1>5. Balanced(t)'
    <2> DEFINE kept == Load(client, buffer[t])
               none == Load(client, <<>>)
    <2>1. kept \in Nat /\ none = 0
        BY Numbered
    <2>2. Left(t) = <<>> /\ Left(t)' = buffer[t] /\ Done(t)' = Done(t)
        BY <1>3 DEF Left, Done
    <2>3. bytes[t] + none + kept = BytesUpTo(client, t, Done(t))
        BY <1>1, <2>2 DEF Balanced
    <2>4. Load(client, Left(t))' = kept /\ Load(client, buffer[t])' = none
          /\ BytesUpTo(client, t, Done(t))' = BytesUpTo(client, t, Done(t)) /\ bytes'[t] = bytes[t]
        BY <1>3, <2>2
    <2> HIDE DEF kept, none
    <2>5. bytes[t] + kept + none = BytesUpTo(client, t, Done(t))
        BY <1>1, <2>1, <2>3
    <2> QED
        BY <2>4, <2>5 DEF Balanced
<1>6. BytesGiven(t)' = BytesGiven(t) /\ FoundGiven(t)' = FoundGiven(t)
    BY <1>3 DEF BytesGiven, FoundGiven
<1>7. \A u \in Thread \ {t} : Untouched(u)
    BY DEF Deliver, ThreadExit, Untouched, RecordsOK, TallyOK, tally, applying
<1> QED
    BY <1>3, <1>4, <1>5, <1>6, <1>7, CountsOfOne

LEMMA StartCounts ==
    ASSUME RecordsOK, TallyOK, CountsOK, NEW t \in Thread, ThreadStart(t)
    PROVE  CountsOK'
<1>1. Placed(t) /\ Balanced(t) /\ client \in Clients
    BY DEF CountsOK, RecordsOK
<1>2. /\ life[t] = "new" /\ life'[t] = "running" /\ bytes'[t] = 0
      /\ UNCHANGED <<client, ip, called, queue, buffer, pass, totals>>
    BY DEF ThreadStart, TallyOK, applying
<1>3. ip[t] = 1 /\ ~ called[t] /\ queue[t] = <<>> /\ buffer[t] = <<>> /\ pass[t] = "none"
    <2>1. InRecord(t)
        BY DEF RecordsOK
    <2> QED
        BY <1>1, <1>2, <2>1 DEF Placed, InRecord
<1>4. Placed(t)'
    BY <1>1, <1>2, <1>3 DEF Placed, Code
<1>5. bytes[t] = 0
    <2>1. BytesUpTo(client, t, 0) = 0 /\ Load(client, <<>>) = 0 /\ bytes[t] \in Nat
        BY <1>1, BytesAddUp, Numbered
    <2>2. Left(t) = <<>> /\ Done(t) = 0
        BY <1>3 DEF Left, Done
    <2> QED
        BY <1>1, <1>3, <2>1, <2>2 DEF Balanced
<1>6. Balanced(t)'
    <2>1. Left(t)' = Left(t) /\ Done(t)' = Done(t) /\ bytes'[t] = bytes[t]
        BY <1>2, <1>5 DEF Left, Done
    <2> QED
        BY <1>1, <1>2, <2>1 DEF Balanced
<1>7. BytesGiven(t)' = BytesGiven(t) /\ FoundGiven(t)' = FoundGiven(t)
    BY <1>2 DEF BytesGiven, FoundGiven
<1>8. \A u \in Thread \ {t} : Untouched(u)
    BY DEF ThreadStart, Untouched, TallyOK, applying
<1> QED
    BY <1>2, <1>4, <1>6, <1>7, <1>8, CountsOfOne

(* A naive client is called for an instruction before it runs. *)
LEMMA CallCounts ==
    ASSUME RecordsOK, TallyOK, CountsOK, NEW t \in Thread, Call(t)
    PROVE  CountsOK'
<1> DEFINE q == CallsOf(Instr(t), mem, <<t, ip[t]>>)
<1>1. Placed(t) /\ Balanced(t) /\ client \in Clients /\ mem \in [Addr -> Value] /\ bytes[t] \in Nat
    BY DEF CountsOK, RecordsOK, TallyOK
<1>2. /\ client.naive /\ life[t] = "running" /\ ip[t] \in DOMAIN Code(t)
      /\ ~ called[t] /\ called'[t] /\ queue[t] = <<>> /\ queue'[t] = q /\ pass[t] = "none"
      /\ UNCHANGED <<client, life, ip, buffer, pass, bytes, found, totals>>
    BY DEF Call, RecordsOK, TallyOK, Quiet, tally
<1>3. ip[t] \in 1 .. Len(Code(t)) /\ Len(Code(t)) \in Nat
    BY <1>2, OneMore
<1>4. Placed(t)'
    BY <1>1, <1>2, <1>3 DEF Placed, Code
<1>5. Load(client, q) = InstrBytes(client, Instr(t))
    <2>1. Instr(t) \in Instruction /\ <<t, ip[t]>> \in Contexts
        BY <1>2, InstrAt
    <2> QED
        BY <1>1, <1>2, <2>1, LoadOfEmits
<1>6. Balanced(t)'
    <2> DEFINE kept == Load(client, buffer[t])
               none == Load(client, <<>>)
               one  == InstrBytes(client, Instr(t))
    <2>1. kept \in Nat /\ none = 0
        BY Numbered
    <2>2. Left(t) = <<>> /\ Left(t)' = q /\ Done(t) = ip[t] - 1 /\ Done(t)' = ip[t]
        BY <1>2 DEF Left, Done
    <2>3. bytes[t] + none + kept = BytesUpTo(client, t, ip[t] - 1)
        BY <1>1, <2>2 DEF Balanced
    <2>4. BytesUpTo(client, t, ip[t]) = BytesUpTo(client, t, ip[t] - 1) + one
        BY <1>2, OneMore
    <2>5. Load(client, Left(t))' = one /\ Load(client, buffer[t])' = kept
          /\ BytesUpTo(client, t, Done(t))' = BytesUpTo(client, t, ip[t]) /\ bytes'[t] = bytes[t]
        BY <1>2, <1>5, <2>2
    <2>6. one \in Nat
        <3>1. q \in Seq(Record)
            BY <1>2, InstrAt
        <3> HIDE DEF q
        <3>2. Load(client, q) \in Nat
            BY <3>1, LoadIsNumber
        <3> QED
            BY <1>5, <3>2 DEF q
    <2> HIDE DEF kept, none, one
    <2>7. bytes[t] + one + kept = BytesUpTo(client, t, ip[t])
        BY <1>1, <2>1, <2>3, <2>4, <2>6
    <2> QED
        BY <2>5, <2>7 DEF Balanced
<1>7. BytesGiven(t)' = BytesGiven(t) /\ FoundGiven(t)' = FoundGiven(t)
    BY <1>2 DEF BytesGiven, FoundGiven
<1>8. \A u \in Thread \ {t} : Untouched(u)
    BY DEF Call, Untouched, RecordsOK, TallyOK, tally
<1> QED
    BY <1>2, <1>4, <1>6, <1>7, <1>8, CountsOfOne

LEMMA ExecuteCounts ==
    ASSUME RecordsOK, TallyOK, CountsOK, NEW t \in Thread, Execute(t)
    PROVE  CountsOK'
<1> DEFINE e == Emits(Instr(t), mem, <<t, ip[t]>>)
<1>1. Placed(t) /\ Balanced(t) /\ client \in Clients /\ mem \in [Addr -> Value] /\ bytes[t] \in Nat
      /\ buffer[t] \in Seq(Record)
    BY DEF CountsOK, RecordsOK, TallyOK
<1>2. /\ life[t] = "running" /\ ip[t] \in DOMAIN Code(t)
      /\ client.naive => called[t]
      /\ ~ called'[t] /\ queue[t] = <<>> /\ pass[t] = "none"
      /\ buffer'[t] = IF client.naive THEN buffer[t] ELSE buffer[t] \o e
      /\ ip'[t] = ip[t] + 1
      /\ UNCHANGED <<client, life, queue, pass, bytes, found, totals>>
    BY DEF Execute, RecordsOK, TallyOK, Quiet, tally, applying
<1>3. ip[t] \in 1 .. Len(Code(t)) /\ Len(Code(t)) \in Nat
    BY <1>2, OneMore
<1> HIDE DEF e
<1>4. Placed(t)'
    <2>1. ip'[t] \in 1 .. Len(Code(t)) + 1
        BY <1>2, <1>3
    <2>2. Code(t)' = Code(t)
        BY <1>2 DEF Code
    <2>3. client.naive => buffer'[t] = <<>>
        BY <1>1, <1>2 DEF Placed
    <2> QED
        BY <1>2, <2>1, <2>2, <2>3 DEF Placed
<1>5. Load(client, e) = InstrBytes(client, Instr(t)) /\ e \in Seq(Record)
    <2>1. Instr(t) \in Instruction /\ <<t, ip[t]>> \in Contexts /\ e \in Seq(Record)
        BY <1>2, InstrAt DEF e
    <2> QED
        BY <1>1, <2>1, LoadOfEmits DEF e
<1>6. Balanced(t)'
    <2> DEFINE kept == Load(client, buffer[t])
               one  == InstrBytes(client, Instr(t))
    <2>1. kept \in Nat /\ one \in Nat
        <3>1. Load(client, e) \in Nat
            BY <1>5, LoadIsNumber
        <3> QED
            BY <1>5, <3>1, Numbered
    <2>2. Left(t) = <<>> /\ Left(t)' = <<>> /\ Done(t)' = ip[t]
          /\ Done(t) = IF client.naive THEN ip[t] ELSE ip[t] - 1
        <3>1. client.naive <=> called[t]
            BY <1>1, <1>2 DEF Placed
        <3>2. Left(t) = <<>> /\ Left(t)' = <<>>
            BY <1>2 DEF Left
        <3>3. Done(t)' = ip[t]
            BY <1>2, <1>3 DEF Done
        <3> QED
            BY <3>1, <3>2, <3>3 DEF Done
    <2>3. BytesUpTo(client, t, ip[t]) = BytesUpTo(client, t, ip[t] - 1) + one
        BY <1>2, OneMore
    <2>4. Load(client, Left(t))' = Load(client, Left(t)) /\ bytes'[t] = bytes[t]
          /\ BytesUpTo(client, t, Done(t))' = BytesUpTo(client, t, ip[t])
        BY <1>2, <2>2
    <2> DEFINE none == Load(client, Left(t))
    <2>5. none = 0
        BY <2>2, Numbered
    <2>6. bytes[t] + none + kept = BytesUpTo(client, t, IF client.naive THEN ip[t] ELSE ip[t] - 1)
        BY <1>1, <2>2 DEF Balanced
    <2>7. Load(client, buffer[t])' = IF client.naive THEN kept ELSE kept + one
        <3>1. Load(client, buffer[t] \o e) = kept + one
            BY <1>1, <1>5, LoadOfBoth
        <3>2. Load(client, buffer[t])' = Load(client, buffer'[t])
            BY <1>2
        <3>3. buffer'[t] = IF client.naive THEN buffer[t] ELSE buffer[t] \o e
            BY <1>2
        <3> HIDE DEF kept, one
        <3>4. Load(client, buffer'[t]) = IF client.naive THEN Load(client, buffer[t])
                                         ELSE Load(client, buffer[t] \o e)
            BY <3>3, Zenon
        <3> QED
            BY <3>1, <3>2, <3>4 DEF kept
    <2> DEFINE now == Load(client, buffer[t])'
    <2>8. bytes'[t] + Load(client, Left(t))' + now = BytesUpTo(client, t, Done(t))'
        <3> HIDE DEF kept, one, none, now
        <3>1. CASE client.naive
            <4>1. now = kept
                BY <2>7, <3>1 DEF now
            <4>2. bytes[t] + none + kept = BytesUpTo(client, t, ip[t])
                BY <2>6, <3>1
            <4> QED
                BY <2>4, <4>1, <4>2 DEF none
        <3>2. CASE ~ client.naive
            <4>1. now = kept + one
                BY <2>7, <3>2 DEF now
            <4>2. bytes[t] + none + kept = BytesUpTo(client, t, ip[t] - 1)
                BY <2>6, <3>2
            <4>3. bytes[t] + none + now = BytesUpTo(client, t, ip[t])
                BY <1>1, <2>1, <2>3, <2>5, <4>1, <4>2
            <4> QED
                BY <2>4, <4>3 DEF none
        <3> QED
            BY <3>1, <3>2
    <2> QED
        BY <2>8 DEF Balanced
<1>7. BytesGiven(t)' = BytesGiven(t) /\ FoundGiven(t)' = FoundGiven(t)
    BY <1>2 DEF BytesGiven, FoundGiven
<1>8. \A u \in Thread \ {t} : Untouched(u)
    BY DEF Execute, Untouched, RecordsOK, TallyOK, tally, applying
<1> QED
    BY <1>2, <1>4, <1>6, <1>7, <1>8, CountsOfOne

(* The two steps in which a thread that is through adds what it has.       *)
LEMMA ExitCounts ==
    ASSUME RecordsOK, TallyOK, CountsOK, NEW t \in Thread, AddBytes(t) \/ AddFound(t)
    PROVE  CountsOK'
<1>1. Placed(t) /\ Balanced(t) /\ FiniteBag(found[t]) /\ bytes[t] \in Nat
      /\ totals \in [bytes : Nat, found : Nat]
    BY DEF CountsOK, TallyOK
<1>2. UNCHANGED <<client, ip, called, buffer, queue, pass, bytes, found>>
    BY DEF AddBytes, AddFound, applying, tally
<1>3. \A u \in Thread \ {t} : Untouched(u)
    BY <1>2 DEF AddBytes, AddFound, Untouched, TallyOK
<1>4. Balanced(t)'
    <2>1. Left(t)' = Left(t) /\ Done(t)' = Done(t)
        BY <1>2 DEF Left, Done
    <2> QED
        BY <1>1, <1>2, <2>1 DEF Balanced
<1>5. Placed(t)'
    <2>1. Code(t)' = Code(t)
        BY <1>2 DEF Code
    <2>2. CASE AddBytes(t)
        <3>1. life[t] = "exiting" /\ life'[t] = "counted" /\ queue[t] = <<>>
            BY <2>2 DEF AddBytes, Quiet, TallyOK
        <3> QED
            BY <1>1, <1>2, <2>1, <3>1 DEF Placed
    <2>3. CASE AddFound(t)
        <3>1. life[t] = "counted" /\ life'[t] = "gone"
            BY <2>3 DEF AddFound, TallyOK
        <3> QED
            BY <1>1, <1>2, <2>1, <3>1 DEF Placed
    <2> QED
        BY <2>2, <2>3
<1>6. ASSUME NEW u \in Thread PROVE Placed(u)' /\ Balanced(u)'
    <2>1. CASE u # t
        BY <1>3, <2>1, UntouchedKept DEF CountsOK
    <2> QED
        BY <1>4, <1>5, <2>1
<1> DEFINE b  == [u \in Thread |-> BytesGiven(u)]
           b1 == [u \in Thread |-> BytesGiven(u)']
           d  == [u \in Thread |-> FoundGiven(u)]
           d1 == [u \in Thread |-> FoundGiven(u)']
<1>7. b \in [Thread -> Nat] /\ d \in [Thread -> Nat]
    BY GivenTyped
<1>8. ASSUME NEW u \in Thread \ {t} PROVE b1[u] = b[u] /\ d1[u] = d[u]
    <2>1. Placed(u) /\ Balanced(u)
        BY DEF CountsOK
    <2> QED
        BY <1>3, <2>1, UntouchedKept
<1>9. b1 \in [Thread -> Nat] /\ d1 \in [Thread -> Nat]
    <2>1. BytesGiven(t)' \in Nat /\ FoundGiven(t)' \in Nat
        BY <1>1, <1>2, SumOfBag DEF BytesGiven, FoundGiven
    <2> QED
        BY <1>7, <1>8, <2>1
<1>10. totals.bytes = SumFunction(b) /\ totals.found = SumFunction(d)
    BY DEF CountsOK, Added
<1>11. totals'.bytes = SumFunction(b1) /\ totals'.found = SumFunction(d1)
    <2>1. CASE AddBytes(t)
        <3>1. b[t] = 0 /\ b1[t] = bytes[t] /\ d[t] = 0 /\ d1[t] = 0
            BY <1>2, <2>1 DEF AddBytes, BytesGiven, FoundGiven, TallyOK
        <3>2. totals'.bytes = totals.bytes + bytes[t] /\ totals'.found = totals.found
            BY <1>1, <2>1 DEF AddBytes
        <3> HIDE DEF b, b1, d, d1
        <3>3. SumFunction(b1) + b[t] = SumFunction(b) + b1[t]
              /\ SumFunction(b) \in Nat /\ SumFunction(b1) \in Nat
            BY <1>7, <1>8, <1>9, SumsMove
        <3>4. SumFunction(d1) + d[t] = SumFunction(d) + d1[t]
              /\ SumFunction(d) \in Nat /\ SumFunction(d1) \in Nat
            BY <1>7, <1>8, <1>9, SumsMove
        <3> QED
            BY <1>1, <1>10, <3>1, <3>2, <3>3, <3>4
    <2>2. CASE AddFound(t)
        <3>1. b[t] = bytes[t] /\ b1[t] = bytes[t] /\ d[t] = 0 /\ d1[t] = SumFunction(found[t])
            BY <1>2, <2>2 DEF AddFound, BytesGiven, FoundGiven, TallyOK
        <3>2. totals'.bytes = totals.bytes /\ totals'.found = totals.found + SumFunction(found[t])
            BY <1>1, <2>2 DEF AddFound
        <3> HIDE DEF b, b1, d, d1
        <3>3. SumFunction(b1) + b[t] = SumFunction(b) + b1[t]
              /\ SumFunction(b) \in Nat /\ SumFunction(b1) \in Nat
            BY <1>7, <1>8, <1>9, SumsMove
        <3>4. SumFunction(d1) + d[t] = SumFunction(d) + d1[t]
              /\ SumFunction(d) \in Nat /\ SumFunction(d1) \in Nat
            BY <1>7, <1>8, <1>9, SumsMove
        <3>5. SumFunction(found[t]) \in Nat
            BY <1>1, SumOfBag
        <3> QED
            BY <1>1, <1>10, <3>1, <3>2, <3>3, <3>4, <3>5
    <2> QED
        BY <2>1, <2>2
<1>12. Added'
    BY <1>11 DEF Added
<1> QED
    BY <1>6, <1>12 DEF CountsOK

LEMMA CountsKept ==
    ASSUME Period = 1, RecordsOK, TallyOK, CountsOK, [Next]_vars
    PROVE  CountsOK'
<1>1. CASE UNCHANGED vars \/ ProcessExit
    <2>1. UNCHANGED <<client, program, applying, tally, totals>>
        BY <1>1 DEF vars, ProcessExit
    <2>2. \A u \in Thread : Untouched(u)
        BY <2>1 DEF Untouched, program, applying, tally
    <2>3. ASSUME NEW u \in Thread
          PROVE  /\ Placed(u)' /\ Balanced(u)'
                 /\ BytesGiven(u)' = BytesGiven(u) /\ FoundGiven(u)' = FoundGiven(u)
        BY <2>2, UntouchedKept DEF CountsOK
    <2>4. Added'
        BY <2>1, <2>3, NothingAdded DEF CountsOK
    <2> QED
        BY <2>3, <2>4 DEF CountsOK
<1>2. ASSUME NEW t \in Thread, ThreadStep(t) PROVE CountsOK'
    BY <1>2, ApplyCounts, StartCounts, DeliveryCounts, CallCounts, ExecuteCounts, ExitCounts
       DEF ThreadStep
<1> QED
    BY <1>1, <1>2 DEF Next

LEMMA BytesOfProgram ==
    ASSUME client \in Clients, NEW t \in Thread
    PROVE  BytesUpTo(client, t, Len(Code(t))) = JudgedBytes(t)
<1>1. Code(t) \in Seq(Instruction) /\ Code(t) = client.code[t]
    BY ClientsAssumption DEF Code
<1>2. DOMAIN Code(t) = Place(t)
    BY <1>1, LenProperties DEF Place
<1> DEFINE f == [i \in Place(t) |-> BytesJudged(t, i)]
<1>3. \A i \in Place(t) : BytesJudged(t, i) = InstrBytes(client, Code(t)[i])
    BY DEF BytesJudged, InstrBytes, Judged, OperandsJudged, Sizes
<1>4. f = [k \in DOMAIN client.code[t] |-> InstrBytes(client, client.code[t][k])]
    BY <1>1, <1>2, <1>3
<1>5. JudgedBytes(t) = SumFunctionOnSet(f, DOMAIN f)
    BY DEF JudgedBytes, SumFunction
<1>6. DOMAIN f = 1 .. Len(Code(t))
    BY DEF Place
<1> HIDE DEF f
<1>7. BytesUpTo(client, t, Len(Code(t))) = SumFunctionOnSet(f, 1 .. Len(Code(t)))
    BY <1>4, Zenon DEF BytesUpTo
<1> QED
    BY <1>5, <1>6, <1>7, Zenon

(* When every record is used (global_analysis_period is 1), nothing that    *)
(* is delivered in pieces, applied byte by byte and added up by threads as  *)
(* they exit is lost or counted twice: the process prints every byte that   *)
(* was accessed and every pair that was reported.                          *)
THEOREM TotalsAreExact ==
    ASSUME Period = 1
    PROVE  Spec => []TotalsExact
<1>1. ASSUME RecordsOK, TallyOK, CountsOK PROVE TotalsExact
    <2> SUFFICES ASSUME \A t \in Thread : life[t] = "gone"
                 PROVE  /\ totals.bytes = SumFunction([t \in Thread |-> JudgedBytes(t)])
                        /\ totals.found = SumFunction([t \in Thread |-> SumFunction(found[t])])
        BY DEF TotalsExact
    <2>1. ASSUME NEW t \in Thread PROVE BytesGiven(t) = JudgedBytes(t)
        <3>1. Placed(t) /\ Balanced(t) /\ bytes[t] \in Nat /\ client \in Clients
            BY <1>1 DEF CountsOK, TallyOK, RecordsOK
        <3>2. Code(t) \in Seq(Instruction)
            BY <3>1, ClientsAssumption DEF Code
        <3>3. Len(Code(t)) \in Nat
            BY <3>2, LenProperties
        <3>4. ip[t] = Len(Code(t)) + 1 /\ ~ called[t] /\ queue[t] = <<>> /\ buffer[t] = <<>>
            BY <3>1, <3>3 DEF Placed
        <3>5. pass[t] = "none"
            BY <1>1, <3>4 DEF RecordsOK, InRecord
        <3>6. Left(t) = <<>> /\ Done(t) = Len(Code(t))
            BY <3>3, <3>4, <3>5 DEF Left, Done
        <3>7. Load(client, <<>>) = 0
            BY <1>1, Numbered
        <3>8. bytes[t] = BytesUpTo(client, t, Len(Code(t)))
            BY <3>1, <3>4, <3>6, <3>7 DEF Balanced
        <3>9. BytesUpTo(client, t, Len(Code(t))) = JudgedBytes(t)
            BY <3>1, BytesOfProgram
        <3> QED
            BY <3>8, <3>9 DEF BytesGiven
    <2>2. [t \in Thread |-> BytesGiven(t)] = [t \in Thread |-> JudgedBytes(t)]
        BY <2>1, Zenon
    <2>3. [t \in Thread |-> FoundGiven(t)] = [t \in Thread |-> SumFunction(found[t])]
        BY DEF FoundGiven
    <2> QED
        BY <1>1, <2>2, <2>3, Zenon DEF CountsOK, Added
<1>2. Init => CountsOK
    BY CountsInit
<1>3. (IInv /\ RecordsOK /\ TallyOK) /\ CountsOK /\ [Next]_vars => CountsOK'
    BY CountsKept
<1> QED
    BY <1>1, <1>2, <1>3, ClientsTyped, PTL DEF Spec

-----------------------------------------------------------------------------
(* The slots of redspy.                                                    *)

(* How many slots are filled, and how many of them have been compared. *)
SlotState == {x \in (0 .. 255) \X (0 .. 255) : x[2] < x[1] \/ x = <<0, 0>>}

(* The kinds of redspy's records. *)
Before == "before write"
After  == "after write"

(* What a record of some kind does to them. *)
SlotMove(x, kind, y) ==
    \/ kind = Before /\ x[2] = 0 /\ x[1] < 255 /\ y = <<x[1] + 1, 0>>
    \/ kind = After /\ x[2] < x[1]
         /\ y = IF x[2] + 1 = x[1] THEN <<0, 0>> ELSE <<x[1], x[2] + 1>>

(* The records, applied one after the other, free all slots in the end. *)
SlotWalk(q, x) ==
    \E g \in [1 .. Len(q) + 1 -> SlotState] :
        /\ g[1] = x /\ g[Len(q) + 1] = <<0, 0>>
        /\ \A n \in 1 .. Len(q) : SlotMove(g[n], q[n].kind, g[n + 1])

LEMMA WalkStarts ==
    ASSUME NEW q \in Seq(Record), NEW x, SlotWalk(q, x)
    PROVE  x \in SlotState /\ (q = <<>> => x = <<0, 0>>)
<1>1. PICK g \in [1 .. Len(q) + 1 -> SlotState] : g[1] = x /\ g[Len(q) + 1] = <<0, 0>>
    BY DEF SlotWalk
<1>2. Len(q) \in Nat /\ (q = <<>> => Len(q) = 0)
    BY LenProperties
<1>3. 1 \in 1 .. Len(q) + 1 /\ (q = <<>> => Len(q) + 1 = 1)
    BY <1>2
<1>4. g[1] \in SlotState
    BY <1>3
<1> QED
    BY <1>1, <1>3, <1>4, Zenon

LEMMA WalkOfNothing == SlotWalk(<<>>, <<0, 0>>)
<1>1. <<0, 0>> \in SlotState
    BY DEF SlotState
<1> DEFINE g == [n \in 1 .. 1 |-> <<0, 0>>]
<1>2. Len(<<>>) = 0 /\ g \in [1 .. Len(<<>>) + 1 -> SlotState]
    BY <1>1
<1>3. g[1] = <<0, 0>> /\ g[Len(<<>>) + 1] = <<0, 0>>
    BY <1>2
<1>4. \A n \in 1 .. Len(<<>>) : SlotMove(g[n], <<>>[n].kind, g[n + 1])
    BY <1>2
<1> HIDE DEF g
<1> QED
    BY <1>2, <1>3, <1>4 DEF SlotWalk

LEMMA WalkGoesOn ==
    ASSUME NEW q \in Seq(Record), q # <<>>, NEW x, SlotWalk(q, x)
    PROVE  \E y \in SlotState : SlotMove(x, Head(q).kind, y) /\ SlotWalk(Tail(q), y)
<1> DEFINE L == Len(q)
<1>1. PICK g \in [1 .. L + 1 -> SlotState] :
            /\ g[1] = x /\ g[L + 1] = <<0, 0>>
            /\ \A n \in 1 .. L : SlotMove(g[n], q[n].kind, g[n + 1])
    BY DEF SlotWalk
<1>2. /\ L \in Nat /\ L >= 1 /\ Len(Tail(q)) = L - 1 /\ Head(q) = q[1]
      /\ \A n \in 1 .. L - 1 : Tail(q)[n] = q[n + 1]
    BY LenProperties, HeadTailProperties, EmptySeq
<1> HIDE DEF L
<1> DEFINE h == [n \in 1 .. L |-> g[n + 1]]
<1>3. h \in [1 .. Len(Tail(q)) + 1 -> SlotState]
    BY <1>1, <1>2
<1>4. h[1] = g[2] /\ h[Len(Tail(q)) + 1] = <<0, 0>>
    BY <1>1, <1>2
<1>5. ASSUME NEW n \in 1 .. Len(Tail(q)) PROVE SlotMove(h[n], Tail(q)[n].kind, h[n + 1])
    <2>1. n + 1 \in 1 .. L /\ n \in 1 .. L - 1 /\ n \in 1 .. L
        BY <1>2
    <2>2. SlotMove(g[n + 1], q[n + 1].kind, g[(n + 1) + 1])
        BY <1>1, <2>1
    <2>3. h[n] = g[n + 1] /\ h[n + 1] = g[(n + 1) + 1] /\ Tail(q)[n] = q[n + 1]
        BY <1>2, <2>1
    <2> QED
        BY <2>2, <2>3
<1> HIDE DEF h
<1>6. SlotWalk(Tail(q), g[2])
    BY <1>3, <1>4, <1>5 DEF SlotWalk
<1>7. SlotMove(x, Head(q).kind, g[2]) /\ g[2] \in SlotState
    <2>1. 1 \in 1 .. L /\ 1 + 1 = 2 /\ 2 \in 1 .. L + 1
        BY <1>2
    <2>2. SlotMove(g[1], q[1].kind, g[1 + 1])
        BY <1>1, <2>1
    <2> QED
        BY <1>1, <1>2, <2>1, <2>2
<1> QED
    BY <1>6, <1>7

LEMMA WalkOfBoth ==
    ASSUME NEW p \in Seq(Record), NEW q \in Seq(Record),
           SlotWalk(p, <<0, 0>>), SlotWalk(q, <<0, 0>>)
    PROVE  SlotWalk(p \o q, <<0, 0>>)
<1> DEFINE L == Len(p)
           M == Len(q)
           r == p \o q
<1>1. PICK g \in [1 .. L + 1 -> SlotState] :
            /\ g[1] = <<0, 0>> /\ g[L + 1] = <<0, 0>>
            /\ \A n \in 1 .. L : SlotMove(g[n], p[n].kind, g[n + 1])
    BY DEF SlotWalk
<1>2. PICK h \in [1 .. M + 1 -> SlotState] :
            /\ h[1] = <<0, 0>> /\ h[M + 1] = <<0, 0>>
            /\ \A n \in 1 .. M : SlotMove(h[n], q[n].kind, h[n + 1])
    BY DEF SlotWalk
<1>3. /\ L \in Nat /\ M \in Nat /\ Len(r) = L + M
      /\ \A n \in 1 .. L + M : r[n] = IF n <= L THEN p[n] ELSE q[n - L]
    BY LenProperties, ConcatProperties
<1> HIDE DEF L, M, r
<1> DEFINE w == [n \in 1 .. Len(r) + 1 |-> IF n <= L THEN g[n] ELSE h[n - L]]
<1>4. w \in [1 .. Len(r) + 1 -> SlotState]
    <2>1. \A n \in 1 .. Len(r) + 1 : n <= L => n \in 1 .. L + 1
        BY <1>3
    <2>2. \A n \in 1 .. Len(r) + 1 : ~ (n <= L) => n - L \in 1 .. M + 1
        BY <1>3
    <2> QED
        BY <1>1, <1>2, <2>1, <2>2
<1>5. w[1] = <<0, 0>> /\ w[Len(r) + 1] = <<0, 0>>
    <2>1. 1 \in 1 .. Len(r) + 1 /\ Len(r) + 1 \in 1 .. Len(r) + 1
        BY <1>3
    <2>2. w[1] = IF 1 <= L THEN g[1] ELSE h[1 - L]
        BY <2>1
    <2>3. w[Len(r) + 1] = h[(Len(r) + 1) - L] /\ (Len(r) + 1) - L = M + 1
        BY <1>3, <2>1
    <2>4. ~ (1 <= L) => 1 - L = 1
        BY <1>3
    <2> QED
        BY <1>1, <1>2, <2>2, <2>3, <2>4
<1>6. ASSUME NEW n \in 1 .. Len(r) PROVE SlotMove(w[n], r[n].kind, w[n + 1])
    <2>1. n \in 1 .. Len(r) + 1 /\ n + 1 \in 1 .. Len(r) + 1 /\ n \in 1 .. L + M
        BY <1>3
    <2>2. /\ w[n] = IF n <= L THEN g[n] ELSE h[n - L]
          /\ w[n + 1] = IF n + 1 <= L THEN g[n + 1] ELSE h[(n + 1) - L]
          /\ r[n] = IF n <= L THEN p[n] ELSE q[n - L]
        BY <1>3, <2>1
    <2>3. CASE n <= L
        <3>1. n \in 1 .. L
            BY <1>3, <2>3
        <3>2. SlotMove(g[n], p[n].kind, g[n + 1])
            BY <1>1, <3>1
        <3>3. w[n + 1] = g[n + 1]
            <4>1. CASE n + 1 <= L
                BY <2>2, <4>1
            <4>2. CASE n = L
                <5>1. (n + 1) - L = 1 /\ ~ (n + 1 <= L)
                    BY <1>3, <4>2
                <5> QED
                    BY <1>1, <1>2, <2>2, <4>2, <5>1
            <4> QED
                BY <1>3, <2>3, <4>1, <4>2
        <3> QED
            BY <2>2, <2>3, <3>2, <3>3
    <2>4. CASE ~ (n <= L)
        <3>1. n - L \in 1 .. M /\ (n + 1) - L = (n - L) + 1 /\ ~ (n + 1 <= L)
            BY <1>3, <2>1, <2>4
        <3> DEFINE k == n - L
        <3>2. SlotMove(h[k], q[k].kind, h[k + 1])
            BY <1>2, <3>1
        <3>3. w[n] = h[k] /\ w[n + 1] = h[k + 1] /\ r[n] = q[k]
            BY <2>2, <2>4, <3>1
        <3> HIDE DEF k
        <3> QED
            BY <3>2, <3>3
    <2> QED
        BY <2>3, <2>4
<1> HIDE DEF w
<1>7. SlotWalk(r, <<0, 0>>)
    BY <1>4, <1>5, <1>6 DEF SlotWalk
<1> QED
    BY <1>7 DEF r

(* Every instruction has fewer memory operands than a counter has values.   *)
FewWrites ==
    \A c \in Clients : c.name = "redspy" =>
        \A t \in Thread : \A n \in DOMAIN c.code[t] : Len(c.code[t][n].dst) <= 255

(* All records of a sequence are of one kind. *)
OfKind(q, kind) == \A n \in 1 .. Len(q) : q[n].kind = kind

LEMMA KindsOfRecords ==
    ASSUME client.name = "redspy", NEW os \in Seq(Operand), NEW m, NEW c
    PROVE  /\ RecordsOf(os, "read", m, c) = <<>>
           /\ \A k \in {Before, After} :
                /\ OfKind(RecordsOf(os, k, m, c), k)
                /\ Len(RecordsOf(os, k, m, c)) = Len(os)
<1>1. Traces = {Before, After} /\ "read" \notin Traces
    BY DEF Traces, Before, After
<1>2. RecordsOf(os, "read", m, c) = <<>>
    BY <1>1 DEF RecordsOf
<1>3. ASSUME NEW k \in {Before, After}
      PROVE  OfKind(RecordsOf(os, k, m, c), k) /\ Len(RecordsOf(os, k, m, c)) = Len(os)
    <2> DEFINE L == Len(os)
               Of(j) == [kind |-> k, addr |-> os[j].addr, size |-> os[j].size,
                         ctxt |-> c, val |-> Contents(m, os[j])]
               R == RecordsOf(os, k, m, c)
    <2>1. R = [j \in DOMAIN os |-> Of(j)]
        BY <1>1, <1>3 DEF RecordsOf
    <2>2. DOMAIN os = 1 .. L /\ L \in Nat
        BY LenProperties
    <2>3. \A j : Of(j).kind = k
        OBVIOUS
    <2> HIDE DEF Of, L, R
    <2>4. R = [j \in 1 .. L |-> Of(j)]
        BY <2>1, <2>2
    <2>5. Len(R) = L
        BY <2>2, <2>4
    <2>6. \A j \in 1 .. L : R[j].kind = k
        BY <2>3, <2>4
    <2> QED
        BY <2>5, <2>6 DEF OfKind, R, L
<1> QED
    BY <1>2, <1>3

(* The values before the writes of an instruction are put into slots, and   *)
(* the values after them find the slots in the same order.                 *)
LEMMA WalkOfWrites ==
    ASSUME NEW b \in Seq(Record), NEW a \in Seq(Record), NEW k \in 0 .. 255,
           Len(b) = k, Len(a) = k, OfKind(b, Before), OfKind(a, After)
    PROVE  SlotWalk(b \o a, <<0, 0>>)
<1> DEFINE r == b \o a
           At1(n) == IF n <= k + 1 /\ n < k + k + 1 THEN n - 1 ELSE IF n < k + k + 1 THEN k ELSE 0
           At2(n) == IF n <= k + 1 \/ ~ (n < k + k + 1) THEN 0 ELSE n - (k + 1)
           g == [n \in 1 .. k + k + 1 |-> <<At1(n), At2(n)>>]
           Kind(x) == x.kind
<1> HIDE DEF g, At1, At2
<1>1. /\ Len(r) = k + k
      /\ \A n \in 1 .. k + k : Kind(r[n]) = IF n <= k THEN Before ELSE After
    <2>1. Len(r) = k + k /\ \A n \in 1 .. k + k : r[n] = IF n <= k THEN b[n] ELSE a[n - k]
        BY ConcatProperties
    <2>2. \A n \in 1 .. k : Kind(b[n]) = Before /\ Kind(a[n]) = After
        BY DEF OfKind
    <2> HIDE DEF r, Kind
    <2>3. ASSUME NEW n \in 1 .. k + k
          PROVE  Kind(r[n]) = IF n <= k THEN Before ELSE After
        <3>1. CASE n <= k
            <4>1. n \in 1 .. k
                BY <3>1
            <4> QED
                BY <2>1, <2>2, <3>1, <4>1
        <3>2. CASE ~ (n <= k)
            <4>1. n - k \in 1 .. k
                BY <3>2
            <4> QED
                BY <2>1, <2>2, <3>2, <4>1
        <3> QED
            BY <3>1, <3>2
    <2> QED
        BY <2>1, <2>3
<1> HIDE DEF r, Kind
<1>2. ASSUME NEW n \in 1 .. k + k + 1
      PROVE  /\ At1(n) \in 0 .. 255 /\ At2(n) \in 0 .. 255
             /\ At2(n) < At1(n) \/ (At1(n) = 0 /\ At2(n) = 0)
    BY DEF At1, At2
<1>3. At1(1) = 0 /\ At2(1) = 0 /\ At1(k + k + 1) = 0 /\ At2(k + k + 1) = 0
    BY DEF At1, At2
<1>4. ASSUME NEW n \in 1 .. k + k
      PROVE  /\ n <= k => /\ At2(n) = 0 /\ At1(n) < 255
                          /\ At1(n + 1) = At1(n) + 1 /\ At2(n + 1) = 0
             /\ ~ (n <= k) => /\ At2(n) < At1(n)
                              /\ At1(n + 1) = IF At2(n) + 1 = At1(n) THEN 0 ELSE At1(n)
                              /\ At2(n + 1) = IF At2(n) + 1 = At1(n) THEN 0 ELSE At2(n) + 1
    BY DEF At1, At2
<1>5. g \in [1 .. k + k + 1 -> SlotState]
    <2>1. ASSUME NEW n \in 1 .. k + k + 1 PROVE <<At1(n), At2(n)>> \in SlotState
        BY <1>2 DEF SlotState
    <2> QED
        BY <2>1 DEF g
<1>6. g[1] = <<0, 0>> /\ g[k + k + 1] = <<0, 0>>
    BY <1>3 DEF g
<1>7. ASSUME NEW n \in 1 .. k + k PROVE SlotMove(g[n], Kind(r[n]), g[n + 1])
    <2>1. g[n] = <<At1(n), At2(n)>> /\ g[n + 1] = <<At1(n + 1), At2(n + 1)>>
        BY DEF g
    <2>2. CASE n <= k
        <3>1. Kind(r[n]) = Before
            BY <1>1, <2>2
        <3> QED
            BY <1>4, <2>1, <2>2, <3>1 DEF SlotMove
    <2>3. CASE ~ (n <= k)
        <3>1. Kind(r[n]) = After
            BY <1>1, <2>3
        <3> QED
            BY <1>4, <2>1, <2>3, <3>1 DEF SlotMove
    <2> QED
        BY <2>2, <2>3
<1>8. Len(r) + 1 = k + k + 1
    BY <1>1
<1>9. SlotWalk(r, <<0, 0>>)
    BY <1>1, <1>5, <1>6, <1>7, <1>8 DEF SlotWalk, Kind
<1> QED
    BY <1>9 DEF r

LEMMA WalkOfInstr ==
    ASSUME client \in Clients, client.name = "redspy", NEW i \in Instruction, Len(i.dst) <= 255,
           NEW m \in [Addr -> Value], NEW c \in Contexts
    PROVE  SlotWalk(Emits(i, m, c), <<0, 0>>)
<1>0. i.src \in Seq(Operand) /\ i.dst \in Seq(Operand) /\ Put(m, i) \in [Addr -> Value]
    BY EmitsSeq DEF Instruction
<1>1. CASE i.cti
    <2>1. Emits(i, m, c) = <<>>
        BY <1>1 DEF Emits, Watches
    <2> QED
        BY <2>1, WalkOfNothing
<1>2. CASE ~ i.cti
    <2> DEFINE b == RecordsOf(i.dst, Before, m, c)
               a == RecordsOf(i.dst, After, Put(m, i), c)
               k == Len(i.dst)
    <2>1. b \in Seq(Record) /\ a \in Seq(Record)
        BY <1>0, RecordsOfSeq DEF Before, After
    <2>2. k \in 0 .. 255
        <3>1. k \in Nat /\ k <= 255
            BY <1>0, LenProperties
        <3> HIDE DEF a, b, k
        <3> QED
            BY <3>1
    <2>3. /\ Len(b) = k /\ Len(a) = k
          /\ OfKind(b, Before) /\ OfKind(a, After)
        BY <1>0, KindsOfRecords
    <2>4. RecordsOf(i.src, "read", m, c) = <<>>
        BY <1>0, KindsOfRecords
    <2>5. Emits(i, m, c) = b \o <<>> \o a
        BY <1>2, <2>4 DEF Emits, Watches, Before, After
    <2> HIDE DEF a, b, k
    <2>6. b \o <<>> = b
        BY <2>1, ConcatEmptySeq
    <2>7. SlotWalk(b \o a, <<0, 0>>)
        BY <2>1, <2>2, <2>3, WalkOfWrites
    <2> QED
        BY <2>5, <2>6, <2>7
<1> QED
    BY <1>1, <1>2

(* Where a thread is among its slots, and what is done to a record. *)
SlotsAt(t) == <<slotNum[t], readIndex[t]>>

Paired(t) ==
    IF client.name = "redspy"
    THEN /\ pass[t] \in {"none", "report", "stamp", "end"}
         /\ pass[t] # "none" => Rec(t).kind = After
         /\ SlotWalk(queue[t], SlotsAt(t))
         /\ SlotWalk(buffer[t], <<0, 0>>)
    ELSE pass[t] # "end" /\ SlotsAt(t) = <<0, 0>>

AllPaired == \A t \in Thread : Paired(t)

(* What the pairing of a thread depends on. *)
SlotsAlone(u) ==
    /\ client' = client /\ pass'[u] = pass[u] /\ queue'[u] = queue[u] /\ buffer'[u] = buffer[u]
    /\ slotNum'[u] = slotNum[u] /\ readIndex'[u] = readIndex[u]

LEMMA SlotsAloneKept ==
    ASSUME NEW u, Paired(u), SlotsAlone(u)
    PROVE  Paired(u)'
<1>1. SlotsAt(u)' = SlotsAt(u) /\ Rec(u)' = Rec(u)
    BY DEF SlotsAlone, SlotsAt, Rec
<1> QED
    BY <1>1 DEF SlotsAlone, Paired

LEMMA PairedOfOne ==
    ASSUME AllPaired, NEW t \in Thread, \A u \in Thread \ {t} : SlotsAlone(u), Paired(t)'
    PROVE  AllPaired'
<1>1. ASSUME NEW u \in Thread PROVE Paired(u)'
    <2>1. CASE u # t
        <3>1. Paired(u) /\ SlotsAlone(u)
            BY <2>1 DEF AllPaired
        <3> QED
            BY <3>1, SlotsAloneKept
    <2> QED
        BY <2>1
<1> QED
    BY <1>1 DEF AllPaired

LEMMA PairedInit == Init => AllPaired
<1> SUFFICES ASSUME Init, NEW t \in Thread PROVE Paired(t)
    BY DEF AllPaired
<1>1. /\ pass[t] = "none" /\ queue[t] = <<>> /\ buffer[t] = <<>>
      /\ slotNum[t] = 0 /\ readIndex[t] = 0
    BY DEF Init
<1>2. SlotsAt(t) = <<0, 0>>
    BY <1>1 DEF SlotsAt
<1> QED
    BY <1>1, <1>2, WalkOfNothing DEF Paired

(* Between deliveries no slot is in use. *)
LEMMA QuietSlots ==
    ASSUME RecordsOK, TallyOK, NEW t \in Thread, Paired(t), queue[t] = <<>>
    PROVE  slotNum[t] = 0 /\ readIndex[t] = 0 /\ SlotsAt(t) = <<0, 0>>
<1>1. queue[t] \in Seq(Record)
    BY DEF RecordsOK
<1>2. CASE client.name = "redspy"
    <2>1. SlotWalk(queue[t], SlotsAt(t))
        BY <1>2 DEF Paired
    <2>2. SlotsAt(t) = <<0, 0>>
        BY <1>1, <2>1, WalkStarts
    <2> QED
        BY <2>2 DEF SlotsAt
<1>3. CASE client.name # "redspy"
    BY <1>3 DEF Paired, SlotsAt
<1> QED
    BY <1>2, <1>3

(* A thread that starts, delivers or runs. *)
LEMMA StartPairs ==
    ASSUME RecordsOK, TallyOK, CountsOK, AllPaired, NEW t \in Thread, ThreadStart(t)
    PROVE  AllPaired'
<1>1. Placed(t) /\ Paired(t)
    BY DEF CountsOK, AllPaired
<1>2. /\ life[t] = "new" /\ UNCHANGED <<client, pass, queue, buffer>>
      /\ slotNum' = [slotNum EXCEPT ![t] = 0] /\ readIndex' = [readIndex EXCEPT ![t] = 0]
    BY DEF ThreadStart, applying
<1>3. queue[t] = <<>>
    BY <1>1, <1>2 DEF Placed
<1>4. slotNum[t] = 0 /\ readIndex[t] = 0
    BY <1>1, <1>3, QuietSlots
<1>5. \A u \in Thread : SlotsAlone(u)
    BY <1>2, <1>4 DEF SlotsAlone, TallyOK
<1>6. Paired(t)'
    BY <1>1, <1>5, SlotsAloneKept
<1> QED
    BY <1>5, <1>6, PairedOfOne

LEMMA DeliveryPairs ==
    ASSUME Period = 1, RecordsOK, TallyOK, AllPaired, NEW t \in Thread, Deliver(t) \/ ThreadExit(t)
    PROVE  AllPaired'
<1>1. Paired(t) /\ buffer[t] \in Seq(Record)
    BY DEF AllPaired, RecordsOK
<1>2. Sampled(buffer[t]) = buffer[t]
    BY <1>1, SampledIsAll
<1>3. /\ queue'[t] = buffer[t] /\ buffer'[t] = <<>> /\ queue[t] = <<>> /\ pass[t] = "none"
      /\ UNCHANGED <<client, pass, slotNum, readIndex>>
    BY <1>2 DEF Deliver, ThreadExit, Quiet, RecordsOK, slotting
<1>4. SlotsAt(t) = <<0, 0>> /\ SlotsAt(t)' = SlotsAt(t)
    BY <1>1, <1>3, QuietSlots DEF SlotsAt
<1>5. Paired(t)'
    BY <1>1, <1>3, <1>4, WalkOfNothing DEF Paired
<1>6. \A u \in Thread \ {t} : SlotsAlone(u)
    BY DEF Deliver, ThreadExit, SlotsAlone, RecordsOK, slotting
<1> QED
    BY <1>5, <1>6, PairedOfOne

LEMMA CallPairs ==
    ASSUME RecordsOK, TallyOK, AllPaired, NEW t \in Thread, Call(t)
    PROVE  AllPaired'
<1>1. Paired(t) /\ client \in Clients
    BY DEF AllPaired, RecordsOK
<1>2. client.name # "redspy" /\ UNCHANGED <<client, pass, slotNum, readIndex>>
    BY <1>1, ClientsAssumption DEF Call, slotting
<1>3. Paired(t)'
    BY <1>1, <1>2 DEF Paired, SlotsAt
<1>4. \A u \in Thread \ {t} : SlotsAlone(u)
    BY DEF Call, SlotsAlone, RecordsOK, slotting
<1> QED
    BY <1>3, <1>4, PairedOfOne

LEMMA ExecutePairs ==
    ASSUME FewWrites, RecordsOK, TallyOK, AllPaired, NEW t \in Thread, Execute(t)
    PROVE  AllPaired'
<1> DEFINE e == Emits(Instr(t), mem, <<t, ip[t]>>)
<1>1. /\ Paired(t) /\ client \in Clients /\ mem \in [Addr -> Value] /\ buffer[t] \in Seq(Record)
      /\ ip[t] \in DOMAIN Code(t)
    BY DEF AllPaired, RecordsOK, Execute
<1>2. /\ queue[t] = <<>> /\ pass[t] = "none"
      /\ buffer'[t] = IF client.naive THEN buffer[t] ELSE buffer[t] \o e
      /\ UNCHANGED <<client, queue, pass, slotNum, readIndex>>
    BY DEF Execute, RecordsOK, Quiet, applying, slotting
<1> HIDE DEF e
<1>3. SlotsAt(t)' = SlotsAt(t)
    BY <1>2 DEF SlotsAt
<1>4. Paired(t)'
    <2>1. CASE client.name = "redspy"
        <3>1. SlotWalk(queue[t], SlotsAt(t)) /\ SlotWalk(buffer[t], <<0, 0>>)
            BY <1>1, <2>1 DEF Paired
        <3>2. Instr(t) \in Instruction /\ <<t, ip[t]>> \in Contexts /\ e \in Seq(Record)
            BY <1>1, InstrAt DEF e
        <3>3. Len(Instr(t).dst) <= 255
            BY <1>1, <2>1 DEF FewWrites, Instr, Code
        <3>4. SlotWalk(e, <<0, 0>>)
            BY <1>1, <2>1, <3>2, <3>3, WalkOfInstr DEF e
        <3>5. SlotWalk(buffer[t] \o e, <<0, 0>>)
            BY <1>1, <3>1, <3>2, <3>4, WalkOfBoth
        <3>6. SlotWalk(buffer'[t], <<0, 0>>)
            BY <1>2, <3>1, <3>5
        <3> QED
            BY <1>2, <1>3, <2>1, <3>1, <3>6 DEF Paired
    <2>2. CASE client.name # "redspy"
        BY <1>1, <1>2, <1>3, <2>2 DEF Paired
    <2> QED
        BY <2>1, <2>2
<1>5. \A u \in Thread \ {t} : SlotsAlone(u)
    BY DEF Execute, SlotsAlone, RecordsOK, applying, slotting
<1> QED
    BY <1>4, <1>5, PairedOfOne

(* A record is taken: its value is put into a slot, or compared with one. *)
LEMMA TakePairs ==
    ASSUME RecordsOK, TallyOK, AllPaired, NEW t \in Thread,
           \/ TakeDeadspyRead(t) \/ TakeDeadspyWrite(t) \/ TakeLoadspyRead(t)
           \/ TakeRedspyBefore(t) \/ TakeRedspyAfter(t)
    PROVE  AllPaired'
<1>1. Paired(t) /\ queue[t] \in Seq(Record)
    BY DEF AllPaired, RecordsOK
<1>2. client' = client /\ buffer' = buffer
    BY DEF TakeDeadspyRead, TakeDeadspyWrite, TakeLoadspyRead, TakeRedspyBefore,
        TakeRedspyAfter, program
<1>3. \A u \in Thread \ {t} : SlotsAlone(u)
    <2>1. \A u \in Thread \ {t} : queue'[u] = queue[u] /\ slotNum'[u] = slotNum[u]
        BY DEF TakeDeadspyRead, TakeDeadspyWrite, TakeLoadspyRead, TakeRedspyBefore,
            TakeRedspyAfter, slotting, RecordsOK, TallyOK
    <2>2. readIndex' = readIndex
        BY DEF TakeDeadspyRead, TakeDeadspyWrite, TakeLoadspyRead, TakeRedspyBefore,
            TakeRedspyAfter, slotting
    <2>3. pass' = pass \/ \E p \in Passes : pass' = [pass EXCEPT ![t] = p]
        BY DEF TakeDeadspyRead, TakeDeadspyWrite, TakeLoadspyRead, TakeRedspyBefore,
            TakeRedspyAfter, Begin, Passes
    <2> QED
        BY <1>2, <2>1, <2>2, <2>3 DEF SlotsAlone, RecordsOK
<1>4. CASE TakeDeadspyRead(t) \/ TakeDeadspyWrite(t) \/ TakeLoadspyRead(t)
    <2>1. client.name # "redspy" /\ UNCHANGED <<slotNum, readIndex>> /\ pass'[t] # "end"
        BY <1>4 DEF TakeDeadspyRead, TakeDeadspyWrite, TakeLoadspyRead, Taking, Begin, slotting,
            RecordsOK
    <2>2. Paired(t)'
        BY <1>1, <1>2, <2>1 DEF Paired, SlotsAt
    <2> QED
        BY <1>3, <2>2, PairedOfOne
<1>5. CASE TakeRedspyBefore(t)
    <2>1. /\ client.name = "redspy" /\ queue[t] # <<>> /\ pass' = pass /\ pass[t] = "none"
          /\ Head(queue[t]).kind = Before /\ queue'[t] = Tail(queue[t])
          /\ slotNum'[t] = (slotNum[t] + 1) % 256 /\ readIndex'[t] = readIndex[t]
        BY <1>5 DEF TakeRedspyBefore, Taking, Rec, RecordsOK, TallyOK, Before
    <2>2. SlotWalk(queue[t], SlotsAt(t)) /\ SlotWalk(buffer[t], <<0, 0>>)
        BY <1>1, <2>1 DEF Paired
    <2>3. PICK y \in SlotState : SlotMove(SlotsAt(t), Before, y) /\ SlotWalk(Tail(queue[t]), y)
        BY <1>1, <2>1, <2>2, WalkGoesOn
    <2>4. readIndex[t] = 0 /\ slotNum[t] < 255 /\ y = <<slotNum[t] + 1, 0>>
        BY <2>3 DEF SlotMove, SlotsAt, Before, After
    <2>5. slotNum'[t] = slotNum[t] + 1
        <3>1. slotNum[t] \in 0 .. 255
            BY DEF TallyOK
        <3> QED
            BY <2>1, <2>4, <3>1, CountersWrap
    <2>6. SlotsAt(t)' = y
        BY <2>1, <2>4, <2>5 DEF SlotsAt
    <2>7. Paired(t)'
        BY <1>2, <2>1, <2>2, <2>3, <2>6 DEF Paired
    <2> QED
        BY <1>3, <2>7, PairedOfOne
<1>6. CASE TakeRedspyAfter(t)
    <2>1. PICK p \in {"report", "stamp", "end"} : Begin(t, p)
        BY <1>6 DEF TakeRedspyAfter
    <2>2. /\ client.name = "redspy" /\ Rec(t).kind = After /\ pass'[t] \in {"report", "stamp", "end"}
          /\ UNCHANGED <<queue, slotNum, readIndex>>
        BY <1>6, <2>1 DEF TakeRedspyAfter, Taking, Begin, slotting, RecordsOK, After
    <2>3. SlotsAt(t)' = SlotsAt(t) /\ Rec(t)' = Rec(t)
        BY <2>2 DEF SlotsAt, Rec
    <2>4. Paired(t)'
        BY <1>1, <1>2, <2>2, <2>3 DEF Paired
    <2> QED
        BY <1>3, <2>4, PairedOfOne
<1> QED
    BY <1>4, <1>5, <1>6

(* The bytes of a record are gone over. *)
LEMMA BytePairs ==
    ASSUME RecordsOK, TallyOK, AllPaired, NEW t \in Thread,
           \/ StartLookup(t) \/ Advance(t) \/ MarkRead(t) \/ SkipRead(t) \/ TestMark(t)
           \/ SetMark(t) \/ Compare(t) \/ Copy(t) \/ Report(t) \/ Stamp(t)
    PROVE  AllPaired'
<1>1. Paired(t)
    BY DEF AllPaired
<1>2. UNCHANGED <<client, buffer, slotNum, readIndex>> /\ SlotsAt(t)' = SlotsAt(t)
    BY DEF StartLookup, Advance, MarkRead, SkipRead, TestMark, SetMark, Compare, Copy, Report,
        Stamp, program, slotting, SlotsAt
<1>3. \A u \in Thread \ {t} : SlotsAlone(u)
    <2>1. \A u \in Thread \ {t} : queue'[u] = queue[u] /\ pass'[u] = pass[u]
        BY DEF StartLookup, Advance, MarkRead, SkipRead, TestMark, SetMark, Compare, Copy, Report,
            Stamp, NextByte, Turn, applying, RecordsOK
    <2> QED
        BY <1>2, <2>1 DEF SlotsAlone
<1>4. CASE StartLookup(t) \/ Advance(t)
    <2>1. UNCHANGED <<queue, pass>>
        BY <1>4 DEF StartLookup, Advance, applying
    <2>2. SlotsAlone(t)
        BY <1>2, <2>1 DEF SlotsAlone
    <2> QED
        BY <1>1, <1>3, <2>2, SlotsAloneKept, PairedOfOne
<1>5. CASE MarkRead(t) \/ SkipRead(t) \/ TestMark(t) \/ SetMark(t) \/ Compare(t) \/ Copy(t)
    <2>1. client.name # "redspy"
        BY <1>1, <1>5 DEF MarkRead, SkipRead, TestMark, SetMark, Compare, Copy, At, Paired
    <2>2. pass'[t] # "end"
        BY <1>5 DEF MarkRead, SkipRead, TestMark, SetMark, Compare, Copy, NextByte, Turn, RecordsOK
    <2>3. Paired(t)'
        BY <1>1, <1>2, <2>1, <2>2 DEF Paired
    <2> QED
        BY <1>3, <2>3, PairedOfOne
<1>6. CASE Report(t)
    <2>1. pass' = [pass EXCEPT ![t] = "stamp"] /\ queue' = queue /\ pass[t] = "report"
        BY <1>6 DEF Report, Turn, At
    <2>2. pass'[t] = "stamp" /\ Rec(t)' = Rec(t)
        BY <2>1 DEF Rec, RecordsOK
    <2>3. Paired(t)'
        BY <1>1, <1>2, <2>1, <2>2 DEF Paired
    <2> QED
        BY <1>3, <2>3, PairedOfOne
<1>7. CASE Stamp(t)
    <2>1. pass[t] = "stamp" /\ NextByte(t, Again(t), IF client.name = "redspy" THEN "end" ELSE "none")
        BY <1>7 DEF Stamp, At
    <2>2. CASE client.name = "redspy"
        <3>1. Again(t) \in {"report", "stamp"}
            BY <2>2 DEF Again
        <3>2. pass'[t] \in {"report", "stamp", "end"} /\ queue' = queue
            BY <2>1, <2>2, <3>1 DEF NextByte, RecordsOK
        <3>3. Rec(t)' = Rec(t)
            BY <3>2 DEF Rec
        <3> QED
            BY <1>1, <1>2, <1>3, <2>1, <2>2, <3>2, <3>3, PairedOfOne DEF Paired
    <2>3. CASE client.name # "redspy"
        <3>1. Again(t) # "end"
            BY <2>3 DEF Again
        <3>2. pass'[t] # "end"
            BY <2>1, <2>3, <3>1 DEF NextByte, RecordsOK
        <3> QED
            BY <1>1, <1>2, <1>3, <2>3, <3>2, PairedOfOne DEF Paired
    <2> QED
        BY <2>2, <2>3
<1> QED
    BY <1>4, <1>5, <1>6, <1>7

(* A value after a write has been compared with its slot. *)
LEMMA EndPairs ==
    ASSUME RecordsOK, TallyOK, AllPaired, NEW t \in Thread, EndAfter(t)
    PROVE  AllPaired'
<1> DEFINE n == (readIndex[t] + 1) % 256
<1>1. Paired(t) /\ queue[t] \in Seq(Record) /\ queue[t] # <<>>
    <2>1. InRecord(t)
        BY DEF RecordsOK
    <2>2. queue[t] # <<>>
        BY <2>1 DEF InRecord, EndAfter
    <2> QED
        BY <2>2 DEF AllPaired, RecordsOK
<1>2. /\ pass[t] = "end" /\ pass'[t] = "none" /\ queue'[t] = Tail(queue[t])
      /\ client' = client /\ buffer' = buffer
      /\ slotNum'[t] = IF n = slotNum[t] THEN 0 ELSE slotNum[t]
      /\ readIndex'[t] = IF n = slotNum[t] THEN 0 ELSE n
    BY DEF EndAfter, RecordsOK, TallyOK, program
<1>3. \A u \in Thread \ {t} : SlotsAlone(u)
    BY DEF EndAfter, SlotsAlone, RecordsOK, TallyOK, program
<1> HIDE DEF n
<1>4. /\ client.name = "redspy" /\ Head(queue[t]).kind = After
      /\ SlotWalk(queue[t], SlotsAt(t)) /\ SlotWalk(buffer[t], <<0, 0>>)
    BY <1>1, <1>2 DEF Paired, Rec
<1>5. PICK y \in SlotState : SlotMove(SlotsAt(t), After, y) /\ SlotWalk(Tail(queue[t]), y)
    BY <1>1, <1>4, WalkGoesOn
<1>6. /\ readIndex[t] < slotNum[t]
      /\ y = IF readIndex[t] + 1 = slotNum[t] THEN <<0, 0>> ELSE <<slotNum[t], readIndex[t] + 1>>
    BY <1>5 DEF SlotMove, SlotsAt, Before, After
<1>7. n = readIndex[t] + 1
    <2>1. readIndex[t] \in 0 .. 255 /\ slotNum[t] \in 0 .. 255 /\ readIndex[t] < slotNum[t]
        BY <1>6 DEF TallyOK
    <2>2. readIndex[t] < 255
        BY <2>1
    <2> QED
        BY <2>1, <2>2, CountersWrap DEF n
<1>8. SlotsAt(t)' = y
    BY <1>2, <1>6, <1>7 DEF SlotsAt
<1>9. Paired(t)'
    BY <1>2, <1>4, <1>5, <1>8 DEF Paired
<1> QED
    BY <1>3, <1>9, PairedOfOne

LEMMA PairedKept ==
    ASSUME Period = 1, FewWrites, RecordsOK, TallyOK, CountsOK, AllPaired, [Next]_vars
    PROVE  AllPaired'
<1>1. CASE UNCHANGED vars \/ ProcessExit \/ \E t \in Thread : AddBytes(t) \/ AddFound(t)
    <2>1. UNCHANGED <<client, pass, queue, buffer, slotNum, readIndex>>
        BY <1>1 DEF vars, ProcessExit, AddBytes, AddFound, program, applying, slotting
    <2>2. \A u \in Thread : SlotsAlone(u)
        BY <2>1 DEF SlotsAlone
    <2> QED
        BY <2>2, SlotsAloneKept DEF AllPaired
<1>2. ASSUME NEW t \in Thread, ThreadStep(t), ~ AddBytes(t), ~ AddFound(t) PROVE AllPaired'
    <2>1. CASE Apply(t)
        BY <2>1, TakePairs, BytePairs, EndPairs DEF Apply
    <2> QED
        BY <1>2, <2>1, StartPairs, DeliveryPairs, CallPairs, ExecutePairs DEF ThreadStep
<1> QED
    BY <1>1, <1>2 DEF Next

(* When every record is used and no instruction has more writes than the    *)
(* counters of slots can count (x86 has a few), the value redspy compares   *)
(* is that of the same write: delivered in pieces, applied byte by byte and *)
(* with counters of a byte, what is put into slots is taken from them, and  *)
(* none is left in use between two deliveries.                             *)
THEOREM SlotsArePaired ==
    ASSUME Period = 1, FewWrites
    PROVE  Spec => []SlotsPaired
<1>1. ASSUME RecordsOK, TallyOK, AllPaired PROVE SlotsPaired
    <2> SUFFICES ASSUME NEW t \in Thread
                 PROVE  /\ Quiet(t) => slotNum[t] = 0 /\ readIndex[t] = 0
                        /\ slotNum[t] > 0 => readIndex[t] < slotNum[t]
                        /\ slotNum[t] = 0 => readIndex[t] = 0
        BY DEF SlotsPaired
    <2>1. Paired(t) /\ queue[t] \in Seq(Record)
        BY <1>1 DEF AllPaired, RecordsOK
    <2>2. Quiet(t) => slotNum[t] = 0 /\ readIndex[t] = 0
        BY <1>1, <2>1, QuietSlots DEF Quiet
    <2>3. SlotsAt(t) \in SlotState
        <3>1. CASE client.name = "redspy"
            BY <2>1, <3>1, WalkStarts DEF Paired
        <3>2. CASE client.name # "redspy"
            BY <2>1, <3>2 DEF Paired, SlotState
        <3> QED
            BY <3>1, <3>2
    <2>4. readIndex[t] < slotNum[t] \/ (slotNum[t] = 0 /\ readIndex[t] = 0)
        BY <2>3 DEF SlotsAt, SlotState
    <2>5. slotNum[t] \in 0 .. 255 /\ readIndex[t] \in 0 .. 255
        BY <1>1 DEF TallyOK
    <2> QED
        BY <2>2, <2>4, <2>5
<1>2. (IInv /\ RecordsOK /\ TallyOK) /\ CountsOK /\ [Next]_vars => CountsOK'
    BY CountsKept
<1>3. (IInv /\ RecordsOK /\ TallyOK) /\ CountsOK /\ AllPaired /\ [Next]_vars => AllPaired'
    BY PairedKept
<1> QED
    BY <1>1, <1>2, <1>3, CountsInit, PairedInit, ClientsTyped, PTL DEF Spec
=============================================================================
