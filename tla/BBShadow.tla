------------------------------ MODULE BBShadow ------------------------------
(***************************************************************************)
(* The shadows of basic blocks: which key a block has and the address of   *)
(* every instrumented instruction of it, ip_shadow, from which reports and *)
(* drcctlib_query_slot are answered.  A thread that instruments a block    *)
(* looks its key up, or takes a shadow for it from the shared cache, under *)
(* bb_shadow_lock; the arrays are allocated and filled after the lock has  *)
(* been released.                                                          *)
(*                                                                         *)
(* mode says which of the two analyses runs, drcctlib_event_bb_analysis or *)
(* drcctlib_analyse_orig_bb, the one for drbbdup in sampled mode, and      *)
(* whether DynamoRIO lets one thread at a time build a block or, with code *)
(* caches private to threads, several.                                     *)
(***************************************************************************)
EXTENDS SharedCache

CONSTANTS
  BlockStart,     \* the addresses blocks begin at
  SlotNum,        \* instrumented instructions of a block
  Modes,
  AnalysisMax     \* bound: analyses of blocks

ASSUME BlockAssumption ==
  /\ BlockStart # {}
  /\ SlotNum \in [BlockStart -> Nat \ {0}]
  /\ Modes \subseteq [sampled : BOOLEAN, one_builder : BOOLEAN]

VARIABLES
  mode,
  bb_shadow_lock,
  key_table,    \* global_bb_key_table
  ip_shadow,    \* the slots filled in the present array of each key
  bb,           \* the block each thread is instrumenting
  slot,         \* the slot it fills or asks for next
  analysed,     \* drcctlib_analyse_orig_bb's analyzed
  analyses      \* how many analyses have begun

shadowVars == <<mode, bb_shadow_lock, key_table, ip_shadow, bb, slot, analysed, analyses>>
bbVars == <<cacheVars, shadowVars>>

NoKey == 0    \* a lookup's NULL: key 0 is the thread root's and in no table

key(t) == key_table[bb[t]]

BBInit ==
  /\ InitCache
  /\ mode \in Modes
  /\ bb_shadow_lock = NoThread
  /\ key_table = [b \in BlockStart |-> NoKey]
  /\ ip_shadow = [k \in 1 .. MaxIndex |-> {}]
  /\ bb = [t \in Thread |-> CHOOSE b \in BlockStart : TRUE]
  /\ slot = [t \in Thread |-> 0]
  /\ analysed = [t \in Thread |-> FALSE]
  /\ analyses = 0

(* Mutant: a block that is in the table gets a shadow all the same.        *)
AlwaysNew(b) == TRUE

IsNew(b) == key_table[b] = NoKey

(* Mutant: bb_shadow_lock is not taken.                                    *)
NoLockShadow(t) == UNCHANGED bb_shadow_lock

LockShadow(t) == bb_shadow_lock = NoThread /\ bb_shadow_lock' = t

(* Thread t begins to build block b and will need its key.                 *)
Build(t, b) ==
  /\ pc[t] = "run"
  /\ mode.one_builder => \A u \in Thread : pc[u] = "run"
  /\ analyses < AnalysisMax
  /\ analyses' = analyses + 1
  /\ bb' = [bb EXCEPT ![t] = b]
  /\ slot' = [slot EXCEPT ![t] = 0]
  /\ Goto(t, "meet")
  /\ UNCHANGED <<next_used, pages, auto_add_lock, index, aborted,
                 mode, bb_shadow_lock, key_table, ip_shadow, analysed>>

UnchangedInLookUp ==
  UNCHANGED <<next_used, pages, auto_add_lock, index, aborted,
              mode, key_table, ip_shadow, bb, slot, analyses>>

(* The critical section of both analyses when the block has a key ...      *)
LookUp(t) ==
  /\ pc[t] = "meet"
  /\ bb_shadow_lock = NoThread
  /\ ~IsNew(bb[t])
  /\ analysed' = [analysed EXCEPT ![t] = TRUE]
  /\ Goto(t, "create")
  /\ UNCHANGED bb_shadow_lock
  /\ UnchangedInLookUp

(* ... and its first and last step when it gets one.                       *)
LookUpNew(t) ==
  /\ pc[t] = "meet"
  /\ LockShadow(t)
  /\ IsNew(bb[t])
  /\ analysed' = [analysed EXCEPT ![t] = FALSE]
  /\ Goto(t, "reserve")
  /\ UnchangedInLookUp

(* Mutant: the lock is kept once the key is in the table.                  *)
KeepShadow == UNCHANGED bb_shadow_lock

ReleaseShadow == bb_shadow_lock' = NoThread

AddKey(t) ==
  /\ pc[t] = "got"
  /\ key_table' = [key_table EXCEPT ![bb[t]] = index[t]]
  /\ ReleaseShadow
  /\ index' = [index EXCEPT ![t] = 0]
  /\ Goto(t, "create")
  /\ UNCHANGED <<next_used, pages, auto_add_lock, aborted,
                 mode, ip_shadow, bb, slot, analysed, analyses>>

(* Mutant: the sampled analysis allocates for a block it knows as well.    *)
CreatesAlways(t) == TRUE

(* Mutant: the analysis that always allocates also trusts the table.       *)
FillsNever(t) == ~analysed[t]

(* Only the sampled analysis trusts the table.                             *)
Creates(t) == mode.sampled => ~analysed[t]
Fills(t) == mode.sampled => ~analysed[t]

UnchangedInArrays ==
  UNCHANGED <<next_used, pages, auto_add_lock, index, aborted,
              mode, bb_shadow_lock, key_table, bb, analysed, analyses>>

(* Sampled mode goes on to the client's instrumentation.                   *)
Done(t) == Goto(t, IF mode.sampled THEN "instrument" ELSE "run")

(* bb_shadow_create_cache: fresh arrays take the place of the old ones.    *)
CreateCache(t) ==
  /\ pc[t] = "create"
  /\ IF Creates(t)
     THEN ip_shadow' = [ip_shadow EXCEPT ![key(t)] = {}]
     ELSE UNCHANGED ip_shadow
  /\ IF Fills(t) THEN Goto(t, "fill") ELSE Done(t)
  /\ UNCHANGED slot
  /\ UnchangedInArrays

(* The loop over the instructions writes to whatever array is there.       *)
FillSlot(t) ==
  /\ pc[t] = "fill"
  /\ slot[t] < SlotNum[bb[t]]
  /\ ip_shadow' = [ip_shadow EXCEPT ![key(t)] = @ \cup {slot[t]}]
  /\ slot' = [slot EXCEPT ![t] = @ + 1]
  /\ UNCHANGED pc
  /\ UnchangedInArrays

Filled(t) ==
  /\ pc[t] = "fill"
  /\ slot[t] = SlotNum[bb[t]]
  /\ slot' = [slot EXCEPT ![t] = 0]
  /\ Done(t)
  /\ UNCHANGED ip_shadow
  /\ UnchangedInArrays

(* The client instruments one instruction after the other, with            *)
(* drcctlib_query_slot.                                                    *)
QuerySlot(t) ==
  /\ pc[t] = "instrument"
  /\ slot[t] < SlotNum[bb[t]]
  /\ slot' = [slot EXCEPT ![t] = @ + 1]
  /\ UNCHANGED <<pc, ip_shadow>>
  /\ UnchangedInArrays

(* The block is emitted and runs.                                          *)
Emit(t) ==
  /\ pc[t] = "instrument"
  /\ slot[t] = SlotNum[bb[t]]
  /\ Goto(t, "run")
  /\ UNCHANGED <<slot, ip_shadow>>
  /\ UnchangedInArrays

Step(t) ==
  \/ \E b \in BlockStart : Build(t, b)
  \/ LookUp(t) \/ LookUpNew(t)
  \/ GetNextObject(t) /\ UNCHANGED shadowVars
  \/ AddKey(t)
  \/ CreateCache(t) \/ FillSlot(t) \/ Filled(t) \/ QuerySlot(t) \/ Emit(t)

BBNext == ~aborted /\ \E t \in Thread : Step(t)

(* A thread in the middle of a block's analysis is scheduled again, and a  *)
(* mutex that is released time and again is at last handed to a thread     *)
(* that waits for it.                                                      *)
Fairness ==
  \A t \in Thread :
    /\ WF_bbVars(~aborted /\ pc[t] # "run" /\ Step(t))
    /\ SF_bbVars(~aborted /\ (LookUp(t) \/ LookUpNew(t)))

BBSpec == BBInit /\ [][BBNext]_bbVars /\ Fairness

-----------------------------------------------------------------------------
Slots(b) == 0 .. SlotNum[b] - 1
Keyed == {b \in BlockStart : key_table[b] # NoKey}
Analysing(b) == {t \in Thread : bb[t] = b /\ pc[t] \in {"create", "fill"}}

(* A key that another thread can read leads to an object in a page that    *)
(* exists, although the bound of the indices is raised before the page is  *)
(* there: get_object_by_index reads the page table without a lock.         *)
KeysBacked == \A b \in Keyed : PageOf(key_table[b]) \in page1_cache

(* No two blocks have one key, however many threads meet new blocks at     *)
(* once: nodes of the tree name blocks by key.                             *)
OneKeyPerBlock == \A b, c \in Keyed : key_table[b] = key_table[c] => b = c

(* A block keeps the key it was first given: nodes outlive its code.       *)
KeysKept == [][\A b \in Keyed : key_table'[b] = key_table[b]]_bbVars

(* Whoever meets a block, a new one or not and whatever the others do,     *)
(* comes to know its key, through bb_shadow_lock and, inside it, the       *)
(* cache's own lock; or the process ends because there is no key left.     *)
Served == \A t \in Thread : pc[t] = "meet" ~> (pc[t] = "create" \/ aborted)

(* Threads that analyse one block at once swap its arrays under each       *)
(* other, but when the last of them is done every instruction is there.    *)
CompleteWhenQuiet ==
  \A b \in Keyed : Analysing(b) = {} => ip_shadow[key_table[b]] = Slots(b)

(* When one thread at a time builds a block, drcctlib_query_slot finds     *)
(* every instruction, the second time a block is built as well.            *)
QuerySlotFound ==
  mode.one_builder => \A t \in Thread :
    pc[t] = "instrument" /\ slot[t] < SlotNum[bb[t]] => slot[t] \in ip_shadow[key(t)]
=============================================================================
