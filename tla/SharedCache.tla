---------------------------- MODULE SharedCache ----------------------------
(***************************************************************************)
(* thread_shared_memory_cache_t::get_next_object, step by step.  An index  *)
(* is reserved by one atomic addition, a new page is allocated under       *)
(* auto_add_lock, and the bound of the indices is raised before the page   *)
(* is entered in the page table that get_object_by_index reads without a   *)
(* lock.                                                                   *)
(*                                                                         *)
(* The caller sets pc to "reserve" and goes on when it is "got"; BBShadow  *)
(* is the caller that drcctlib has.                                        *)
(***************************************************************************)
EXTENDS Integers, FiniteSets

CONSTANTS
  Thread,
  NoThread,    \* a lock is free
  PageNum,     \* page1_size_
  PageSize     \* page2_size_

(* The constructor refuses pages smaller than THREAD_MAX_NUM.              *)
ASSUME SizeAssumption ==
  /\ PageNum \in Nat \ {0}
  /\ PageSize \in Nat \ {0} /\ PageSize >= Cardinality(Thread)
  /\ NoThread \notin Thread

VARIABLES
  next_used,        \* next_used_index_
  cur_max,          \* cur_max_index_
  page1_last,       \* page1_last_index_
  page1_cache,      \* the entries of page1_cache_ that have been set
  auto_add_lock,    \* the thread that holds it
  pc,               \* where each thread is
  index,            \* its cur_index
  aborted           \* MEMORY_CACHE_EXIT_PROCESS was called

pages == <<cur_max, page1_last, page1_cache>>
cacheVars == <<next_used, pages, auto_add_lock, pc, index, aborted>>

MaxIndex == PageNum * PageSize - 1
PageOf(i) == i \div PageSize

(* The constructor has allocated a page, and                               *)
(* init_thread_root_shared_bb_shadow has taken the first object.           *)
InitCache ==
  /\ next_used = 1
  /\ cur_max = PageSize - 1
  /\ page1_last = 0
  /\ page1_cache = {0}
  /\ auto_add_lock = NoThread
  /\ pc = [t \in Thread |-> "run"]
  /\ index = [t \in Thread |-> 0]
  /\ aborted = FALSE

Goto(t, l) == pc' = [pc EXCEPT ![t] = l]

(* Mutant: the index is read but not moved on.                             *)
AddNothing == UNCHANGED next_used

AddOne == next_used' = next_used + 1

(* The atomic addition and the test of the last index.                     *)
Reserve(t) ==
  /\ pc[t] = "reserve"
  /\ AddOne
  /\ index' = [index EXCEPT ![t] = next_used]
  /\ aborted' = (next_used = MaxIndex)
  /\ Goto(t, "test")
  /\ UNCHANGED <<pages, auto_add_lock>>

NeedsPage(t) == index[t] >= cur_max

(* The test outside auto_add_lock.                                         *)
Test(t) ==
  /\ pc[t] = "test"
  /\ IF NeedsPage(t) THEN Goto(t, "lock") ELSE Goto(t, "got")
  /\ UNCHANGED <<next_used, pages, auto_add_lock, index, aborted>>

(* The same test inside it.                                                *)
LockAndTest(t) ==
  /\ pc[t] = "lock"
  /\ auto_add_lock = NoThread
  /\ auto_add_lock' = t
  /\ IF NeedsPage(t) THEN Goto(t, "number") ELSE Goto(t, "unlock")
  /\ UNCHANGED <<next_used, pages, index, aborted>>

(* init_new_page2: the page's number, then the bound, then the table.      *)
NumberPage(t) ==
  /\ pc[t] = "number"
  /\ page1_last' = page1_last + 1
  /\ aborted' = (page1_last + 1 >= PageNum)
  /\ Goto(t, "bound")
  /\ UNCHANGED <<next_used, cur_max, page1_cache, auto_add_lock, index>>

RaiseBound(t) ==
  /\ pc[t] = "bound"
  /\ cur_max' = cur_max + PageSize
  /\ Goto(t, "store")
  /\ UNCHANGED <<next_used, page1_last, page1_cache, auto_add_lock, index, aborted>>

StorePage(t) ==
  /\ pc[t] = "store"
  /\ page1_cache' = page1_cache \cup {page1_last}
  /\ Goto(t, "unlock")
  /\ UNCHANGED <<next_used, cur_max, page1_last, auto_add_lock, index, aborted>>

Unlock(t) ==
  /\ pc[t] = "unlock"
  /\ auto_add_lock' = NoThread
  /\ Goto(t, "got")
  /\ UNCHANGED <<next_used, pages, index, aborted>>

GetNextObject(t) ==
  \/ Reserve(t) \/ Test(t) \/ LockAndTest(t) \/ NumberPage(t)
  \/ RaiseBound(t) \/ StorePage(t) \/ Unlock(t)
=============================================================================
