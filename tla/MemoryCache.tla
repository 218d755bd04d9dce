---------------------------- MODULE MemoryCache ----------------------------
(***************************************************************************)
(* memory_cache_t and the tls_memory_cache_t of every thread: the objects  *)
(* (tree nodes, splay nodes) come in pages, a thread takes a number of     *)
(* them at a time under a lock and hands them out without one, and what a  *)
(* thread has not used when it ends is kept as debris for other threads.   *)
(*                                                                         *)
(* An object is a number, page1 index times page2 size plus page2 index;   *)
(* a piece is a run of objects.                                            *)
(***************************************************************************)
EXTENDS Integers, SequencesExt

CONSTANTS
  Thread,
  NoThread,     \* the lock is free
  PageNum,      \* page1_size_
  PageSize,     \* page2_size_
  MinNum,       \* cache_min_num_: objects a thread takes at a time
  DebrisMin     \* debris_min_size_: smaller pieces are given up

(* The constructor of tls_memory_cache_t checks the first.                 *)
ASSUME SizeAssumption ==
  /\ {PageNum, PageSize, MinNum, DebrisMin} \subseteq Nat \ {0}
  /\ MinNum <= PageSize
  /\ NoThread \notin Thread /\ "debris" \notin Thread \cup {NoThread}

VARIABLES
  page,          \* cur_page1_index_
  next,          \* cur_page2_index_
  debris,        \* debris_vector_ and debris_size_vector_
  debris_mode,   \* debris_mode_
  lock,          \* the thread that holds memory_cache_lock_
  phase,         \* where each thread is
  frames,        \* cache_frame_vector_ and cache_frame_size_vector_
  frame_id,      \* last_use_frame_id_, from 1
  use_num,       \* last_use_num_
  aborted,       \* MEMORY_CACHE_EXIT_PROCESS was called
  handed         \* how often get_next_object has returned each object

pool == <<page, next, debris, debris_mode>>
caches == <<frames, frame_id, use_num>>
vars == <<pool, lock, phase, caches, aborted, handed>>

Object == 0 .. PageNum * PageSize - 1
Piece(s, n) == [start |-> s, size |-> n]
Objects(p) == p.start .. p.start + p.size - 1

(* cache_frame_num_: enough frames for pieces of the least size.           *)
FrameNum ==
  IF MinNum % DebrisMin > 0 THEN MinNum \div DebrisMin + 1 ELSE MinNum \div DebrisMin

Init ==
  /\ page = 0
  /\ next = 0
  /\ debris = <<>>
  /\ debris_mode = FALSE
  /\ lock = NoThread
  /\ phase = [t \in Thread |-> "off"]
  /\ frames = [t \in Thread |-> <<>>]
  /\ frame_id = [t \in Thread |-> 1]
  /\ use_num = [t \in Thread |-> -1]
  /\ aborted = FALSE
  /\ handed = [o \in Object |-> 0]

(* What the thread has not used of its i-th frame.                         *)
Left(t, i) ==
  LET f == frames[t][i]
  IN  IF i = frame_id[t] THEN Piece(f.start + use_num[t] + 1, f.size - use_num[t] - 1) ELSE f

-----------------------------------------------------------------------------
(* The constructor of a thread's cache fills it (reinit_sub_cache).        *)
ThreadStart(t) ==
  /\ phase[t] = "off"
  /\ phase' = [phase EXCEPT ![t] = "construct"]
  /\ UNCHANGED <<pool, lock, caches, aborted, handed>>

HasObject(t, i, k) == i <= Len(frames[t]) /\ k < frames[t][i].size

HandOut(t, i, k) ==
  /\ frame_id' = [frame_id EXCEPT ![t] = i]
  /\ use_num' = [use_num EXCEPT ![t] = k]
  /\ handed' = [handed EXCEPT ![frames[t][i].start + k] = @ + 1]

(* get_next_object, out of the frame it is at or the one after.            *)
GetNextObject(t) ==
  /\ phase[t] = "run"
  /\ \/ HasObject(t, frame_id[t], use_num[t] + 1) /\ HandOut(t, frame_id[t], use_num[t] + 1)
     \/ /\ ~HasObject(t, frame_id[t], use_num[t] + 1)
        /\ HasObject(t, frame_id[t] + 1, 0)
        /\ HandOut(t, frame_id[t] + 1, 0)
  /\ UNCHANGED <<pool, lock, phase, frames, aborted>>

(* get_next_object when the frames are used up: reinit_sub_cache empties   *)
(* them.  Where the thread stood in them does not matter any more.         *)
RunDry(t) ==
  /\ phase[t] = "run"
  /\ ~HasObject(t, frame_id[t], use_num[t] + 1)
  /\ ~HasObject(t, frame_id[t] + 1, 0)
  /\ phase' = [phase EXCEPT ![t] = "refill"]
  /\ frames' = [frames EXCEPT ![t] = <<>>]
  /\ frame_id' = [frame_id EXCEPT ![t] = 1]
  /\ use_num' = [use_num EXCEPT ![t] = -1]
  /\ UNCHANGED <<pool, lock, aborted, handed>>

(* The lock is taken to refill the frames or to give them back.            *)
AfterLock == [construct |-> "construct locked", refill |-> "refill locked", run |-> "return"]

Lock(t) ==
  /\ phase[t] \in DOMAIN AfterLock
  /\ lock = NoThread
  /\ lock' = t
  /\ phase' = [phase EXCEPT ![t] = AfterLock[@]]
  /\ UNCHANGED <<pool, caches, aborted, handed>>

Refilling(t) == phase[t] \in {"construct locked", "refill locked"}

(* Mutant: the page's index is not moved on.                               *)
StayPut == UNCHANGED next

MoveOn == next' = next + MinNum

(* init_sub_cache_frame: the current page has room.                        *)
Room == PageSize - next
Carve(t) ==
  /\ Refilling(t)
  /\ frames[t] = <<>>
  /\ ~debris_mode
  /\ Room >= MinNum
  /\ frames' = [frames EXCEPT ![t] = <<Piece(page * PageSize + next, MinNum)>>]
  /\ MoveOn
  /\ UNCHANGED <<page, debris, debris_mode, lock, phase, frame_id, use_num, aborted, handed>>

(* add_debris.                                                             *)
AddDebris(p) == debris' = IF p.size < DebrisMin THEN debris ELSE Append(debris, p)

(* It has none: what is left of it becomes debris.                         *)
EnterDebrisMode(t) ==
  /\ Refilling(t)
  /\ frames[t] = <<>>
  /\ ~debris_mode
  /\ Room < MinNum
  /\ AddDebris(Piece(page * PageSize + next, Room))
  /\ debris_mode' = TRUE
  /\ UNCHANGED <<page, next, lock, phase, caches, aborted, handed>>

Total(ps) == FoldLeft(LAMBDA n, p : n + p.size, 0, ps)

(* Mutant: as many pieces as fit are not known to be enough.               *)
UseAnyDebris == Len(debris) > 0

UseDebris == FrameNum <= Len(debris) \/ Total(debris) >= MinNum

(* The loop over the debris has come to its end, as has a carved frame.    *)
Filled(t) == frames[t] # <<>> /\ (Total(frames[t]) >= MinNum \/ debris = <<>>)

(* A turn of the loop: the piece at the back moves to the next frame.      *)
TakeDebris(t) ==
  /\ Refilling(t)
  /\ ~Filled(t)
  /\ debris_mode
  /\ debris # <<>>
  /\ frames[t] = <<>> => UseDebris
  /\ frames' = [frames EXCEPT ![t] = Append(@, Last(debris))]
  /\ debris' = Front(debris)
  /\ UNCHANGED <<page, next, debris_mode, lock, phase, frame_id, use_num, aborted, handed>>

(* init_new_page2, after which the page is tried again.                    *)
NewPage(t) ==
  /\ Refilling(t)
  /\ frames[t] = <<>>
  /\ debris_mode
  /\ ~UseDebris
  /\ page + 1 < PageNum
  /\ page' = page + 1
  /\ next' = 0
  /\ debris_mode' = FALSE
  /\ UNCHANGED <<debris, lock, phase, caches, aborted, handed>>

(* init_new_page2 without a page left: the process exits.                  *)
FullError(t) ==
  /\ Refilling(t)
  /\ frames[t] = <<>>
  /\ debris_mode
  /\ ~UseDebris
  /\ page + 1 >= PageNum
  /\ aborted' = TRUE
  /\ UNCHANGED <<pool, lock, phase, caches, handed>>

(* The lock is released.  The constructor hands out nothing yet,           *)
(* get_next_object the first object of the first frame.                    *)
Unlock(t) ==
  /\ Refilling(t)
  /\ Filled(t)
  /\ lock' = NoThread
  /\ phase' = [phase EXCEPT ![t] = "run"]
  /\ IF phase[t] = "refill locked"
     THEN HandOut(t, 1, 0)
     ELSE UNCHANGED <<frame_id, use_num, handed>>
  /\ UNCHANGED <<pool, frames, aborted>>

(* Mutant: the piece given back begins with the object used last.          *)
GivenBackFromLast(t) ==
  LET p == Left(t, frame_id[t])
  IN  IF use_num[t] < 0 THEN p ELSE Piece(p.start - 1, p.size + 1)

GivenBack(t) == Left(t, frame_id[t])

(* free_unuse_object, when the thread ends: what is left of one frame      *)
(* becomes debris, then the next.                                          *)
FreeUnuseObject(t) ==
  /\ phase[t] = "return"
  /\ frame_id[t] <= Len(frames[t])
  /\ AddDebris(GivenBack(t))
  /\ frame_id' = [frame_id EXCEPT ![t] = @ + 1]
  /\ use_num' = [use_num EXCEPT ![t] = -1]
  /\ UNCHANGED <<page, next, debris_mode, lock, phase, frames, aborted, handed>>

ThreadEnd(t) ==
  /\ phase[t] = "return"
  /\ frame_id[t] > Len(frames[t])
  /\ lock' = NoThread
  /\ phase' = [phase EXCEPT ![t] = "ended"]
  /\ frames' = [frames EXCEPT ![t] = <<>>]
  /\ UNCHANGED <<pool, frame_id, use_num, aborted, handed>>

Step(t) ==
  \/ ThreadStart(t) \/ GetNextObject(t) \/ RunDry(t) \/ Lock(t)
  \/ Carve(t) \/ EnterDebrisMode(t) \/ TakeDebris(t) \/ NewPage(t) \/ FullError(t)
  \/ Unlock(t) \/ FreeUnuseObject(t) \/ ThreadEnd(t)

Next == ~aborted /\ \E t \in Thread : Step(t)

Spec == Init /\ [][Next]_vars

-----------------------------------------------------------------------------
(* The frame vector, whose length is fixed when the cache is constructed,  *)
(* holds the pieces a refill collects, however small the debris is, and    *)
(* they hold at least the objects that were asked for.                     *)
RefillFits ==
  \A t \in Thread :
    /\ Len(frames[t]) <= FrameNum
    /\ phase[t] = "run" => Total(frames[t]) >= MinNum

(* What the current page, the debris and the threads have to hand out;     *)
(* NoThread stands for the page.                                           *)
PieceOf(x, i) ==
  CASE x = NoThread -> Piece(page * PageSize + next, Room)
    [] x = "debris" -> debris[i]
    [] OTHER        -> Left(x, i)

Places ==
  (IF debris_mode THEN {} ELSE {<<NoThread, 1>>})
    \cup ({"debris"} \X DOMAIN debris)
    \cup UNION {{t} \X (frame_id[t] .. Len(frames[t])) : t \in Thread}

Held(p) == Objects(PieceOf(p[1], p[2]))

(* At every moment, in the middle of a refill or of a thread's end too, no *)
(* object is in two of these pieces, and none that has been handed out is  *)
(* in one of them.                                                         *)
PiecesDisjoint ==
  \A p \in Places :
    /\ \A o \in Held(p) : handed[o] = 0
    /\ \A q \in Places \ {p} : Held(p) \cap Held(q) = {}

(* However the threads' refills, hand-outs and ends interleave, no object  *)
(* is handed out twice.                                                    *)
Pool == INSTANCE ObjectPool
Implements == Pool!Spec
=============================================================================
