------------------------------ MODULE BBCache ------------------------------
(***************************************************************************)
(* The cache mode of drcctlib (DRCCTLIB_CACHE_MODE and, when blocks have   *)
(* memory references to record, DRCCTLIB_CACHE_MEMEORY_ACCESS_ADDR), for   *)
(* one thread.  Code inlined at the head of every basic block only notes   *)
(* the block in bb_cache; a clean call follows when the notes or the       *)
(* recorded memory references may run out of room.  The clean call, and    *)
(* whoever needs the current node, catches up: for every noted block it    *)
(* tells the client that the block before it has ended, and moves to the   *)
(* noted block's node.                                                     *)
(*                                                                         *)
(* A node of the calling-context tree is represented by the context it     *)
(* stands for (CCT!ContextExact, CCT!BacktraceExact), so that Front of a   *)
(* node is its parent and <<>> is the thread's root.  The guards are those *)
(* of the x86 build.                                                       *)
(***************************************************************************)
EXTENDS AppPath

CONSTANTS
  MemRefs,                   \* bb_shadow_t.mem_ref_num of a block
  NoAddr,                    \* those of them whose address cannot be computed
  NoBlock,                   \* NULL in bb_cache
  RootBlock,                 \* the shadow of THREAD_ROOT_BB_SHARED_BB_KEY
  BB_CACHE_MESSAGE_MAX_NUM,
  INNER_MEM_REF_CACHE_MAX,
  NoRef,                     \* an address of 0
  Fresh,                     \* what an entry of new memory may hold: NoRef or not
  RunMax                     \* bound: the blocks the application runs

ASSUME BlockAssumption ==
  /\ MemRefs \in [Block -> Nat]
  /\ NoAddr \in [Block -> SUBSET Nat]
  /\ NoBlock \notin Block /\ RootBlock \notin Block
  /\ NoRef \notin Nat \X Nat

ASSUME SizeAssumption ==
  /\ BB_CACHE_MESSAGE_MAX_NUM \in Nat /\ BB_CACHE_MESSAGE_MAX_NUM > 1
  /\ INNER_MEM_REF_CACHE_MAX \in Nat
  /\ \A b \in Block : 2 * MemRefs[b] < INNER_MEM_REF_CACHE_MAX

VARIABLES
  bb_cache,       \* bb_cache[i].bb_shadow
  ptr,            \* the entry that BUF_PTR2 points to
  mem,            \* inner_mem_ref_cache[i].addr
  mem_ptr,        \* the entry that BUF_PTR3 points to
  cur,            \* per_thread_t.cur_bb_node
  pre,            \* per_thread_t.pre_bb_shadow
  ended,          \* the thread has ended
  recorded,       \* references of the running block that have been recorded
  delivered,      \* history: the calls of the client's func_insert_bb_end
  visited,        \* history: the contexts the application has been in
  lost,           \* history: the references that a refresh has cleared
  disturbed       \* history: the memory was not zero when new, or a refresh
                  \* came upon an address of 0

cache == <<bb_cache, ptr>>
refs == <<mem, mem_ptr>>
history == <<delivered, visited, lost, disturbed>>
vars == <<cache, refs, cur, pre, ended, recorded, history>>

BBIndex == 0 .. BB_CACHE_MESSAGE_MAX_NUM - 1
RefIndex == 0 .. INNER_MEM_REF_CACHE_MAX - 1

NumRefs(b) == IF b = RootBlock THEN 0 ELSE MemRefs[b]

running == Last(visited)

(* References the running block has still to record.                       *)
owed == IF visited = <<>> THEN 0 ELSE NumRefs(Last(running)) - recorded

(* What pt_init sets up.  It does not initialise the addresses.            *)
Init ==
  /\ bb_cache = [i \in BBIndex |-> NoBlock]
  /\ ptr = 0
  /\ \E a \in Fresh :
       /\ mem = [i \in RefIndex |-> a]
       /\ disturbed = (a # NoRef)
  /\ mem_ptr = 0
  /\ cur = <<>>
  /\ pre = RootBlock
  /\ ended = FALSE
  /\ recorded = 0
  /\ delivered = <<>>
  /\ visited = <<>>
  /\ lost = {}

(* Mutant: a return is taken for a plain end.                              *)
CallerIgnoringReturns(node, b) ==
  IF b = RootBlock THEN <<>> ELSE IF EndState[b] = "call" THEN node ELSE Front(node)

(* The node below which the block after b runs, when b's node is node.     *)
Caller(node, b) ==
  IF b = RootBlock THEN <<>>
  ELSE CASE EndState[b] = "call"   -> node
         [] EndState[b] = "return" -> IF Front(node) = <<>> THEN <<>> ELSE Front(Front(node))
         [] OTHER                  -> Front(node)

(* Mutant: the loop over the cache stops one entry early.                  *)
PendingButLast(c) ==
  SelectSeq([i \in 1 .. BB_CACHE_MESSAGE_MAX_NUM - 2 |-> c[i]], LAMBDA b : b # NoBlock)

(* The blocks that the loop of per_thread_refresh_bb_cache goes over: the  *)
(* entries from 1 to the first that is NULL.                               *)
Pending(c) ==
  LET gaps == {i \in 1 .. BB_CACHE_MESSAGE_MAX_NUM - 1 : c[i] = NoBlock}
      end == IF gaps = {} THEN BB_CACHE_MESSAGE_MAX_NUM ELSE CHOOSE i \in gaps : \A j \in gaps : i <= j
  IN [i \in 1 .. end - 1 |-> c[i]]

BlockEnd(node, addrs) == [node |-> node, addrs |-> addrs]

(* What the code finds in entry i.  Behind the array, where it gets once a *)
(* refresh has lost references, its search ends.                           *)
Entry(i) == IF i \in RefIndex THEN mem[i] ELSE NoRef

(* One turn of the loop: the block before b has ended.                     *)
Drain(s, b) ==
  LET n == NumRefs(s.pre)
  IN [cur   |-> Append(Caller(s.cur, s.pre), b),
      pre   |-> b,
      start |-> s.start + n,
      ends  |-> Append(s.ends, BlockEnd(s.cur, [i \in 1 .. n |-> Entry(s.start + i - 1)]))]

Drained(c) ==
  FoldLeft(Drain, [cur |-> cur, pre |-> pre, start |-> 0, ends |-> <<>>], Pending(c))

(* How many references of the running block the code finds from start on:  *)
(* it looks for n and stops at a 0.                                        *)
Moved(start, n) ==
  LET stops == {i \in start .. start + n : i = start + n \/ Entry(i) = NoRef}
  IN (CHOOSE i \in stops : \A j \in stops : i <= j) - start

(* Mutant: the references of the running block stay where they are.        *)
NoCompact(start, moved) == mem

(* They move to the front, their old places and those of the ended blocks  *)
(* are cleared.  Moved onto themselves (start = 0) they are cleared too.   *)
Compact(start, moved) ==
  [i \in RefIndex |->
     CASE start > 0 /\ i < moved -> mem[start + i]
       [] (start = 0 \/ i >= moved) /\ i < start + moved -> NoRef
       [] OTHER -> mem[i]]

(* per_thread_init_stack_cache and per_thread_refresh_bb_cache(_and_       *)
(* mem_ref_cache), on the notes c.                                         *)
InitStackCache(c) ==
  IF c[0] = NoBlock THEN c ELSE [c EXCEPT ![1] = c[0], ![0] = NoBlock]

CatchUp(c0) ==
  LET c == InitStackCache(c0)
      d == Drained(c)
      moved == Moved(d.start, NumRefs(d.pre))
  IN IF c[1] = NoBlock
     THEN bb_cache' = c /\ UNCHANGED <<ptr, refs, cur, pre, delivered>>
     ELSE /\ bb_cache' = [i \in BBIndex |-> IF i \in DOMAIN Pending(c) THEN NoBlock ELSE c[i]]
          /\ ptr' = 1
          /\ mem' = Compact(d.start, moved)
          /\ mem_ptr' = moved
          /\ cur' = d.cur
          /\ pre' = d.pre
          /\ delivered' = delivered \o d.ends

-----------------------------------------------------------------------------
(* Mutant: room is only looked for in the notes.                           *)
NoRoomForNotes(b) == ptr + 1 \in {1, BB_CACHE_MESSAGE_MAX_NUM}

(* The test the inlined code makes before it goes on to the next entry.    *)
NoRoom(b) ==
  \/ ptr + 1 \in {1, BB_CACHE_MESSAGE_MAX_NUM}
  \/ mem_ptr + 1 + MemRefs[b] >= INNER_MEM_REF_CACHE_MAX

(* The context of the next block.                                          *)
NextContext(b) == Enter(IF visited = <<>> THEN <<>> ELSE running, b)

(* instrument_before_every_bb_first and its memory-reference twin.         *)
EnterBB(b) ==
  LET noted == [bb_cache EXCEPT ![ptr] = b]
  IN /\ ~ended
     /\ owed = 0
     /\ Len(visited) < RunMax
     /\ IF NoRoom(b)
        THEN CatchUp(noted)
        ELSE bb_cache' = noted /\ ptr' = ptr + 1 /\ UNCHANGED <<refs, cur, pre, delivered>>
     /\ visited' = Append(visited, NextContext(b))
     /\ recorded' = 0
     /\ UNCHANGED <<ended, lost, disturbed>>

(* The i-th reference of the k-th block that ran, and the address that is  *)
(* recorded for it: 0 when drutil_insert_get_mem_addr fails.               *)
Ref(k, i) == <<k, i>>
Address(k, i) == IF i \in NoAddr[Last(visited[k])] THEN NoRef ELSE Ref(k, i)

(* instrument_memory_cache_every_mem_access.                               *)
RecordRef ==
  /\ ~ended
  /\ owed > 0
  /\ mem' = [mem EXCEPT ![mem_ptr] = Address(Len(visited), recorded + 1)]
  /\ mem_ptr' = mem_ptr + 1
  /\ recorded' = recorded + 1
  /\ UNCHANGED <<cache, cur, pre, ended, history>>

(* refresh_per_thread_cct_tree, from the malloc wrappers, from kernel_xfer *)
(* and from drcctlib_get_context_handle_in_reg.  The running block may     *)
(* have recorded references.  They are cleared when no block before it has *)
(* any (start = 0), and a 0 among them ends the search for them early.     *)
Refresh ==
  LET c == InitStackCache(bb_cache)
      present == IF c[1] = NoBlock THEN {} ELSE 1 .. recorded
  IN /\ ~ended
     /\ CatchUp(bb_cache)
     /\ lost' = IF Drained(c).start > 0 THEN lost ELSE lost \cup {Ref(Len(visited), i) : i \in present}
     /\ disturbed' = (disturbed \/ \E i \in present : Address(Len(visited), i) = NoRef)
     /\ UNCHANGED <<ended, recorded, visited>>

(* drcctlib_event_thread_end: the same, and the running block ends.  The   *)
(* client is given none of its references.                                 *)
ThreadEnd ==
  LET c == InitStackCache(bb_cache)
      d == Drained(c)
  IN /\ ~ended
     /\ owed = 0
     /\ ended' = TRUE
     /\ cur' = d.cur
     /\ pre' = d.pre
     /\ delivered' = Append(delivered \o d.ends, BlockEnd(d.cur, <<>>))
     /\ UNCHANGED <<cache, refs, recorded, visited, lost, disturbed>>

Next == (\E b \in Block : EnterBB(b)) \/ RecordRef \/ Refresh \/ ThreadEnd

Spec == Init /\ [][Next]_vars

-----------------------------------------------------------------------------
(* The two pointers never leave their arrays, and when a block begins      *)
(* there is room for all the references it is still to record.             *)
InBounds ==
  /\ ptr \in BBIndex
  /\ bb_cache \in [BBIndex -> Block \cup {NoBlock}]
  /\ mem_ptr \in 0 .. INNER_MEM_REF_CACHE_MAX
  /\ mem_ptr + owed <= INNER_MEM_REF_CACHE_MAX

(* However long the thread leaves the tree behind, the node it is at and   *)
(* the blocks it has noted since lead to the context the application is    *)
(* in.                                                                     *)
CaughtUpExact ==
  ~ended /\ visited # <<>> => Drained(InitStackCache(bb_cache)).cur = running

(* The client is told of the end of every block exactly once, in the order *)
(* the blocks ran and under the context they ran in, however the noting    *)
(* and the catching up fell; the virtual root block comes first.           *)
EveryBlockReported ==
  LET expected == <<<<>>>> \o visited
  IN /\ Len(delivered) <= Len(expected)
     /\ \A i \in DOMAIN delivered : delivered[i].node = expected[i]
     /\ ended => Len(delivered) = Len(expected)

(* With it, it is given the references that this block has recorded, all   *)
(* of them, in order and no other block's, but for those that a refresh    *)
(* has cleared, and as long as the cache's memory was zero when new and no *)
(* refresh came upon an address of 0.  (The last block has none            *)
(* delivered.)                                                             *)
Given(k, i) == IF Ref(k, i) \in lost THEN NoRef ELSE Address(k, i)

RefsExact ==
  ~disturbed => \A i \in 2 .. Len(delivered) :
    ~(ended /\ i = Len(delivered)) =>
      delivered[i].addrs = [j \in 1 .. NumRefs(Last(visited[i - 1])) |-> Given(i - 1, j)]
=============================================================================
