-------------------------------- MODULE CCT --------------------------------
(***************************************************************************)
(* The calling-context tree of drcctlib in its default mode                *)
(* (DRCCTLIB_DEFAULT): before the first instruction of every instrumented  *)
(* basic block a clean call finds the block's node below the node of its   *)
(* caller, or creates it, and hands out one context handle per             *)
(* instrumented instruction of a new node.                                 *)
(*                                                                         *)
(* Each thread builds a tree of its own.  Threads share the supply of      *)
(* nodes, the counter of context handles and the table from handles to     *)
(* nodes, so a node is created in three steps: take an object, reserve     *)
(* handles with one atomic addition, fill the table.                       *)
(*                                                                         *)
(* Block is the set of block keys, EndState their end_ins_state.  owner,   *)
(* path and callPath are history variables: the thread and the context a   *)
(* node was created for and the context a thread is really in.             *)
(***************************************************************************)
EXTENDS AppPath, FiniteSets

CONSTANTS
  Thread,             \* threads of the application
  Slots,              \* bb_shadow_t.slot_num of a block
  Node,               \* the cct_bb_node_t objects the node caches can hand out
  NoNode,             \* NULL
  RootKey,            \* THREAD_ROOT_BB_SHARED_BB_KEY
  ContextHandleMax    \* CONTEXT_HANDLE_MAX

ASSUME BlockAssumption ==
  /\ EndState \in [Block -> {"call", "return", "plain"}]
  /\ Slots \in [Block -> Nat \ {0}]
  /\ RootKey \notin Block

ASSUME ThreadAssumption == Thread # {}

ASSUME NodeAssumption == NoNode \notin Node /\ IsFiniteSet(Node)

ASSUME HandleAssumption == ContextHandleMax \in Nat /\ ContextHandleMax > 2

VARIABLES
  idle_idx,   \* global_ip_node_buff_idle_idx: the next free context handle
  ip_node,    \* global_ip_node_buff[h].parent_bb_node
  used,       \* the objects the node caches have handed out
  bb_node,    \* the cct_bb_node_t records
  callee,     \* callee_splay_tree_root of every node, as the map it holds
  phase,      \* where each thread is
  making,     \* the node a thread is creating, or NoNode
  root,       \* per_thread_t.root_bb_node
  cur,        \* per_thread_t.cur_bb_node
  cur_idx,    \* per_thread_t.cur_bb_child_ctxt_start_idx
  pre,        \* per_thread_t.pre_instr_state
  aborted,    \* DRCCTLIB_EXIT_PROCESS was called
  owner,      \* history: the thread each node was created by
  path,       \* history: the calling context each node was created for
  callPath    \* history: the calling context each thread is really in

shared == <<idle_idx, ip_node, used, bb_node, callee>>
threads == <<phase, making, root, cur, cur_idx, pre>>
history == <<owner, path, callPath>>
vars == <<shared, threads, aborted, history>>

VALID_START_CTXT_HNDL == 2
THREAD_ROOT_SHARDED_CALLER_CONTEXT_HANDLE == 1

Handle == 0 .. ContextHandleMax - 1
Key == Block \cup {RootKey}
State == {"virtual", "call", "return", "plain"}

NullBB == [key |-> RootKey, parent_bb |-> NoNode, start |-> 0, max_slots |-> 0]
NoCallee == [b \in Block |-> NoNode]

parent(n) == bb_node[n].parent_bb

EndHandle(n) == bb_node[n].start + bb_node[n].max_slots - 1

(* The context handles of a node, one per instrumented instruction.        *)
Children(n) == {bb_node[n].start + i : i \in 0 .. bb_node[n].max_slots - 1}

-----------------------------------------------------------------------------
Init ==
  /\ idle_idx = VALID_START_CTXT_HNDL
  /\ ip_node = [h \in Handle |-> NoNode]
  /\ used = {}
  /\ bb_node = [n \in Node |-> NullBB]
  /\ callee = [n \in Node |-> NoCallee]
  /\ phase = [t \in Thread |-> "off"]
  /\ making = [t \in Thread |-> NoNode]
  /\ root = [t \in Thread |-> NoNode]
  /\ cur = [t \in Thread |-> NoNode]
  /\ cur_idx = [t \in Thread |-> 0]
  /\ pre = [t \in Thread |-> "virtual"]
  /\ aborted = FALSE
  /\ owner = [n \in Node |-> CHOOSE t \in Thread : TRUE]
  /\ path = [n \in Node |-> <<>>]
  /\ callPath = [t \in Thread |-> <<>>]

ExitProcess ==
  /\ aborted' = TRUE
  /\ UNCHANGED <<shared, threads, history>>

(* Mutant: the parent is not set.                                          *)
NewBBNoParent(key, caller, slots) ==
  [key |-> key, parent_bb |-> NoNode, start |-> 0, max_slots |-> slots]

(* A node as bb_node_create fills it in before it has handles.             *)
NewBB(key, caller, slots) ==
  [key |-> key, parent_bb |-> caller, start |-> 0, max_slots |-> slots]

(* The first half of bb_node_create: an object from the thread's node      *)
(* cache, its key and its parent.  The caches never hand out one object    *)
(* twice; when they have none left the process exits.                      *)
TakeNode(t, key, caller, slots, ctx) ==
  LET n == CHOOSE m \in Node : m \notin used
  IN IF used = Node
     THEN ExitProcess
     ELSE /\ used' = used \cup {n}
          /\ bb_node' = [bb_node EXCEPT ![n] = NewBB(key, caller, slots)]
          /\ callee' = [callee EXCEPT ![n] = NoCallee]
          /\ making' = [making EXCEPT ![t] = n]
          /\ phase' = [phase EXCEPT ![t] = "reserve"]
          /\ owner' = [owner EXCEPT ![n] = t]
          /\ path' = [path EXCEPT ![n] = ctx]
          /\ UNCHANGED <<idle_idx, ip_node, root, cur, cur_idx, pre, aborted>>

(* drcctlib_event_thread_start: pt_init creates the thread's root, a node  *)
(* with one slot and no parent.                                            *)
ThreadStart(t) ==
  /\ phase[t] = "off"
  /\ TakeNode(t, RootKey, NoNode, 1, <<>>)
  /\ UNCHANGED callPath

(* Mutant: the last handle is not kept back.                               *)
ExhaustedLate(next_start_idx) == next_start_idx > ContextHandleMax + 1

(* Mutant: one is subtracted from the sum instead of the slots added.      *)
FirstHandleOfSum(next_start_idx, n) == next_start_idx - 1

(* The sum the atomic addition returns, checked and turned into the first  *)
(* of the handles it has reserved.                                         *)
Exhausted(next_start_idx) == next_start_idx >= ContextHandleMax
FirstHandle(next_start_idx, n) == next_start_idx - bb_node[n].max_slots

(* cur_child_ctxt_start_idx: one atomic addition reserves the handles of   *)
(* the node; reaching CONTEXT_HANDLE_MAX ends the process.                 *)
ReserveHandles(t) ==
  LET n == making[t]
      next_start_idx == idle_idx + bb_node[n].max_slots
  IN /\ phase[t] = "reserve"
     /\ idle_idx' = next_start_idx
     /\ IF Exhausted(next_start_idx)
        THEN aborted' = TRUE /\ UNCHANGED <<bb_node, phase>>
        ELSE /\ bb_node' = [bb_node EXCEPT ![n].start = FirstHandle(next_start_idx, n)]
             /\ phase' = [phase EXCEPT ![t] = "fill"]
             /\ UNCHANGED aborted
     /\ UNCHANGED <<ip_node, used, callee, making, root, cur, cur_idx, pre, history>>

(* Mutant: the loop stops before the last handle.                          *)
FillAllButLast(n) ==
  ip_node' = [h \in Handle |->
                IF h \in Children(n) /\ h + 1 \in Children(n) THEN n ELSE ip_node[h]]

(* The loop of bb_node_create over the handles of the new node.            *)
FillChildren(n) ==
  ip_node' = [h \in Handle |-> IF h \in Children(n) THEN n ELSE ip_node[h]]

(* Mutant: the state the previous block ended with is kept after a return. *)
MoveToKeepState(t, n, state) ==
  /\ cur' = [cur EXCEPT ![t] = n]
  /\ cur_idx' = [cur_idx EXCEPT ![t] = bb_node[n].start]
  /\ pre' = [pre EXCEPT ![t] = IF @ = "return" THEN @ ELSE state]

(* The thread goes on in node n.                                           *)
MoveTo(t, n, state) ==
  /\ cur' = [cur EXCEPT ![t] = n]
  /\ cur_idx' = [cur_idx EXCEPT ![t] = bb_node[n].start]
  /\ pre' = [pre EXCEPT ![t] = state]

(* The end of pt_init.                                                     *)
FinishRoot(t) ==
  LET n == making[t]
  IN /\ phase[t] = "fill"
     /\ bb_node[n].key = RootKey
     /\ FillChildren(n)
     /\ root' = [root EXCEPT ![t] = n]
     /\ MoveTo(t, n, "virtual")
     /\ making' = [making EXCEPT ![t] = NoNode]
     /\ phase' = [phase EXCEPT ![t] = "run"]
     /\ UNCHANGED <<idle_idx, used, bb_node, callee, aborted, history>>

-----------------------------------------------------------------------------
(* Mutant: a return goes on below the caller's block, not beside it.       *)
CallerNodeOneUp(t) ==
  CASE pre[t] = "virtual" -> root[t]
    [] pre[t] = "call"    -> cur[t]
    [] OTHER              -> parent(cur[t])

(* The node that called the block about to run, from how the previous      *)
(* block of the thread ended.  A return from the outermost frame stays     *)
(* below the root.                                                         *)
CallerNode(t) ==
  CASE pre[t] = "virtual" -> root[t]
    [] pre[t] = "call"    -> cur[t]
    [] pre[t] = "return"  -> IF parent(cur[t]) = root[t]
                             THEN parent(cur[t])
                             ELSE parent(parent(cur[t]))
    [] OTHER              -> parent(cur[t])

(* The context a new child of node n stands for.                           *)
ChildPath(n, b) == Append(path[n], b)

(* instrument_before_bb_first_instr when the caller's tree holds the block.*)
EnterKnownBB(t, b) ==
  LET n == callee[CallerNode(t)][b]
  IN /\ phase[t] = "run"
     /\ n # NoNode
     /\ MoveTo(t, n, EndState[b])
     /\ callPath' = [callPath EXCEPT ![t] = Enter(@, b)]
     /\ UNCHANGED <<shared, phase, making, root, aborted, owner, path>>

(* The same when it does not: a node is taken for it.                      *)
EnterNewBB(t, b) ==
  /\ phase[t] = "run"
  /\ callee[CallerNode(t)][b] = NoNode
  /\ TakeNode(t, b, CallerNode(t), Slots[b], ChildPath(CallerNode(t), b))
  /\ callPath' = IF used = Node THEN callPath
                 ELSE [callPath EXCEPT ![t] = Enter(@, b)]

(* Mutant: the node is hung below the current node.                        *)
HangBelowCur(t, n) ==
  callee' = [callee EXCEPT ![cur[t]][bb_node[n].key] = n]

(* The new root of the caller's splay tree holds the node.                 *)
Hang(t, n) ==
  callee' = [callee EXCEPT ![parent(n)][bb_node[n].key] = n]

(* The rest of the clean call once the node has its handles: the node is   *)
(* hung below its caller and becomes the current one.                      *)
FinishBB(t) ==
  LET n == making[t]
      b == bb_node[n].key
  IN /\ phase[t] = "fill"
     /\ b # RootKey
     /\ FillChildren(n)
     /\ Hang(t, n)
     /\ MoveTo(t, n, EndState[b])
     /\ making' = [making EXCEPT ![t] = NoNode]
     /\ phase' = [phase EXCEPT ![t] = "run"]
     /\ UNCHANGED <<idle_idx, used, bb_node, root, aborted, history>>

(* Mutant: the objects the thread has used are given back as well.         *)
GiveBackAll(t) == used' = {n \in used : owner[n] # t}

(* free_unuse_object gives back the objects the thread has not used.       *)
GiveBack(t) == UNCHANGED used

(* drcctlib_event_thread_end: in this mode only the unused objects of the  *)
(* thread's caches are given back; its nodes stay for the other threads    *)
(* and for the reports at exit.                                            *)
ThreadEnd(t) ==
  /\ phase[t] = "run"
  /\ phase' = [phase EXCEPT ![t] = "ended"]
  /\ GiveBack(t)
  /\ UNCHANGED <<idle_idx, ip_node, bb_node, callee, making, root, cur, cur_idx, pre,
                 aborted, history>>

Step(t) ==
  \/ ThreadStart(t)
  \/ ReserveHandles(t)
  \/ FinishRoot(t)
  \/ \E b \in Block : EnterKnownBB(t, b)
  \/ \E b \in Block : EnterNewBB(t, b)
  \/ FinishBB(t)
  \/ ThreadEnd(t)

Next == ~aborted /\ \E t \in Thread : Step(t)

Spec == Init /\ [][Next]_vars

-----------------------------------------------------------------------------
(***************************************************************************)
(* Properties                                                              *)
(***************************************************************************)

TypeOK ==
  /\ idle_idx \in Nat
  /\ ip_node \in [Handle -> Node \cup {NoNode}]
  /\ used \subseteq Node
  /\ bb_node \in [Node -> [key : Key, parent_bb : Node \cup {NoNode},
                           start : Handle, max_slots : Nat]]
  /\ callee \in [Node -> [Block -> Node \cup {NoNode}]]
  /\ phase \in [Thread -> {"off", "reserve", "fill", "run", "ended"}]
  /\ making \in [Thread -> Node \cup {NoNode}]
  /\ root \in [Thread -> Node \cup {NoNode}]
  /\ cur \in [Thread -> Node \cup {NoNode}]
  /\ cur_idx \in [Thread -> Handle]
  /\ pre \in [Thread -> State]
  /\ aborted \in BOOLEAN
  /\ owner \in [Node -> Thread]
  /\ path \in [Node -> Seq(Block)]
  /\ callPath \in [Thread -> Seq(Block)]

(* The nodes that hang in a tree, and those that own their handles.        *)
Live == used \ {making[t] : t \in Thread}
Reserved == used \ {making[t] : t \in {u \in Thread : phase[u] = "reserve"}}

(* Threads that reserve at the same time never share a handle, and no      *)
(* handle is one of the two that mean "none" and "above the root".         *)
HandlesDisjoint ==
  \A m, n \in Reserved :
    /\ Children(n) \subseteq VALID_START_CTXT_HNDL .. idle_idx - 1
    /\ m # n => Children(m) \cap Children(n) = {}

(* Whatever the other threads are creating meanwhile, every handle of a    *)
(* node in the tree leads back to that node: ctxt_hndl_parent_bb_node.     *)
HandleResolves ==
  \A n \in Live : \A h \in Children(n) : ip_node[h] = n

LiveHandles == UNION {Children(n) : n \in Live}

(* bb_node_caller_ctxt_hndl of the node a handle leads to: the last handle *)
(* of its parent.                                                          *)
CallerHandle(h) ==
  LET p == parent(ip_node[h])
  IN IF p = NoNode THEN THREAD_ROOT_SHARDED_CALLER_CONTEXT_HANDLE ELSE EndHandle(p)

(* The blocks on the way from a handle to the thread's root, outermost     *)
(* first: the loop of drcctlib_get_cct, from handle to node to handle.     *)
Backtrace(h) ==
  LET walk[k \in 0 .. Cardinality(Node)] ==
        [g \in LiveHandles |->
           IF k = 0 \/ CallerHandle(g) = THREAD_ROOT_SHARDED_CALLER_CONTEXT_HANDLE THEN <<>>
           ELSE Append(walk[k - 1][CallerHandle(g)], bb_node[ip_node[g]].key)]
  IN walk[Cardinality(Node)][h]

(* That walk recovers, from every handle of a node, the context the node   *)
(* was created for.                                                        *)
BacktraceExact ==
  \A n \in Live : \A h \in Children(n) : Backtrace(h) = path[n]

(* The node a running thread is at stands for the calling context the      *)
(* application is really in, it is in the thread's own tree, and the first *)
(* of its handles is where client callbacks count from.                    *)
ContextExact ==
  \A t \in Thread : phase[t] \in {"run", "ended"} =>
    /\ owner[cur[t]] = t
    /\ path[cur[t]] = callPath[t]
    /\ cur_idx[t] = bb_node[cur[t]].start

(* Equal contexts of a thread share one node, so a context has one set of  *)
(* handles and metrics that are gathered per handle are not split.         *)
OneNodePerContext ==
  \A m, n \in Live : owner[m] = owner[n] /\ path[m] = path[n] => m = n

(* A node once in a tree keeps its block, parent and handles: handles that *)
(* clients keep in their own tables stay meaningful to the end.            *)
HandlesStable == [][\A n \in Live : n \in Live' /\ bb_node'[n] = bb_node[n]]_vars

(* The tree implements the abstract dictionary of calling contexts.        *)
Context(n) == <<owner[n], path[n]>>
NodeOf(c) == CHOOSE n \in Live : Context(n) = c

absPath == [t \in Thread |-> IF cur[t] = NoNode THEN <<>> ELSE path[cur[t]]]
absId == [c \in {Context(n) : n \in Live} |-> bb_node[NodeOf(c)].start]

CC == INSTANCE CallContext WITH path <- absPath, id <- absId

Implements == CC!Spec
=============================================================================
