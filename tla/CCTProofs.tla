----------------------------- MODULE CCTProofs -----------------------------
(***************************************************************************)
(* Proofs about CCT, for any number of threads, blocks, nodes and handles. *)
(*                                                                         *)
(* The inductive invariant IInv has two parts.  ShapeInv is what signals   *)
(* do not disturb: the types, what a thread's phase says of its variables, *)
(* the shape of the trees (every live node is a root or hangs below a live *)
(* node of the same thread, which knows it), the node a thread is creating *)
(* and the ranges of context handles.  ContextInv says that the node a     *)
(* thread is at stands for the context the application is in.              *)
(***************************************************************************)
EXTENDS CCTSignal, SequenceTheorems, DataInduction

Busy(t) == phase[t] \in {"reserve", "fill"}
MakingRoot(t) == Busy(t) /\ bb_node[making[t]].key = RootKey
MakingBB(t) == Busy(t) /\ bb_node[making[t]].key # RootKey

IsRoot(n) ==
  /\ n = root[owner[n]]
  /\ bb_node[n].key = RootKey
  /\ parent(n) = NoNode
  /\ path[n] = <<>>

(* A thread with a root stands at a live node of its tree.                 *)
AtNode(t) ==
  /\ root[t] \in Live /\ owner[root[t]] = t /\ IsRoot(root[t])
  /\ cur[t] \in Live /\ owner[cur[t]] = t

ThreadOK(t) ==
  /\ IF Busy(t) THEN making[t] \in used /\ owner[making[t]] = t ELSE making[t] = NoNode
  /\ phase[t] = "off" => \A n \in used : owner[n] # t
  /\ MakingRoot(t) => \A n \in used : owner[n] = t => n = making[t]
  /\ phase[t] = "off" \/ MakingRoot(t) => root[t] = NoNode /\ cur[t] = NoNode
  /\ phase[t] \in {"run", "ended"} \/ MakingBB(t) => AtNode(t)

ThreadInv == \A t \in Thread : ThreadOK(t)

(* A node that is, or is about to be, a child of its parent.               *)
Below(n) ==
  /\ bb_node[n].key \in Block
  /\ parent(n) \in Live
  /\ owner[parent(n)] = owner[n]
  /\ path[n] = Append(path[parent(n)], bb_node[n].key)

TreeInv ==
  /\ \A n \in Live : IsRoot(n) \/ (Below(n) /\ callee[parent(n)][bb_node[n].key] = n)
  /\ \A n \in used, b \in Block :
       callee[n][b] # NoNode =>
         callee[n][b] \in Live /\ parent(callee[n][b]) = n /\ bb_node[callee[n][b]].key = b

MakingOK(t) ==
  /\ MakingRoot(t) => parent(making[t]) = NoNode /\ path[making[t]] = <<>>
  /\ MakingBB(t) =>
       /\ Below(making[t])
       /\ callee[parent(making[t])][bb_node[making[t]].key] = NoNode

MakingInv == \A t \in Thread : MakingOK(t)

HandleInv ==
  /\ idle_idx >= VALID_START_CTXT_HNDL
  /\ \A n \in used : bb_node[n].max_slots > 0
  /\ \A n \in Reserved :
       /\ VALID_START_CTXT_HNDL <= bb_node[n].start
       /\ bb_node[n].start + bb_node[n].max_slots <= idle_idx
       /\ bb_node[n].start + bb_node[n].max_slots < ContextHandleMax
  /\ \A m, n \in Reserved : m # n =>
       \/ bb_node[m].start + bb_node[m].max_slots <= bb_node[n].start
       \/ bb_node[n].start + bb_node[n].max_slots <= bb_node[m].start
  /\ \A n \in Live : \A h \in Handle :
       bb_node[n].start <= h /\ h < bb_node[n].start + bb_node[n].max_slots
         => ip_node[h] = n

ShapeInv == TypeOK /\ ThreadInv /\ TreeInv /\ OneNodePerContext /\ MakingInv /\ HandleInv

(* The node of a thread stands for its context, pre_instr_state is how the *)
(* block of that node ends, and a node that is made for a block stands for *)
(* the context the block was entered in.                                   *)
ContextOK(t) ==
  /\ phase[t] = "off" \/ MakingRoot(t) => callPath[t] = <<>>
  /\ phase[t] \in {"run", "ended"} \/ MakingBB(t) =>
       pre[t] = IF cur[t] = root[t] THEN "virtual" ELSE EndState[bb_node[cur[t]].key]
  /\ phase[t] \in {"run", "ended"} =>
       path[cur[t]] = callPath[t] /\ cur_idx[t] = bb_node[cur[t]].start
  /\ MakingBB(t) =>
       /\ callPath[t] = path[making[t]]
       /\ path[making[t]] = Enter(path[cur[t]], bb_node[making[t]].key)

ContextInv == \A t \in Thread : ContextOK(t)

IInv == ShapeInv /\ ContextInv

-----------------------------------------------------------------------------
(* What Last and Front of SequencesExt do to an appended sequence.         *)
LEMMA AppendLastFront ==
  ASSUME NEW S, NEW s \in Seq(S), NEW e \in S
  PROVE  /\ Append(s, e) \in Seq(S)
         /\ Append(s, e) # <<>>
         /\ Len(Append(s, e)) = Len(s) + 1
         /\ Last(Append(s, e)) = e
         /\ Front(Append(s, e)) = s
<1>1. /\ Append(s, e) \in Seq(S)
      /\ Append(s, e) # <<>>
      /\ Len(Append(s, e)) = Len(s) + 1
      /\ Append(s, e)[Len(s) + 1] = e
      /\ \A i \in 1 .. Len(s) : Append(s, e)[i] = s[i]
  BY AppendProperties
<1>2. Last(Append(s, e)) = e
  BY <1>1 DEF Last
<1>3. Front(Append(s, e)) = s
  BY <1>1 DEF Front
<1> QED
  BY <1>1, <1>2, <1>3

LEMMA FrontOfSeq ==
  ASSUME NEW S, NEW s \in Seq(S), s # <<>>
  PROVE  Front(s) \in Seq(S) /\ Len(Front(s)) = Len(s) - 1 /\ Len(s) \in Nat
<1>1. Len(s) \in Nat /\ Len(s) # 0 /\ s \in [1 .. Len(s) -> S]
  BY EmptySeq, LenProperties
<1>2. Front(s) = SubSeq(s, 1, Len(s) - 1)
  BY DEF Front
<1> DEFINE k == Len(s) - 1
<1>3. k \in Nat /\ \A i \in 1 .. k : s[i] \in S
  BY <1>1
<1> HIDE DEF k
<1>4. SubSeq(s, 1, k) \in Seq(S) /\ Len(SubSeq(s, 1, k)) = IF 1 <= k THEN k - 1 + 1 ELSE 0
  BY <1>3, SubSeqProperties
<1>5. Len(SubSeq(s, 1, k)) = k
  BY <1>3, <1>4
<1> QED
  BY <1>1, <1>2, <1>4, <1>5 DEF k

(* A context and the context above it end in different places.             *)
LEMMA EmptyOrLonger ==
  ASSUME NEW S, NEW s \in Seq(S)
  PROVE  s = <<>> <=> Len(s) = 0
BY EmptySeq

(* The initial state satisfies every part.                                 *)
LEMMA InitIInv == Init => IInv
<1> SUFFICES ASSUME Init PROVE IInv
  OBVIOUS
<1>1. TypeOK
  <2>1. (CHOOSE t \in Thread : TRUE) \in Thread
    BY ThreadAssumption
  <2> QED
    BY <2>1, HandleAssumption, SMTT(30) DEF Init, TypeOK, Handle, Key, State, NullBB, NoCallee,
       VALID_START_CTXT_HNDL
<1>2. ThreadInv
  BY DEF Init, ThreadInv, ThreadOK, Busy, MakingRoot, MakingBB, AtNode
<1>3. TreeInv /\ OneNodePerContext
  BY DEF Init, TreeInv, OneNodePerContext, Live
<1>4. MakingInv
  BY DEF Init, MakingInv, MakingOK, MakingRoot, MakingBB, Busy
<1>5. HandleInv
  BY DEF Init, HandleInv, Live, Reserved, VALID_START_CTXT_HNDL
<1>6. ContextInv
  BY DEF Init, ContextInv, ContextOK, MakingRoot, MakingBB, Busy
<1> QED
  BY <1>1, <1>2, <1>3, <1>4, <1>5, <1>6 DEF IInv, ShapeInv

-----------------------------------------------------------------------------
(* Every node of a thread's tree but its root hangs below another one.     *)
LEMMA NonRootBelow ==
  ASSUME ShapeInv, NEW t \in Thread, AtNode(t),
         NEW n \in Live, owner[n] = t, n # root[t]
  PROVE  /\ bb_node[n].key \in Block
         /\ parent(n) \in Live /\ owner[parent(n)] = t
         /\ path[parent(n)] \in Seq(Block)
         /\ path[n] = Append(path[parent(n)], bb_node[n].key)
         /\ path[n] # <<>>
<1>1. Below(n)
  BY DEF ShapeInv, TreeInv, IsRoot
<1>2. bb_node[n].key \in Block /\ parent(n) \in Live /\ owner[parent(n)] = t
      /\ path[n] = Append(path[parent(n)], bb_node[n].key)
  BY <1>1 DEF Below
<1>3. path[parent(n)] \in Seq(Block)
  BY <1>2 DEF ShapeInv, TypeOK, Live
<1> QED
  BY <1>2, <1>3, AppendLastFront

(* The caller's node hangs in the tree of the thread, unless the thread    *)
(* has come back to its root from a block that did not call.               *)
CallerLive(t) == CallerNode(t) \in Live /\ owner[CallerNode(t)] = t

LEMMA CallerIsLive ==
  ASSUME ShapeInv, NEW t \in Thread, phase[t] = "run", ~NullCaller(t)
  PROVE  CallerLive(t)
<1> DEFINE c == cur[t]
           r == root[t]
           p == parent(c)
<1>1. /\ AtNode(t) /\ pre[t] \in State
      /\ c \in Live /\ r \in Live /\ owner[c] = t /\ owner[r] = t
  BY DEF ShapeInv, TypeOK, ThreadInv, ThreadOK, AtNode
<1>2. CASE pre[t] \in {"virtual", "call"}
  BY <1>1, <1>2 DEF CallerNode, CallerLive
<1>3. CASE pre[t] \in {"return", "plain"}
  <2>1. c # r
    BY <1>3 DEF NullCaller
  <2>2. p \in Live /\ owner[p] = t
    BY <1>1, <2>1, NonRootBelow
  <2>3. CASE pre[t] = "plain"
    BY <2>2, <2>3 DEF CallerNode, CallerLive
  <2>4. CASE pre[t] = "return" /\ p = r
    BY <2>2, <2>4 DEF CallerNode, CallerLive
  <2>5. CASE pre[t] = "return" /\ p # r
    <3>1. parent(p) \in Live /\ owner[parent(p)] = t
      BY <1>1, <2>2, <2>5, NonRootBelow
    <3> QED
      BY <2>5, <3>1 DEF CallerNode, CallerLive
  <2> QED
    BY <1>3, <2>3, <2>4, <2>5
<1> QED
  BY <1>1, <1>2, <1>3 DEF State

(* Where a block is entered: the caller's node is live, belongs to the     *)
(* thread and stands for the new context without the block.  This is where *)
(* the rule for calls, returns and plain transfers is checked.             *)
LEMMA CallerExact ==
  ASSUME IInv, NEW t \in Thread, NEW b \in Block, phase[t] = "run"
  PROVE  /\ CallerNode(t) \in Live
         /\ owner[CallerNode(t)] = t
         /\ Enter(callPath[t], b) = Append(path[CallerNode(t)], b)
<1> DEFINE c == cur[t]
           r == root[t]
           p == parent(c)
<1>1. AtNode(t) /\ path[c] = callPath[t]
  BY DEF IInv, ShapeInv, ThreadInv, ThreadOK, ContextInv, ContextOK
<1>2. /\ c \in Live /\ r \in Live /\ owner[c] = t /\ owner[r] = t
      /\ path[r] = <<>>
      /\ pre[t] = IF c = r THEN "virtual" ELSE EndState[bb_node[c].key]
  BY <1>1 DEF AtNode, IsRoot, IInv, ContextInv, ContextOK
<1>3. CASE c = r
  <2>1. CallerNode(t) = r
    BY <1>2, <1>3 DEF CallerNode
  <2>2. Enter(callPath[t], b) = <<b>> /\ <<b>> = Append(path[r], b)
    BY <1>1, <1>2, <1>3 DEF Enter
  <2> QED
    BY <2>1, <2>2, <1>2
<1>4. CASE c # r
  <2> DEFINE k == bb_node[c].key
  <2>1. /\ k \in Block /\ p \in Live /\ owner[p] = t
        /\ path[p] \in Seq(Block)
        /\ path[c] = Append(path[p], k)
        /\ path[c] # <<>>
    BY <1>1, <1>2, <1>4, NonRootBelow DEF IInv
  <2>2. Last(path[c]) = k /\ Front(path[c]) = path[p] /\ Len(path[c]) = Len(path[p]) + 1
    BY <2>1, AppendLastFront
  <2>3. pre[t] = EndState[k] /\ EndState[k] \in {"call", "return", "plain"}
    BY <1>2, <1>4, <2>1, BlockAssumption
  <2> HIDE DEF k
  <2>4. Enter(callPath[t], b) =
          CASE EndState[k] = "call" -> Append(path[c], b)
            [] EndState[k] = "return" /\ Len(path[c]) > 1 ->
                 Append(Front(path[p]), b)
            [] OTHER -> Append(path[p], b)
    BY <1>1, <2>1, <2>2 DEF Enter
  <2>5. CASE EndState[k] = "call"
    BY <2>3, <2>4, <2>5, <1>2 DEF CallerNode
  <2>6. CASE EndState[k] = "plain"
    <3>1. CallerNode(t) = p
      BY <2>3, <2>6 DEF CallerNode
    <3> QED
      BY <3>1, <2>1, <2>4, <2>6
  <2>7. CASE EndState[k] = "return" /\ p = r
    <3>1. CallerNode(t) = p
      BY <2>3, <2>7 DEF CallerNode
    <3>2. Len(path[c]) = 1
      BY <2>1, <2>2, <2>7, <1>2
    <3> QED
      BY <3>1, <3>2, <2>1, <2>4, <2>7
  <2>8. CASE EndState[k] = "return" /\ p # r
    <3> DEFINE q == parent(p)
    <3>1. CallerNode(t) = q
      BY <2>3, <2>8 DEF CallerNode
    <3>2. /\ q \in Live /\ owner[q] = t
          /\ path[q] \in Seq(Block) /\ bb_node[p].key \in Block
          /\ path[p] = Append(path[q], bb_node[p].key)
      BY <1>1, <2>1, <2>8, NonRootBelow DEF IInv
    <3>3. Front(path[p]) = path[q] /\ Len(path[p]) = Len(path[q]) + 1 /\ Len(path[q]) \in Nat
      BY <3>2, AppendLastFront
    <3>4. Len(path[c]) > 1
      BY <2>2, <3>3
    <3> QED
      BY <3>1, <3>2, <3>3, <3>4, <2>4, <2>8
  <2> QED
    BY <2>3, <2>5, <2>6, <2>7, <2>8
<1> QED
  BY <1>3, <1>4

-----------------------------------------------------------------------------
(* No two threads make the same node.                                      *)
LEMMA MakingDistinct ==
  ASSUME ShapeInv, NEW t \in Thread, Busy(t)
  PROVE  /\ making[t] \in used /\ making[t] \in Node /\ making[t] \notin Live
         /\ owner[making[t]] = t
         /\ \A u \in Thread : u # t => making[u] # making[t]
BY NodeAssumption DEF ShapeInv, TypeOK, ThreadInv, ThreadOK, Live

(* What a thread is making is not disturbed by steps that leave alone the  *)
(* thread, its node and the live nodes.                                    *)
LEMMA MakingFrame ==
  ASSUME ShapeInv, NEW u \in Thread, Busy(u)' => Busy(u),
         making'[u] = making[u],
         Live \subseteq Live',
         \A m \in Live \cup {making[u]} :
            /\ bb_node'[m].key = bb_node[m].key /\ bb_node'[m].parent_bb = bb_node[m].parent_bb
            /\ owner'[m] = owner[m] /\ path'[m] = path[m],
         \A m \in Live : m = parent(making[u]) =>
            callee'[m][bb_node[making[u]].key] = callee[m][bb_node[making[u]].key]
  PROVE  MakingOK(u)'
<1>1. PICK n : n = making[u]
  OBVIOUS
<1>2. MakingOK(u) /\ ThreadOK(u)
  BY DEF ShapeInv, MakingInv, ThreadInv
<1>3. making'[u] = n /\ bb_node'[n].key = bb_node[n].key /\ parent(n)' = parent(n)
      /\ owner'[n] = owner[n] /\ path'[n] = path[n]
  BY <1>1 DEF parent
<1>4. ASSUME MakingRoot(u)' PROVE (parent(making[u]) = NoNode /\ path[making[u]] = <<>>)'
  <2>1. MakingRoot(u)
    BY <1>1, <1>3, <1>4 DEF MakingRoot
  <2> QED
    BY <2>1, <1>1, <1>2, <1>3 DEF MakingOK, parent
<1>5. ASSUME MakingBB(u)'
      PROVE  (/\ Below(making[u])
              /\ callee[parent(making[u])][bb_node[making[u]].key] = NoNode)'
  <2>1. MakingBB(u)
    BY <1>1, <1>3, <1>5 DEF MakingBB
  <2>2. /\ Below(n) /\ callee[parent(n)][bb_node[n].key] = NoNode
    BY <2>1, <1>1, <1>2 DEF MakingOK
  <2>3. parent(n) \in Live
        /\ owner'[parent(n)] = owner[parent(n)] /\ path'[parent(n)] = path[parent(n)]
    BY <2>2 DEF Below
  <2>4. Below(n)'
    BY <2>2, <2>3, <1>3 DEF Below
  <2>5. callee'[parent(n)][bb_node[n].key] = NoNode
    BY <2>2, <2>3, <1>1
  <2> QED
    BY <2>4, <2>5, <1>3 DEF parent
<1> QED
  BY <1>4, <1>5 DEF MakingOK

(* What taking node n does: it sets up the node the thread is making, and  *)
(* the trees and the handles stay as they were.                            *)
Took(t, n, bb, ctx) ==
  /\ n \in Node /\ n \notin used /\ used' = used \cup {n}
  /\ making' = [making EXCEPT ![t] = n]
  /\ phase' = [phase EXCEPT ![t] = "reserve"]
  /\ bb_node' = [bb_node EXCEPT ![n] = bb]
  /\ callee' = [callee EXCEPT ![n] = NoCallee]
  /\ owner' = [owner EXCEPT ![n] = t]
  /\ path' = [path EXCEPT ![n] = ctx]
  /\ UNCHANGED <<idle_idx, ip_node, root, cur, cur_idx, pre, aborted>>
  /\ Live' = Live /\ Reserved' = Reserved
  /\ Reserved \subseteq used /\ Live \subseteq used /\ used \subseteq Node

LEMMA TakeNodeFrame ==
  ASSUME ShapeInv, NEW t \in Thread, ~Busy(t), NEW key, NEW caller, NEW slots, NEW ctx,
         TakeNode(t, key, caller, slots, ctx), used # Node
  PROVE  \E n \in Node : Took(t, n, NewBB(key, caller, slots), ctx)
<1> DEFINE n == CHOOSE m \in Node : m \notin used
<1>1. used \subseteq Node /\ making \in [Thread -> Node \cup {NoNode}]
      /\ phase \in [Thread -> {"off", "reserve", "fill", "run", "ended"}]
      /\ making[t] = NoNode
  BY DEF ShapeInv, TypeOK, ThreadInv, ThreadOK
<1>2. n \in Node /\ n \notin used
  BY <1>1
<1> HIDE DEF n
<1>3. /\ used' = used \cup {n}
      /\ bb_node' = [bb_node EXCEPT ![n] = NewBB(key, caller, slots)]
      /\ callee' = [callee EXCEPT ![n] = NoCallee]
      /\ making' = [making EXCEPT ![t] = n]
      /\ phase' = [phase EXCEPT ![t] = "reserve"]
      /\ owner' = [owner EXCEPT ![n] = t]
      /\ path' = [path EXCEPT ![n] = ctx]
      /\ UNCHANGED <<idle_idx, ip_node, root, cur, cur_idx, pre, aborted>>
  BY DEF TakeNode, n
<1>4. Live' = Live
  BY <1>1, <1>2, <1>3, NodeAssumption DEF Live
<1>5. Reserved' = Reserved
  BY <1>1, <1>2, <1>3, NodeAssumption DEF Reserved, Busy
<1>6. Reserved \subseteq used /\ Live \subseteq used
  BY DEF Live, Reserved
<1>7. Took(t, n, NewBB(key, caller, slots), ctx)
  BY <1>1, <1>2, <1>3, <1>4, <1>5, <1>6 DEF Took
<1> QED
  BY <1>2, <1>7

(* So it preserves what the invariant says of trees and handles.           *)
LEMMA TookInv ==
  ASSUME ShapeInv, NEW t \in Thread, ~Busy(t), NEW n \in Node, NEW key \in Key,
         NEW caller \in Node \cup {NoNode}, NEW slots \in Nat \ {0}, NEW ctx \in Seq(Block),
         Took(t, n, NewBB(key, caller, slots), ctx), callPath' \in [Thread -> Seq(Block)]
  PROVE  TypeOK' /\ TreeInv' /\ OneNodePerContext' /\ HandleInv'
<1> DEFINE bb == NewBB(key, caller, slots)
<1>2. bb \in [key : Key, parent_bb : Node \cup {NoNode}, start : Handle, max_slots : Nat]
      /\ bb.max_slots > 0
  BY HandleAssumption DEF NewBB, Handle
<1> HIDE DEF bb
<1>1. Took(t, n, bb, ctx)
  BY DEF bb
<1>3. TypeOK
  BY DEF ShapeInv
<1>4. \A m \in used : /\ m # n /\ m \in Node
                      /\ bb_node'[m] = bb_node[m] /\ callee'[m] = callee[m]
                      /\ owner'[m] = owner[m] /\ path'[m] = path[m]
  BY <1>1, <1>3 DEF TypeOK, Took
<1>5. TypeOK'
  BY <1>1, <1>2, <1>3, SMTT(30) DEF TypeOK, NoCallee, Took
<1>6. TreeInv'
  <2>1. \A m \in Live : IsRoot(m) => IsRoot(m)'
    BY <1>1, <1>4 DEF IsRoot, parent, Took
  <2>2. \A m \in Live : Below(m) /\ callee[parent(m)][bb_node[m].key] = m
                          => (Below(m) /\ callee[parent(m)][bb_node[m].key] = m)'
    <3> SUFFICES ASSUME NEW m \in Live, Below(m), callee[parent(m)][bb_node[m].key] = m
                 PROVE  (Below(m) /\ callee[parent(m)][bb_node[m].key] = m)'
      OBVIOUS
    <3>1. m \in used /\ parent(m) \in used
      BY <1>1 DEF Below, Took
    <3>2. bb_node'[m] = bb_node[m] /\ parent(m)' = parent(m) /\ Live' = Live
      BY <3>1, <1>1, <1>4 DEF parent, Took
    <3>3. owner'[parent(m)] = owner[parent(m)] /\ path'[parent(m)] = path[parent(m)]
          /\ callee'[parent(m)] = callee[parent(m)] /\ owner'[m] = owner[m] /\ path'[m] = path[m]
      BY <3>1, <1>4
    <3> QED
      BY <3>2, <3>3 DEF Below
  <2>3. \A b \in Block : callee'[n][b] = NoNode
    BY <1>1, <1>3 DEF TypeOK, NoCallee, Took
  <2> QED
    BY <1>1, <1>4, <2>1, <2>2, <2>3 DEF ShapeInv, TreeInv, parent, Took
<1>7. OneNodePerContext'
  <2>1. Live' = Live /\ Live \subseteq used
    BY <1>1 DEF Took, Live
  <2>2. \A m \in Live : owner'[m] = owner[m] /\ path'[m] = path[m]
    BY <2>1, <1>4
  <2>3. OneNodePerContext
    BY DEF ShapeInv
  <2> QED
    BY <2>1, <2>2, <2>3 DEF OneNodePerContext
<1>8. HandleInv'
  <2>1. bb_node'[n].max_slots > 0
    BY <1>1, <1>2, <1>3 DEF TypeOK, Took
  <2>2. \A m \in used : bb_node'[m] = bb_node[m]
    BY <1>4
  <2>3. /\ Live' = Live /\ Reserved' = Reserved /\ used' = used \cup {n}
        /\ Live \subseteq used /\ Reserved \subseteq used
        /\ idle_idx' = idle_idx /\ ip_node' = ip_node
    BY <1>1 DEF Took
  <2>4. HandleInv
    BY DEF ShapeInv
  <2>5. (\A m \in used : bb_node[m].max_slots > 0)'
    BY <2>1, <2>2, <2>3, <2>4 DEF HandleInv
  <2> QED
    BY <2>2, <2>3, <2>4, <2>5 DEF HandleInv
<1> QED
  BY <1>5, <1>6, <1>7, <1>8

(* A thread that starts takes a node for its root.                         *)
LEMMA ThreadStartInv ==
  ASSUME ShapeInv, NEW t \in Thread, ThreadStart(t), used # Node
  PROVE  ShapeInv'
<1>1. /\ phase[t] = "off" /\ ~Busy(t)
      /\ RootKey \in Key /\ NoNode \in Node \cup {NoNode} /\ 1 \in Nat \ {0} /\ <<>> \in Seq(Block)
      /\ TakeNode(t, RootKey, NoNode, 1, <<>>)
      /\ callPath' = callPath /\ callPath \in [Thread -> Seq(Block)]
  BY DEF ThreadStart, Busy, Key, ShapeInv, TypeOK
<1>2. PICK n \in Node : Took(t, n, NewBB(RootKey, NoNode, 1), <<>>)
  BY <1>1, TakeNodeFrame
<1>3. TypeOK' /\ TreeInv' /\ OneNodePerContext' /\ HandleInv'
  BY <1>1, <1>2, TookInv
<1>4. ThreadInv'
  BY <1>1, <1>2 DEF ShapeInv, TypeOK, ThreadInv, ThreadOK, Busy, MakingRoot, MakingBB, AtNode, IsRoot, parent,
     NewBB, Took
<1>5. MakingInv'
  <2>1. making'[t] = n /\ bb_node'[n].key = RootKey /\ bb_node'[n].parent_bb = NoNode
        /\ path'[n] = <<>>
    BY <1>2 DEF Took, NewBB, ShapeInv, TypeOK
  <2>2. MakingOK(t)'
    BY <2>1 DEF MakingOK, MakingBB, parent
  <2>3. ASSUME NEW u \in Thread, u # t PROVE MakingOK(u)'
    <3>1. making'[u] = making[u] /\ (Busy(u)' => Busy(u)) /\ Live' = Live
      BY <2>3, <1>1, <1>2 DEF Took, Busy, ShapeInv, TypeOK
    <3>2. \A m \in Node : m # n =>
             /\ bb_node'[m] = bb_node[m] /\ owner'[m] = owner[m] /\ path'[m] = path[m]
             /\ callee'[m] = callee[m]
      BY <1>2 DEF Took, ShapeInv, TypeOK
    <3>3. \A m \in Live : m \in Node /\ m # n
      BY <1>2 DEF Took
    <3>4. CASE Busy(u)
      <4>1. making[u] \in Node /\ making[u] # n
        BY <3>4, <1>2, MakingDistinct DEF Took
      <4> QED
        BY <3>1, <3>2, <3>3, <4>1, MakingFrame
    <3>5. CASE ~Busy(u)
      BY <3>1, <3>5 DEF MakingOK, MakingRoot, MakingBB
    <3> QED
      BY <3>4, <3>5
  <2> QED
    BY <2>2, <2>3 DEF MakingInv
<1> QED
  BY <1>3, <1>4, <1>5 DEF ShapeInv

(* A context is left for another one.                                      *)
LEMMA EnterIsContext ==
  ASSUME NEW p \in Seq(Block), NEW b \in Block
  PROVE  Enter(p, b) \in Seq(Block)
<1>1. CASE p = <<>>
  BY <1>1 DEF Enter
<1>2. CASE p # <<>>
  <2>1. Front(p) \in Seq(Block) /\ Len(Front(p)) = Len(p) - 1 /\ Len(p) \in Nat
    BY <1>2, FrontOfSeq
  <2>2. Len(p) > 1 => Front(p) # <<>>
    BY <2>1, EmptyOrLonger
  <2>3. Len(p) > 1 => Front(Front(p)) \in Seq(Block)
    BY <2>1, <2>2, FrontOfSeq
  <2>4. Append(p, b) \in Seq(Block) /\ Append(Front(p), b) \in Seq(Block)
        /\ (Len(p) > 1 => Append(Front(Front(p)), b) \in Seq(Block))
    BY <2>1, <2>3, AppendLastFront
  <2>5. EndState[Last(p)] = "call" => EndState[Last(p)] # "return"
    OBVIOUS
  <2> QED
    BY <1>2, <2>4, <2>5 DEF Enter
<1> QED
  BY <1>1, <1>2

(* A block that is new below its caller takes a node for it.               *)
LEMMA EnterNewBBInv ==
  ASSUME ShapeInv, NEW t \in Thread, NEW b \in Block, EnterNewBB(t, b), used # Node,
         CallerLive(t)
  PROVE  ShapeInv'
<1> DEFINE c == CallerNode(t)
           ctx == Append(path[c], b)
<1>1. /\ phase[t] = "run" /\ ~Busy(t)
      /\ callee[c][b] = NoNode
      /\ TakeNode(t, b, c, Slots[b], ctx)
      /\ callPath' = [callPath EXCEPT ![t] = Enter(callPath[t], b)]
  BY DEF EnterNewBB, Busy, ChildPath
<1>2. c \in Live /\ owner[c] = t
  BY DEF CallerLive
<1>3. /\ c \in Node \cup {NoNode} /\ path[c] \in Seq(Block)
      /\ b \in Key /\ Slots[b] \in Nat \ {0}
  BY <1>2, BlockAssumption DEF ShapeInv, TypeOK, Live, Key
<1>4. ctx \in Seq(Block)
  BY <1>3, AppendLastFront
<1>5. PICK n \in Node : Took(t, n, NewBB(b, c, Slots[b]), ctx)
  BY <1>1, TakeNodeFrame
<1> HIDE DEF c
<1>6. callPath' \in [Thread -> Seq(Block)]
  BY <1>1, EnterIsContext DEF ShapeInv, TypeOK
<1>7. TypeOK' /\ TreeInv' /\ OneNodePerContext' /\ HandleInv'
  BY <1>1, <1>3, <1>4, <1>5, <1>6, TookInv
<1>8. b # RootKey
  BY BlockAssumption
<1> DEFINE bb == NewBB(b, c, Slots[b])
<1>9. bb.key = b /\ bb.parent_bb = c
  BY DEF NewBB
<1> HIDE DEF bb, ctx
<1>10. ThreadInv'
  <2>1. bb_node'[n].key = b /\ MakingBB(t)' /\ ~MakingRoot(t)' /\ Busy(t)' /\ making'[t] = n
    BY <1>5, <1>8, <1>9 DEF ShapeInv, TypeOK, Took, MakingBB, MakingRoot, Busy, bb
  <2>2. AtNode(t)'
    BY <1>1, <1>5 DEF ShapeInv, TypeOK, ThreadInv, ThreadOK, AtNode, IsRoot, parent, Took
  <2>3. ThreadOK(t)'
    BY <2>1, <2>2, <1>1, <1>5 DEF ShapeInv, TypeOK, ThreadOK, Took
  <2>4. ASSUME NEW u \in Thread, u # t PROVE ThreadOK(u)'
    BY <2>4, <1>5, <1>6 DEF ShapeInv, TypeOK, ThreadInv, ThreadOK, Busy, MakingRoot, MakingBB,
       AtNode, IsRoot, parent, Took
  <2> QED
    BY <2>3, <2>4 DEF ThreadInv
<1>11. MakingInv'
  <2>1. (Below(n) /\ callee[parent(n)][bb_node[n].key] = NoNode)'
    BY <1>1, <1>2, <1>5, <1>9, SMTT(30) DEF ShapeInv, TypeOK, Below, parent, Took, bb, ctx
  <2>2. making'[t] = n /\ MakingBB(t)' /\ bb_node'[n].key = b
    BY <1>1, <1>5, <1>8, <1>9 DEF ShapeInv, TypeOK, Took, MakingBB, Busy, bb
  <2>5. MakingOK(t)'
    BY <2>1, <2>2 DEF MakingOK, MakingBB, MakingRoot
  <2>6. ASSUME NEW u \in Thread, u # t PROVE MakingOK(u)'
    <3>1. making'[u] = making[u] /\ (Busy(u)' => Busy(u)) /\ Live' = Live
      BY <2>6, <1>5, <1>6 DEF Took, Busy, ShapeInv, TypeOK
    <3>2. \A m \in Node : m # n =>
             /\ bb_node'[m] = bb_node[m] /\ owner'[m] = owner[m] /\ path'[m] = path[m]
             /\ callee'[m] = callee[m]
      BY <1>5 DEF Took, ShapeInv, TypeOK
    <3>3. \A m \in Live : m \in Node /\ m # n
      BY <1>5 DEF Took
    <3>4. CASE Busy(u)
      <4>1. making[u] \in Node /\ making[u] # n
        BY <3>4, <1>5, MakingDistinct DEF Took
      <4> QED
        BY <3>1, <3>2, <3>3, <4>1, MakingFrame
    <3>5. CASE ~Busy(u)
      BY <3>1, <3>5 DEF MakingOK, MakingRoot, MakingBB
    <3> QED
      BY <3>4, <3>5
  <2> QED
    BY <2>5, <2>6 DEF MakingInv
<1> QED
  BY <1>7, <1>10, <1>11 DEF ShapeInv

-----------------------------------------------------------------------------
(* A step that only ends the process, or moves the counter on.             *)
LEMMA CounterInv ==
  ASSUME ShapeInv, idle_idx' \in Nat, idle_idx' >= idle_idx, aborted' \in BOOLEAN,
         UNCHANGED <<ip_node, used, bb_node, callee, threads, history>>
  PROVE  ShapeInv'
<1>1. UNCHANGED <<ip_node, used, bb_node, callee, phase, making, root, cur, cur_idx, pre,
                  owner, path, callPath>>
  BY DEF threads, history
<1>2. TypeOK'
  BY <1>1 DEF ShapeInv, TypeOK
<1>3. ThreadInv' /\ TreeInv' /\ MakingInv' /\ OneNodePerContext'
  BY <1>1, SMTT(30) DEF ShapeInv, ThreadInv, ThreadOK, TreeInv, MakingInv, MakingOK,
     OneNodePerContext, Busy, MakingRoot, MakingBB, AtNode, IsRoot, Below, parent, Live
<1>4. Reserved' = Reserved /\ Live' = Live
  BY <1>1 DEF Reserved, Live
<1>5. HandleInv'
  <2>1. \A n \in Reserved : bb_node[n].start + bb_node[n].max_slots \in Nat
    BY DEF ShapeInv, TypeOK, Handle, Reserved
  <2> QED
    BY <1>1, <1>4, <2>1 DEF ShapeInv, TypeOK, HandleInv, VALID_START_CTXT_HNDL
<1> QED
  BY <1>2, <1>3, <1>5 DEF ShapeInv

(* The handles of a node are the interval from its first one.              *)
LEMMA ChildrenInterval ==
  ASSUME TypeOK, NEW n \in Node
  PROVE  \A h : h \in Children(n) <=>
           h \in Nat /\ bb_node[n].start <= h /\ h < bb_node[n].start + bb_node[n].max_slots
<1> DEFINE s == bb_node[n].start
           k == bb_node[n].max_slots
<1>1. s \in Nat /\ k \in Nat
  BY DEF TypeOK, Handle
<1>2. Children(n) = {s + i : i \in 0 .. k - 1}
  BY DEF Children
<1> HIDE DEF s, k
<1>3. ASSUME NEW h \in Nat, s <= h, h < s + k PROVE h \in {s + i : i \in 0 .. k - 1}
  <2>1. h - s \in 0 .. k - 1 /\ h = s + (h - s)
    BY <1>1, <1>3
  <2> QED
    BY <2>1
<1>4. ASSUME NEW h \in {s + i : i \in 0 .. k - 1} PROVE h \in Nat /\ s <= h /\ h < s + k
  BY <1>1
<1> QED
  BY <1>2, <1>3, <1>4 DEF s, k

(* Handles are reserved from the shared counter.                           *)
LEMMA ReserveHandlesInv ==
  ASSUME ShapeInv, NEW t \in Thread, ReserveHandles(t)
  PROVE  ShapeInv'
<1> DEFINE n == making[t]
           k == bb_node[n].max_slots
           next == idle_idx + k
<1>1. TypeOK /\ HandleInv /\ phase[t] = "reserve" /\ Busy(t) /\ idle_idx' = next
      /\ UNCHANGED <<ip_node, used, callee, making, root, cur, cur_idx, pre, history>>
  BY DEF ShapeInv, ReserveHandles, Busy
<1>2. n \in used /\ n \in Node /\ n \notin Live /\ owner[n] = t
      /\ \A u \in Thread : u # t => making[u] # n
  BY <1>1, MakingDistinct
<1>3. k \in Nat /\ k > 0 /\ idle_idx \in Nat /\ next \in Nat /\ next >= idle_idx /\ idle_idx >= 2
  BY <1>1, <1>2 DEF TypeOK, HandleInv, VALID_START_CTXT_HNDL
<1>4. CASE Exhausted(next)
  <2>1. aborted' = TRUE /\ UNCHANGED <<bb_node, phase>>
    BY <1>4 DEF ReserveHandles
  <2> QED
    BY <1>1, <1>3, <2>1, CounterInv DEF threads, history
<1>5. CASE ~Exhausted(next)
  <2>1. /\ bb_node' = [bb_node EXCEPT ![n].start = idle_idx]
        /\ phase' = [phase EXCEPT ![t] = "fill"]
        /\ aborted' = aborted
    BY <1>3, <1>5 DEF ReserveHandles, FirstHandle
  <2>2. next < ContextHandleMax /\ idle_idx \in Handle
    BY <1>3, <1>5, HandleAssumption DEF Exhausted, Handle
  <2>3. /\ Live' = Live /\ Reserved' = Reserved \cup {n} /\ n \notin Reserved
        /\ Reserved \subseteq used /\ Live \subseteq used /\ used \subseteq Node
    <3>1. Live' = Live
      BY <1>1 DEF Live
    <3>2. Reserved' = Reserved \cup {n} /\ n \notin Reserved
      BY <1>1, <1>2, <2>1 DEF Reserved, TypeOK
    <3> QED
      BY <1>1, <3>1, <3>2 DEF Live, Reserved, TypeOK
  <2>4. \A m \in Node : /\ bb_node'[m].key = bb_node[m].key
                        /\ bb_node'[m].parent_bb = bb_node[m].parent_bb
                        /\ bb_node'[m].max_slots = bb_node[m].max_slots
                        /\ m # n => bb_node'[m] = bb_node[m]
    BY <1>1, <2>1 DEF TypeOK
  <2>5. bb_node'[n].start = idle_idx
    BY <1>1, <1>2, <2>1 DEF TypeOK
  <2>6. TypeOK'
    <3>1. bb_node' \in [Node -> [key : Key, parent_bb : Node \cup {NoNode},
                                 start : Handle, max_slots : Nat]]
      <4> DEFINE BB == [key : Key, parent_bb : Node \cup {NoNode},
                        start : Handle, max_slots : Nat]
      <4>1. bb_node \in [Node -> BB] /\ bb_node[n] \in BB
        BY <1>1, <1>2 DEF TypeOK
      <4>2. [bb_node[n] EXCEPT !.start = idle_idx] \in BB
        BY <4>1, <2>2
      <4> HIDE DEF BB
      <4>3. [bb_node EXCEPT ![n] = [bb_node[n] EXCEPT !.start = idle_idx]] \in [Node -> BB]
        BY <4>1, <4>2
      <4> QED
        BY <4>3, <2>1 DEF BB
    <3>2. idle_idx' \in Nat /\ phase' \in [Thread -> {"off", "reserve", "fill", "run", "ended"}]
      BY <1>1, <1>3, <2>1 DEF TypeOK
    <3> QED
      BY <1>1, <2>1, <3>1, <3>2 DEF TypeOK, history
  <2>7. ThreadInv'
    BY <1>1, <1>2, <2>1, <2>3, <2>4, SMTT(30) DEF ShapeInv, TypeOK, ThreadInv, ThreadOK, Busy,
       MakingRoot, MakingBB, AtNode, IsRoot, parent, history
  <2>8. TreeInv'
    <3>1. \A m \in Node : bb_node'[m].key = bb_node[m].key /\ parent(m)' = parent(m)
      BY <2>4 DEF parent
    <3>2. \A m \in Live : m \in Node /\ (Below(m) => parent(m) \in Node)
      BY <2>3 DEF Below
    <3>3. \A m \in Live : (IsRoot(m) => IsRoot(m)')
      BY <1>1, <3>1, <3>2 DEF IsRoot, history
    <3>4. \A m \in Live : Below(m) /\ callee[parent(m)][bb_node[m].key] = m
                            => (Below(m) /\ callee[parent(m)][bb_node[m].key] = m)'
      BY <1>1, <2>3, <3>1, <3>2 DEF Below, history
    <3>5. (\A m \in used, b \in Block :
             callee[m][b] # NoNode =>
               /\ callee[m][b] \in Live /\ parent(callee[m][b]) = m
               /\ bb_node[callee[m][b]].key = b)'
      BY <1>1, <2>3, <3>1 DEF ShapeInv, TreeInv
    <3> QED
      BY <2>3, <3>3, <3>4, <3>5 DEF ShapeInv, TreeInv
  <2>9. OneNodePerContext'
    BY <1>1, <2>3 DEF ShapeInv, OneNodePerContext, history
  <2>10. MakingInv'
    <3> SUFFICES ASSUME NEW u \in Thread PROVE MakingOK(u)'
      BY DEF MakingInv
    <3>1. (Busy(u)' => Busy(u)) /\ \A m \in Live : m \in Node
      BY <1>1, <2>1, <2>3 DEF Busy, TypeOK
    <3>2. CASE Busy(u)
      BY <3>1, <3>2, <1>1, <2>3, <2>4, MakingDistinct, MakingFrame DEF history
    <3>3. CASE ~Busy(u)
      BY <3>1, <3>3 DEF MakingOK, MakingRoot, MakingBB
    <3> QED
      BY <3>2, <3>3
  <2>11. HandleInv'
    <3>1. (\A m \in used : bb_node[m].max_slots > 0)'
      BY <1>1, <2>3, <2>4 DEF HandleInv
    <3>2. \A m \in Reserved : bb_node[m].start + bb_node[m].max_slots <= idle_idx
                              /\ bb_node[m].start \in Nat /\ bb_node[m].max_slots \in Nat
      BY <1>1, <2>3 DEF HandleInv, TypeOK, Handle
    <3>3. \A m \in Reserved : bb_node'[m] = bb_node[m]
      BY <2>3, <2>4
    <3>4. bb_node'[n].start = idle_idx /\ bb_node'[n].max_slots = k
      BY <1>2, <2>4, <2>5
    <3>5. \A m \in Live : bb_node'[m] = bb_node[m]
      BY <1>2, <2>3, <2>4
    <3> HIDE DEF n, k, next
    <3> QED
      BY <1>1, <1>3, <2>2, <2>3, <3>1, <3>2, <3>3, <3>4, <3>5
      DEF HandleInv, VALID_START_CTXT_HNDL, next
  <2> QED
    BY <2>6, <2>7, <2>8, <2>9, <2>10, <2>11 DEF ShapeInv
<1> QED
  BY <1>4, <1>5

(* A thread that ends keeps its tree.                                      *)
LEMMA ThreadEndInv ==
  ASSUME ShapeInv, NEW t \in Thread, ThreadEnd(t)
  PROVE  ShapeInv'
<1>1. /\ phase[t] = "run" /\ phase' = [phase EXCEPT ![t] = "ended"]
      /\ UNCHANGED <<idle_idx, ip_node, used, bb_node, callee, making, root, cur, cur_idx, pre,
                     aborted, owner, path, callPath>>
  BY DEF ThreadEnd, GiveBack, history
<1>2. Live' = Live /\ Reserved' = Reserved
  BY <1>1 DEF Live, Reserved, ShapeInv, TypeOK
<1>3. TypeOK'
  BY <1>1 DEF ShapeInv, TypeOK
<1>4. ThreadInv'
  BY <1>1, <1>2 DEF ShapeInv, TypeOK, ThreadInv, ThreadOK, Busy, MakingRoot, MakingBB, AtNode,
     IsRoot, parent
<1>5. TreeInv' /\ OneNodePerContext' /\ HandleInv'
  BY <1>1, <1>2 DEF ShapeInv, TreeInv, OneNodePerContext, HandleInv, IsRoot, Below, parent
<1>6. MakingInv'
  BY <1>1, <1>2 DEF ShapeInv, TypeOK, MakingInv, MakingOK, Busy, MakingRoot, MakingBB, Below, parent
<1> QED
  BY <1>3, <1>4, <1>5, <1>6 DEF ShapeInv

(* A block whose context has a node already moves the thread there.        *)
LEMMA EnterKnownBBInv ==
  ASSUME ShapeInv, NEW t \in Thread, NEW b \in Block, EnterKnownBB(t, b), CallerLive(t)
  PROVE  ShapeInv'
<1> DEFINE c == CallerNode(t)
           n == callee[c][b]
<1>1. /\ phase[t] = "run" /\ ~Busy(t) /\ n # NoNode
      /\ cur' = [cur EXCEPT ![t] = n]
      /\ cur_idx' = [cur_idx EXCEPT ![t] = bb_node[n].start]
      /\ pre' = [pre EXCEPT ![t] = EndState[b]]
      /\ callPath' = [callPath EXCEPT ![t] = Enter(callPath[t], b)]
      /\ UNCHANGED <<idle_idx, ip_node, used, bb_node, callee, phase, making, root, aborted,
                     owner, path>>
  BY DEF EnterKnownBB, MoveTo, Busy, shared
<1>2. c \in Live /\ owner[c] = t
  BY DEF CallerLive
<1> HIDE DEF c
<1>3. c \in used /\ c \in Node /\ c # NoNode /\ path[c] \in Seq(Block)
  BY <1>2, NodeAssumption DEF ShapeInv, TypeOK, Live
<1>4. n \in Live /\ parent(n) = c /\ bb_node[n].key = b
  BY <1>1, <1>3 DEF ShapeInv, TreeInv
<1>5. n \in Node /\ owner[n] = t /\ path[n] = Append(path[c], b) /\ path[n] # <<>>
  <2>1. Below(n)
    BY <1>3, <1>4 DEF ShapeInv, TreeInv, IsRoot
  <2>2. owner[n] = t /\ path[n] = Append(path[c], b) /\ n \in Node
    BY <2>1, <1>2, <1>4 DEF Below, ShapeInv, TypeOK, Live
  <2> QED
    BY <2>2, <1>3, AppendLastFront
<1> HIDE DEF n
<1>6. Live' = Live /\ Reserved' = Reserved
  BY <1>1 DEF Live, Reserved
<1>7. EndState[b] \in State
  BY BlockAssumption DEF State
<1>8. Enter(callPath[t], b) \in Seq(Block)
  BY EnterIsContext DEF ShapeInv, TypeOK
<1>9. TypeOK'
  BY <1>1, <1>2, <1>5, <1>7, <1>8 DEF ShapeInv, TypeOK
<1>10. ThreadInv'
  <2>1. AtNode(t)
    BY <1>1 DEF ShapeInv, ThreadInv, ThreadOK
  <2>2. n # root[t]
    BY <2>1, <1>5 DEF AtNode, IsRoot
  <2>3. cur'[t] = n
    BY <1>1 DEF ShapeInv, TypeOK
  <2>4. AtNode(t)'
    BY <1>1, <1>4, <1>5, <1>6, <2>1, <2>2, <2>3 DEF AtNode, IsRoot, parent
  <2>5. ThreadOK(t)'
    BY <1>1, <1>5, <2>3, <2>4 DEF ShapeInv, ThreadInv, ThreadOK, Busy, MakingRoot, MakingBB
  <2>6. ASSUME NEW u \in Thread, u # t PROVE ThreadOK(u)'
    BY <1>1, <1>6, <2>6 DEF ShapeInv, TypeOK, ThreadInv, ThreadOK, Busy, MakingRoot, MakingBB,
       AtNode, IsRoot, parent
  <2> QED
    BY <2>5, <2>6 DEF ThreadInv
<1>11. TreeInv' /\ OneNodePerContext' /\ HandleInv'
  BY <1>1, <1>6 DEF ShapeInv, TreeInv, OneNodePerContext, HandleInv, IsRoot, Below, parent
<1>12. MakingInv'
  BY <1>1, <1>6 DEF ShapeInv, TypeOK, MakingInv, MakingOK, Busy, MakingRoot, MakingBB, Below, parent
<1> QED
  BY <1>9, <1>10, <1>11, <1>12 DEF ShapeInv

-----------------------------------------------------------------------------
(* What finishing a node does to the handles: the table leads from its     *)
(* handles back to it, and no other node's handles are touched.            *)
LEMMA FinishHandles ==
  ASSUME ShapeInv, NEW t \in Thread, phase[t] = "fill", FillChildren(making[t]),
         making' = [making EXCEPT ![t] = NoNode], phase' = [phase EXCEPT ![t] = "run"],
         UNCHANGED <<idle_idx, used, bb_node>>
  PROVE  /\ Live' = Live \cup {making[t]}
         /\ ip_node' \in [Handle -> Node \cup {NoNode}]
         /\ HandleInv'
<1> DEFINE n == making[t]
<1>1. Busy(t) /\ TypeOK /\ HandleInv
  BY DEF Busy, ShapeInv
<1>2. n \in used /\ n \in Node /\ n \notin Live /\ n # NoNode
      /\ \A u \in Thread : u # t => making[u] # n
  BY <1>1, MakingDistinct, NodeAssumption
<1>3. Live' = Live \cup {n}
  BY <1>1, <1>2, NodeAssumption DEF Live, TypeOK
<1>4. Reserved' = Reserved
  BY <1>1, <1>2, NodeAssumption DEF Reserved, TypeOK
<1>5. n \in Reserved /\ Live \subseteq Reserved /\ Reserved \subseteq Node
  BY <1>1, <1>2 DEF Reserved, Live, TypeOK
<1> HIDE DEF n
<1>6. \A h \in Handle : h \in Children(n) <=>
        bb_node[n].start <= h /\ h < bb_node[n].start + bb_node[n].max_slots
  BY <1>1, <1>2, ChildrenInterval DEF Handle
<1>7. \A h \in Handle :
        ip_node'[h] = IF bb_node[n].start <= h /\ h < bb_node[n].start + bb_node[n].max_slots
                      THEN n ELSE ip_node[h]
  BY <1>6 DEF FillChildren, n
<1>8. ip_node' \in [Handle -> Node \cup {NoNode}]
  BY <1>1, <1>2 DEF FillChildren, TypeOK, n
<1>9. HandleInv'
  <2>1. ASSUME NEW m \in Live, NEW h \in Handle,
               bb_node[m].start <= h, h < bb_node[m].start + bb_node[m].max_slots
        PROVE  ip_node'[h] = m
    <3>1. m # n /\ m \in Reserved /\ ip_node[h] = m
      BY <2>1, <1>1, <1>2, <1>5 DEF HandleInv, n
    <3>2. \/ bb_node[m].start + bb_node[m].max_slots <= bb_node[n].start
          \/ bb_node[n].start + bb_node[n].max_slots <= bb_node[m].start
      BY <3>1, <1>1, <1>5 DEF HandleInv
    <3>3. /\ bb_node[m].start \in Nat /\ bb_node[m].max_slots \in Nat
          /\ bb_node[n].start \in Nat /\ bb_node[n].max_slots \in Nat /\ h \in Nat
      BY <3>1, <1>1, <1>5 DEF TypeOK, Handle
    <3>4. ~(bb_node[n].start <= h /\ h < bb_node[n].start + bb_node[n].max_slots)
      BY <2>1, <3>2, <3>3
    <3> QED
      BY <3>1, <3>4, <1>7
  <2>2. (\A m \in Live : \A h \in Handle :
           bb_node[m].start <= h /\ h < bb_node[m].start + bb_node[m].max_slots
             => ip_node[h] = m)'
    BY <2>1, <1>3, <1>7 DEF n
  <2> QED
    BY <2>2, <1>1, <1>4 DEF HandleInv
<1> QED
  BY <1>3, <1>8, <1>9 DEF n

(* The root of a thread is done and the thread can run.                    *)
LEMMA FinishRootInv ==
  ASSUME ShapeInv, NEW t \in Thread, FinishRoot(t)
  PROVE  ShapeInv'
<1>0. PICK n \in Node : n = making[t]
  <2>1. Busy(t)
    BY DEF FinishRoot, Busy
  <2> QED
    BY <2>1, MakingDistinct
<1>1. /\ phase[t] = "fill" /\ Busy(t) /\ MakingRoot(t) /\ bb_node[n].key = RootKey
      /\ FillChildren(n)
      /\ root' = [root EXCEPT ![t] = n]
      /\ cur' = [cur EXCEPT ![t] = n]
      /\ cur_idx' = [cur_idx EXCEPT ![t] = bb_node[n].start]
      /\ pre' = [pre EXCEPT ![t] = "virtual"]
      /\ making' = [making EXCEPT ![t] = NoNode]
      /\ phase' = [phase EXCEPT ![t] = "run"]
      /\ UNCHANGED <<idle_idx, used, bb_node, callee, aborted, owner, path, callPath>>
  BY <1>0 DEF FinishRoot, MoveTo, Busy, MakingRoot, history
<1>2. /\ n \in used /\ n \in Node /\ n \notin Live /\ owner[n] = t
      /\ \A u \in Thread : u # t => making[u] # n
  BY <1>0, <1>1, MakingDistinct
<1>3. Live' = Live \cup {n} /\ ip_node' \in [Handle -> Node \cup {NoNode}] /\ HandleInv'
  BY <1>0, <1>1, FinishHandles
<1>4. /\ parent(n) = NoNode /\ path[n] = <<>>
      /\ \A m \in used : owner[m] = t => m = n
  BY <1>0, <1>1 DEF ShapeInv, ThreadInv, ThreadOK, MakingInv, MakingOK
<1>5. TypeOK'
  BY <1>1, <1>2, <1>3 DEF ShapeInv, TypeOK, State
<1>6. root'[t] = n /\ cur'[t] = n /\ cur_idx'[t] = bb_node[n].start /\ pre'[t] = "virtual"
      /\ making'[t] = NoNode /\ phase'[t] = "run"
  BY <1>1 DEF ShapeInv, TypeOK
<1>7. IsRoot(n)'
  BY <1>1, <1>2, <1>4, <1>6 DEF IsRoot, parent
<1>8. ThreadInv'
  <2>1. AtNode(t)'
    BY <1>1, <1>2, <1>3, <1>6, <1>7 DEF AtNode
  <2>2. ThreadOK(t)'
    BY <1>1, <1>4, <1>6, <2>1 DEF ThreadOK, Busy, MakingRoot, MakingBB
  <2>3. ASSUME NEW u \in Thread, u # t PROVE ThreadOK(u)'
    BY <1>1, <1>3, <2>3 DEF ShapeInv, TypeOK, ThreadInv, ThreadOK, Busy, MakingRoot, MakingBB,
       AtNode, IsRoot, parent
  <2> QED
    BY <2>2, <2>3 DEF ThreadInv
<1>9. TreeInv'
  <2>1. ASSUME NEW m \in Live
        PROVE  (IsRoot(m) \/ (Below(m) /\ callee[parent(m)][bb_node[m].key] = m))'
    <3>1. owner[m] # t
      BY <1>2, <1>4 DEF Live
    <3>2. owner[m] \in Thread
      BY DEF ShapeInv, TypeOK, Live
    <3>3. CASE IsRoot(m)
      BY <3>1, <3>2, <3>3, <1>1 DEF IsRoot, parent, ShapeInv, TypeOK
    <3>4. CASE Below(m) /\ callee[parent(m)][bb_node[m].key] = m
      BY <3>4, <1>1, <1>3 DEF Below, parent
    <3> QED
      BY <3>3, <3>4 DEF ShapeInv, TreeInv
  <2>2. (\A m \in used, b \in Block :
           callee[m][b] # NoNode =>
             /\ callee[m][b] \in Live /\ parent(callee[m][b]) = m
             /\ bb_node[callee[m][b]].key = b)'
    BY <1>1, <1>3 DEF ShapeInv, TreeInv, parent
  <2> QED
    BY <2>1, <2>2, <1>3, <1>7 DEF TreeInv
<1>10. OneNodePerContext'
  <2>1. \A m \in Live : owner[m] # t
    BY <1>2, <1>4 DEF Live
  <2> QED
    BY <2>1, <1>1, <1>2, <1>3 DEF ShapeInv, OneNodePerContext
<1>11. MakingInv'
  <2>1. ASSUME NEW u \in Thread, Busy(u)' PROVE u # t /\ making'[u] = making[u] /\ Busy(u)
    BY <2>1, <1>1, <1>6 DEF Busy, ShapeInv, TypeOK
  <2> QED
    BY <2>1, <1>1, <1>3, SMTT(30) DEF ShapeInv, MakingInv, MakingOK, MakingRoot, MakingBB, Below, parent
<1> QED
  BY <1>3, <1>5, <1>8, <1>9, <1>10, <1>11 DEF ShapeInv

(* The node of a block is done, hung below its caller, and entered.        *)
LEMMA FinishBBInv ==
  ASSUME ShapeInv, NEW t \in Thread, FinishBB(t)
  PROVE  ShapeInv'
<1>1. PICK n \in Node : n = making[t]
  <2>1. Busy(t)
    BY DEF FinishBB, Busy
  <2> QED
    BY <2>1, MakingDistinct
<1>2. PICK b \in Key : b = bb_node[n].key
  BY DEF ShapeInv, TypeOK
<1>3. PICK p : p = parent(n)
  OBVIOUS
<1>4. /\ phase[t] = "fill" /\ Busy(t) /\ MakingBB(t) /\ b # RootKey
      /\ FillChildren(n)
      /\ callee' = [callee EXCEPT ![p][b] = n]
      /\ cur' = [cur EXCEPT ![t] = n]
      /\ cur_idx' = [cur_idx EXCEPT ![t] = bb_node[n].start]
      /\ pre' = [pre EXCEPT ![t] = EndState[b]]
      /\ making' = [making EXCEPT ![t] = NoNode]
      /\ phase' = [phase EXCEPT ![t] = "run"]
      /\ UNCHANGED <<idle_idx, used, bb_node, root, aborted, owner, path, callPath>>
  BY <1>1, <1>2, <1>3 DEF FinishBB, MoveTo, Hang, Busy, MakingBB, history
<1>5. /\ n \in used /\ n \notin Live /\ owner[n] = t /\ n # NoNode
      /\ \A u \in Thread : u # t => making[u] # n
  BY <1>1, <1>4, MakingDistinct, NodeAssumption
<1>6. Live' = Live \cup {n} /\ ip_node' \in [Handle -> Node \cup {NoNode}] /\ HandleInv'
  BY <1>1, <1>4, FinishHandles
<1>7. /\ Below(n) /\ b \in Block /\ p \in Live /\ owner[p] = t
      /\ path[n] = Append(path[p], b) /\ callee[p][b] = NoNode
  BY <1>1, <1>2, <1>3, <1>4, <1>5 DEF ShapeInv, MakingInv, MakingOK, Below
<1>8. p \in Node /\ p \in used /\ p # n /\ path[p] \in Seq(Block)
  BY <1>5, <1>7 DEF Live, ShapeInv, TypeOK
<1>9. TypeOK'
  <2>1. EndState[b] \in State
    BY <1>7, BlockAssumption DEF State
  <2>2. callee' \in [Node -> [Block -> Node \cup {NoNode}]]
    BY <1>4, <1>7, <1>8 DEF ShapeInv, TypeOK
  <2> QED
    BY <1>4, <1>6, <2>1, <2>2 DEF ShapeInv, TypeOK
<1>10. /\ cur'[t] = n /\ cur_idx'[t] = bb_node[n].start /\ pre'[t] = EndState[b]
       /\ making'[t] = NoNode /\ phase'[t] = "run"
  BY <1>4 DEF ShapeInv, TypeOK
<1>11. /\ callee'[p][b] = n
       /\ \A m \in Node, a \in Block : ~(m = p /\ a = b) => callee'[m][a] = callee[m][a]
  BY <1>4, <1>7, <1>8 DEF ShapeInv, TypeOK
<1>12. ThreadInv'
  <2>1. AtNode(t)
    BY <1>4 DEF ShapeInv, ThreadInv, ThreadOK
  <2>2. n # root[t]
    BY <2>1, <1>5 DEF AtNode
  <2>3. AtNode(t)'
    BY <1>2, <1>4, <1>5, <1>6, <1>10, <2>1, <2>2 DEF AtNode, IsRoot, parent
  <2>4. ThreadOK(t)'
    BY <1>4, <1>7, <1>10, <2>3 DEF ThreadOK, Busy, MakingRoot, MakingBB
  <2>5. ASSUME NEW u \in Thread, u # t PROVE ThreadOK(u)'
    BY <1>4, <1>6, <2>5 DEF ShapeInv, TypeOK, ThreadInv, ThreadOK, Busy, MakingRoot, MakingBB,
       AtNode, IsRoot, parent
  <2> QED
    BY <2>4, <2>5 DEF ThreadInv
<1>13. TreeInv'
  <2>1. ASSUME NEW m \in Live
        PROVE  (IsRoot(m) \/ (Below(m) /\ callee[parent(m)][bb_node[m].key] = m))'
    <3>1. CASE IsRoot(m)
      BY <3>1, <1>4 DEF IsRoot, parent
    <3>2. CASE Below(m) /\ callee[parent(m)][bb_node[m].key] = m
      <4>1. Below(m)'
        BY <3>2, <1>4, <1>6 DEF Below, parent
      <4>2. parent(m) \in Node /\ bb_node[m].key \in Block /\ m \in Node
        BY <3>2 DEF Below, Live, ShapeInv, TypeOK
      <4>3. ~(parent(m) = p /\ bb_node[m].key = b)
        BY <3>2, <4>2, <1>7, NodeAssumption
      <4>4. callee'[parent(m)][bb_node[m].key] = m
        BY <3>2, <4>2, <4>3, <1>11
      <4> QED
        BY <4>1, <4>4, <1>4 DEF parent
    <3> QED
      BY <3>1, <3>2 DEF ShapeInv, TreeInv
  <2>2. (Below(n) /\ callee[parent(n)][bb_node[n].key] = n)'
    BY <1>2, <1>3, <1>4, <1>6, <1>7, <1>11 DEF Below, parent
  <2>3. ASSUME NEW m \in used, NEW a \in Block, callee'[m][a] # NoNode
        PROVE  /\ callee'[m][a] \in Live' /\ bb_node'[callee'[m][a]].parent_bb = m
               /\ bb_node'[callee'[m][a]].key = a
    <3>1. m \in Node
      BY DEF ShapeInv, TypeOK
    <3>2. CASE m = p /\ a = b
      BY <3>2, <1>2, <1>3, <1>4, <1>6, <1>11 DEF parent
    <3>3. CASE ~(m = p /\ a = b)
      BY <3>1, <3>3, <2>3, <1>4, <1>6, <1>11 DEF ShapeInv, TreeInv, parent
    <3> QED
      BY <3>2, <3>3
  <2> QED
    BY <2>1, <2>2, <2>3, <1>4, <1>6 DEF TreeInv, parent
<1>14. OneNodePerContext'
  <2>1. ASSUME NEW m \in Live, owner[m] = owner[n], path[m] = path[n] PROVE FALSE
    <3>1. AtNode(t)
      BY <1>4 DEF ShapeInv, ThreadInv, ThreadOK
    <3>2. path[n] # <<>> /\ Last(path[n]) = b /\ Front(path[n]) = path[p]
      BY <1>7, <1>8, AppendLastFront
    <3>3. m # root[t]
      BY <2>1, <3>1, <3>2 DEF AtNode, IsRoot
    <3>4. /\ bb_node[m].key \in Block /\ parent(m) \in Live /\ owner[parent(m)] = t
          /\ path[parent(m)] \in Seq(Block)
          /\ path[m] = Append(path[parent(m)], bb_node[m].key)
      BY <2>1, <3>1, <3>3, <1>5, NonRootBelow
    <3>5. bb_node[m].key = b /\ path[parent(m)] = path[p]
      BY <2>1, <3>2, <3>4, AppendLastFront
    <3>6. parent(m) = p
      BY <3>4, <3>5, <1>7 DEF ShapeInv, OneNodePerContext
    <3>7. callee[p][b] = m
      <4>1. parent(m) \in Node /\ ~IsRoot(m)
        BY <3>4, NodeAssumption DEF ShapeInv, TypeOK, Live, IsRoot
      <4>2. callee[parent(m)][bb_node[m].key] = m
        BY <4>1 DEF ShapeInv, TreeInv
      <4> QED
        BY <4>2, <3>5, <3>6
    <3> QED
      BY <3>7, <1>7, NodeAssumption DEF Live, ShapeInv, TypeOK
  <2> QED
    BY <2>1, <1>4, <1>6 DEF ShapeInv, OneNodePerContext
<1>15. MakingInv'
  <2> SUFFICES ASSUME NEW u \in Thread PROVE MakingOK(u)'
    BY DEF MakingInv
  <2>1. Busy(u)' => u # t /\ Busy(u)
    BY <1>4, <1>10 DEF Busy, ShapeInv, TypeOK
  <2>2. CASE Busy(u)'
    <3>1. PICK m \in Node : m = making[u] /\ owner[m] = u
      BY <2>1, <2>2, MakingDistinct
    <3>2. making'[u] = making[u]
      BY <2>1, <2>2, <1>4 DEF ShapeInv, TypeOK
    <3>3. ASSUME NEW q \in Live, q = parent(m)
          PROVE  callee'[q][bb_node[m].key] = callee[q][bb_node[m].key]
      <4>1. CASE MakingBB(u)
        <5>1. Below(m)
          BY <4>1, <3>1 DEF ShapeInv, MakingInv, MakingOK
        <5>2. q # p /\ q \in Node /\ bb_node[m].key \in Block
          BY <5>1, <3>1, <3>3, <2>1, <2>2, <1>7 DEF Below, ShapeInv, TypeOK, Live
        <5> QED
          BY <5>2, <1>11
      <4>2. CASE MakingRoot(u)
        BY <4>2, <3>1, <3>3, NodeAssumption DEF ShapeInv, MakingInv, MakingOK, Live, TypeOK
      <4> QED
        BY <4>1, <4>2, <2>1, <2>2 DEF MakingBB, MakingRoot
    <3> QED
      BY <2>1, <2>2, <3>1, <3>2, <3>3, <1>4, <1>6, MakingFrame
  <2>3. CASE ~Busy(u)'
    BY <2>3 DEF MakingOK, MakingRoot, MakingBB
  <2> QED
    BY <2>2, <2>3
<1> QED
  BY <1>6, <1>9, <1>12, <1>13, <1>14, <1>15 DEF ShapeInv

-----------------------------------------------------------------------------
(* Every step that finds the caller's node preserves the shape.            *)
LEMMA StepShape ==
  ASSUME ShapeInv, NEW t \in Thread, Step(t), phase[t] = "run" => CallerLive(t)
  PROVE  ShapeInv'
<1>2. ASSUME ExitProcess PROVE ShapeInv'
  <2>1. idle_idx' = idle_idx /\ idle_idx \in Nat /\ idle_idx >= idle_idx
    BY <1>2 DEF ExitProcess, shared, ShapeInv, TypeOK
  <2> QED
    BY <1>2, <2>1, CounterInv DEF ExitProcess, shared
<1>3. ASSUME ThreadStart(t) PROVE ShapeInv'
  BY <1>2, <1>3, ThreadStartInv DEF ThreadStart, TakeNode
<1>4. ASSUME NEW b \in Block, EnterNewBB(t, b) PROVE ShapeInv'
  BY <1>2, <1>4, EnterNewBBInv DEF EnterNewBB, TakeNode
<1>5. ASSUME NEW b \in Block, EnterKnownBB(t, b) PROVE ShapeInv'
  BY <1>5, EnterKnownBBInv DEF EnterKnownBB
<1>6. CASE ReserveHandles(t)
  BY <1>6, ReserveHandlesInv
<1>7. CASE FinishRoot(t)
  BY <1>7, FinishRootInv
<1>8. CASE FinishBB(t)
  BY <1>8, FinishBBInv
<1>9. CASE ThreadEnd(t)
  BY <1>9, ThreadEndInv
<1> QED
  BY <1>3, <1>4, <1>5, <1>6, <1>7, <1>8, <1>9 DEF Step

(* What is known of a thread's context is not disturbed by steps that      *)
(* leave alone the thread, the node it makes and the live nodes.           *)
LEMMA ContextFrame ==
  ASSUME IInv, NEW u \in Thread,
         phase'[u] = "off" => phase[u] = "off",
         phase'[u] \in {"run", "ended"} => phase[u] \in {"run", "ended"},
         Busy(u)' => Busy(u),
         making'[u] = making[u], root'[u] = root[u], cur'[u] = cur[u], pre'[u] = pre[u],
         cur_idx'[u] = cur_idx[u], callPath'[u] = callPath[u],
         \A m \in Live \cup {making[u]} : bb_node'[m].key = bb_node[m].key /\ path'[m] = path[m],
         \A m \in Live : bb_node'[m].start = bb_node[m].start
  PROVE  ContextOK(u)'
<1>1. ContextOK(u) /\ ThreadOK(u)
  BY DEF IInv, ShapeInv, ThreadInv, ContextInv
<1>2. PICK n : n = making[u]
  OBVIOUS
<1>3. /\ MakingRoot(u)' => MakingRoot(u)
      /\ MakingBB(u)' => MakingBB(u)
  BY DEF MakingRoot, MakingBB
<1>4. phase[u] \in {"run", "ended"} \/ MakingBB(u) => cur[u] \in Live
  BY <1>1 DEF ThreadOK, AtNode
<1>5. (phase[u] = "off" \/ MakingRoot(u) => callPath[u] = <<>>)'
  BY <1>1, <1>3 DEF ContextOK
<1>6. (phase[u] \in {"run", "ended"} \/ MakingBB(u) =>
         pre[u] = IF cur[u] = root[u] THEN "virtual" ELSE EndState[bb_node[cur[u]].key])'
  BY <1>1, <1>3, <1>4 DEF ContextOK
<1>7. (phase[u] \in {"run", "ended"} =>
         path[cur[u]] = callPath[u] /\ cur_idx[u] = bb_node[cur[u]].start)'
  BY <1>1, <1>4 DEF ContextOK
<1>8. ASSUME MakingBB(u)'
      PROVE  (callPath[u] = path[making[u]] /\ path[making[u]] = Enter(path[cur[u]], bb_node[making[u]].key))'
  <2>1. callPath[u] = path[n] /\ path[n] = Enter(path[cur[u]], bb_node[n].key) /\ cur[u] \in Live
    BY <1>1, <1>2, <1>3, <1>4, <1>8 DEF ContextOK
  <2>2. Enter(path'[cur'[u]], bb_node'[n].key) = Enter(path[cur[u]], bb_node[n].key)
    BY <1>2, <2>1
  <2> QED
    BY <1>2, <2>1, <2>2
<1> QED
  BY <1>5, <1>6, <1>7, <1>8 DEF ContextOK

(* A node that is taken: the threads that do not take it.                  *)
LEMMA TookContext ==
  ASSUME IInv, NEW t \in Thread, NEW n \in Node, NEW bb, NEW ctx, Took(t, n, bb, ctx),
         NEW u \in Thread, u # t, callPath'[u] = callPath[u]
  PROVE  ContextOK(u)'
<1>1. \A m \in Node : m # n => bb_node'[m] = bb_node[m] /\ path'[m] = path[m]
  BY DEF Took, IInv, ShapeInv, TypeOK
<1>2. \A m \in Live : m \in Node /\ m # n
  BY DEF Took
<1>3. /\ making'[u] = making[u] /\ phase'[u] = phase[u] /\ root'[u] = root[u] /\ cur'[u] = cur[u]
      /\ pre'[u] = pre[u] /\ cur_idx'[u] = cur_idx[u]
  BY DEF Took, IInv, ShapeInv, TypeOK
<1>4. CASE Busy(u)
  <2>1. making[u] \in Node /\ making[u] # n
    BY <1>4, MakingDistinct DEF Took, IInv
  <2> QED
    BY <1>1, <1>2, <1>3, <2>1, ContextFrame DEF Busy
<1>5. CASE ~Busy(u)
  <2>1. ~MakingRoot(u)' /\ ~MakingBB(u)'
    BY <1>3, <1>5 DEF Busy, MakingRoot, MakingBB
  <2>2. ContextOK(u) /\ (phase[u] \in {"run", "ended"} => cur[u] \in Live)
    BY DEF IInv, ContextInv, ShapeInv, ThreadInv, ThreadOK, AtNode
  <2> QED
    BY <1>1, <1>2, <1>3, <2>1, <2>2 DEF ContextOK
<1> QED
  BY <1>4, <1>5

(* Every step keeps the nodes of the threads at their contexts.            *)
LEMMA StepContext ==
  ASSUME IInv, NEW t \in Thread, Step(t)
  PROVE  ContextInv'
<1>0. ShapeInv /\ TypeOK
  BY DEF IInv, ShapeInv
<1>1. ASSUME UNCHANGED <<bb_node, threads, history>> PROVE ContextInv'
  BY <1>1, SMTT(30) DEF threads, history, IInv, ContextInv, ContextOK, MakingRoot, MakingBB, Busy
<1>2. ASSUME ThreadStart(t), used # Node PROVE ContextInv'
  <2>1. phase[t] = "off" /\ ~Busy(t) /\ TakeNode(t, RootKey, NoNode, 1, <<>>) /\ callPath' = callPath
    BY <1>2 DEF ThreadStart, Busy
  <2>2. PICK n \in Node : Took(t, n, NewBB(RootKey, NoNode, 1), <<>>)
    BY <1>0, <1>2, <2>1, TakeNodeFrame
  <2>3. making'[t] = n /\ bb_node'[n].key = RootKey /\ phase'[t] = "reserve"
    BY <1>0, <2>2 DEF Took, NewBB, TypeOK
  <2>4. callPath[t] = <<>>
    BY <2>1 DEF IInv, ContextInv, ContextOK
  <2>5. ContextOK(t)'
    BY <2>1, <2>3, <2>4 DEF ContextOK, MakingBB
  <2>6. ASSUME NEW u \in Thread, u # t PROVE ContextOK(u)'
    BY <2>1, <2>2, <2>6, TookContext
  <2> QED
    BY <2>5, <2>6 DEF ContextInv
<1>3. ASSUME NEW b \in Block, EnterNewBB(t, b), used # Node PROVE ContextInv'
  <2> DEFINE c == CallerNode(t)
             ctx == Append(path[c], b)
  <2>1. /\ phase[t] = "run" /\ ~Busy(t) /\ TakeNode(t, b, c, Slots[b], ctx)
        /\ callPath' = [callPath EXCEPT ![t] = Enter(callPath[t], b)]
    BY <1>3 DEF EnterNewBB, Busy, ChildPath
  <2>2. Enter(callPath[t], b) = ctx
    BY <2>1, CallerExact
  <2>3. PICK n \in Node : Took(t, n, NewBB(b, c, Slots[b]), ctx)
    BY <1>0, <1>3, <2>1, TakeNodeFrame
  <2> HIDE DEF c, ctx
  <2>4. /\ making'[t] = n /\ bb_node'[n].key = b /\ phase'[t] = "reserve" /\ b # RootKey
        /\ path'[n] = ctx /\ callPath'[t] = ctx /\ cur'[t] = cur[t] /\ pre'[t] = pre[t]
        /\ root'[t] = root[t]
    BY <1>0, <2>1, <2>2, <2>3, BlockAssumption DEF Took, NewBB, TypeOK
  <2>5. /\ cur[t] \in Node /\ cur[t] # n /\ path[cur[t]] = callPath[t]
        /\ pre[t] = IF cur[t] = root[t] THEN "virtual" ELSE EndState[bb_node[cur[t]].key]
    BY <2>1, <2>3 DEF IInv, ShapeInv, ThreadInv, ThreadOK, AtNode, ContextInv, ContextOK, Took
  <2>6. path'[cur[t]] = callPath[t] /\ bb_node'[cur[t]] = bb_node[cur[t]]
    BY <1>0, <2>3, <2>5 DEF Took, TypeOK
  <2>7. path'[n] = Enter(path'[cur'[t]], b)
    BY <2>2, <2>4, <2>6
  <2>8. ContextOK(t)'
    BY <2>4, <2>5, <2>6, <2>7 DEF ContextOK, MakingRoot
  <2>9. ASSUME NEW u \in Thread, u # t PROVE ContextOK(u)'
    <3>1. callPath'[u] = callPath[u]
      BY <1>0, <2>1, <2>9 DEF TypeOK
    <3> QED
      BY <2>3, <2>9, <3>1, TookContext
  <2> QED
    BY <2>8, <2>9 DEF ContextInv
<1>4. ASSUME NEW b \in Block, EnterKnownBB(t, b) PROVE ContextInv'
  <2> DEFINE c == CallerNode(t)
             n == callee[c][b]
  <2>1. /\ phase[t] = "run" /\ n # NoNode
        /\ cur' = [cur EXCEPT ![t] = n]
        /\ cur_idx' = [cur_idx EXCEPT ![t] = bb_node[n].start]
        /\ pre' = [pre EXCEPT ![t] = EndState[b]]
        /\ callPath' = [callPath EXCEPT ![t] = Enter(callPath[t], b)]
        /\ UNCHANGED <<bb_node, phase, making, root, path>>
    BY <1>4 DEF EnterKnownBB, MoveTo, shared
  <2>2. c \in Live /\ owner[c] = t /\ Enter(callPath[t], b) = Append(path[c], b)
    BY <2>1, CallerExact
  <2> HIDE DEF c
  <2>3. c \in used /\ c \in Node /\ c # NoNode /\ path[c] \in Seq(Block)
    BY <2>2, NodeAssumption DEF IInv, ShapeInv, TypeOK, Live
  <2>4. n \in Live /\ parent(n) = c /\ bb_node[n].key = b
    BY <2>1, <2>3 DEF IInv, ShapeInv, TreeInv
  <2>5. path[n] = Append(path[c], b) /\ path[n] # <<>>
    <3>1. Below(n)
      BY <2>3, <2>4 DEF IInv, ShapeInv, TreeInv, IsRoot
    <3>2. path[n] = Append(path[c], b)
      BY <3>1, <2>4 DEF Below
    <3> QED
      BY <3>2, <2>3, AppendLastFront
  <2> HIDE DEF n
  <2>6. n # root[t]
    BY <2>1, <2>5 DEF IInv, ShapeInv, ThreadInv, ThreadOK, AtNode, IsRoot
  <2>7. /\ cur'[t] = n /\ pre'[t] = EndState[b] /\ cur_idx'[t] = bb_node[n].start
        /\ callPath'[t] = path[n]
    BY <1>0, <2>1, <2>2, <2>5 DEF TypeOK
  <2>8. ContextOK(t)'
    BY <2>1, <2>4, <2>6, <2>7 DEF ContextOK, MakingRoot, MakingBB, Busy
  <2>9. ASSUME NEW u \in Thread, u # t PROVE ContextOK(u)'
    <3>1. cur'[u] = cur[u] /\ cur_idx'[u] = cur_idx[u] /\ pre'[u] = pre[u] /\ callPath'[u] = callPath[u]
      BY <1>0, <2>1, <2>9 DEF TypeOK
    <3> QED
      BY <2>1, <3>1, ContextFrame DEF Busy
  <2> QED
    BY <2>8, <2>9 DEF ContextInv
<1>5. ASSUME ReserveHandles(t) PROVE ContextInv'
  <2>1. /\ Busy(t) /\ phase[t] = "reserve"
        /\ UNCHANGED <<making, root, cur, cur_idx, pre, path, callPath>>
    BY <1>5 DEF ReserveHandles, Busy, history
  <2>2. making[t] \notin Live /\ making[t] \in Node
    BY <1>0, <2>1, MakingDistinct
  <2>3. /\ \A m \in Node : bb_node'[m].key = bb_node[m].key
        /\ \A m \in Live : m \in Node /\ bb_node'[m].start = bb_node[m].start
    <3>1. PICK n \in Node : n = making[t] /\ n \notin Live
      BY <2>2
    <3>2. bb_node' = bb_node \/ \E x : bb_node' = [bb_node EXCEPT ![n].start = x]
      BY <1>5, <3>1 DEF ReserveHandles
    <3>3. Live \subseteq Node
      BY <1>0 DEF TypeOK, Live
    <3>4. bb_node \in [Node -> [key : Key, parent_bb : Node \cup {NoNode},
                               start : Handle, max_slots : Nat]]
      BY <1>0 DEF TypeOK
    <3>5. CASE bb_node' = bb_node
      BY <3>3, <3>5
    <3>6. ASSUME NEW x, bb_node' = [bb_node EXCEPT ![n].start = x]
          PROVE  \A m \in Node : /\ bb_node'[m].key = bb_node[m].key
                                 /\ m # n => bb_node'[m] = bb_node[m]
      BY <3>4, <3>6
    <3> QED
      BY <3>1, <3>2, <3>3, <3>5, <3>6
  <2>4. /\ phase' \in [Thread -> {"off", "reserve", "fill", "run", "ended"}]
        /\ \A u \in Thread : phase'[u] = phase[u] \/ (Busy(u) /\ phase'[u] = "fill")
    BY <1>0, <1>5, <2>1 DEF ReserveHandles, TypeOK
  <2>5. ASSUME NEW u \in Thread PROVE ContextOK(u)'
    <3>1. CASE Busy(u)
      <4>1. making[u] \in Node
        BY <1>0, <3>1, MakingDistinct
      <4> QED
        BY <2>1, <2>3, <2>4, <3>1, <4>1, ContextFrame DEF Busy
    <3>2. CASE ~Busy(u)
      <4>1. phase'[u] = phase[u] /\ ~MakingRoot(u)' /\ ~MakingBB(u)'
        BY <2>4, <3>2 DEF Busy, MakingRoot, MakingBB
      <4>2. ContextOK(u) /\ (phase[u] \in {"run", "ended"} => cur[u] \in Live)
        BY DEF IInv, ContextInv, ShapeInv, ThreadInv, ThreadOK, AtNode
      <4> QED
        BY <2>1, <2>3, <4>1, <4>2 DEF ContextOK
    <3> QED
      BY <3>1, <3>2
  <2> QED
    BY <2>5 DEF ContextInv
<1>6. ASSUME FinishRoot(t) \/ FinishBB(t) PROVE ContextInv'
  <2>1. PICK n \in Node : n = making[t]
    BY <1>0, <1>6, MakingDistinct DEF FinishRoot, FinishBB, Busy
  <2>2. /\ phase[t] = "fill" /\ Busy(t)
        /\ cur' = [cur EXCEPT ![t] = n]
        /\ cur_idx' = [cur_idx EXCEPT ![t] = bb_node[n].start]
        /\ making' = [making EXCEPT ![t] = NoNode]
        /\ phase' = [phase EXCEPT ![t] = "run"]
        /\ UNCHANGED <<bb_node, path, callPath>>
    BY <1>6, <2>1 DEF FinishRoot, FinishBB, MoveTo, Busy, history
  <2>3. /\ cur'[t] = n /\ cur_idx'[t] = bb_node[n].start /\ phase'[t] = "run"
        /\ callPath[t] = path[n]
        /\ pre'[t] = IF n = root'[t] THEN "virtual" ELSE EndState[bb_node[n].key]
    <3>1. cur'[t] = n /\ cur_idx'[t] = bb_node[n].start /\ phase'[t] = "run"
      BY <1>0, <2>2 DEF TypeOK
    <3>2. CASE FinishRoot(t)
      <4>1. MakingRoot(t) /\ root'[t] = n /\ pre'[t] = "virtual"
        BY <1>0, <2>1, <2>2, <3>2 DEF FinishRoot, MoveTo, MakingRoot, TypeOK
      <4>2. callPath[t] = <<>> /\ path[n] = <<>>
        BY <2>1, <4>1 DEF IInv, ContextInv, ContextOK, ShapeInv, MakingInv, MakingOK
      <4> QED
        BY <3>1, <4>1, <4>2
    <3>3. CASE FinishBB(t)
      <4>1. MakingBB(t) /\ root' = root /\ pre'[t] = EndState[bb_node[n].key]
        BY <1>0, <2>1, <2>2, <3>3 DEF FinishBB, MoveTo, MakingBB, TypeOK
      <4>2. callPath[t] = path[n]
        BY <2>1, <4>1 DEF IInv, ContextInv, ContextOK
      <4>3. n # root[t]
        BY <1>0, <2>1, <2>2, <4>1, MakingDistinct DEF ShapeInv, ThreadInv, ThreadOK, AtNode
      <4> QED
        BY <3>1, <4>1, <4>2, <4>3
    <3> QED
      BY <1>6, <3>2, <3>3
  <2>4. ContextOK(t)'
    BY <2>2, <2>3 DEF ContextOK, MakingRoot, MakingBB, Busy
  <2>5. ASSUME NEW u \in Thread, u # t PROVE ContextOK(u)'
    <3>1. /\ making'[u] = making[u] /\ phase'[u] = phase[u] /\ cur'[u] = cur[u]
          /\ cur_idx'[u] = cur_idx[u]
      BY <1>0, <2>2, <2>5 DEF TypeOK
    <3>2. root'[u] = root[u] /\ pre'[u] = pre[u]
      BY <1>0, <1>6, <2>5 DEF FinishRoot, FinishBB, MoveTo, TypeOK
    <3> QED
      BY <2>2, <3>1, <3>2, ContextFrame DEF Busy
  <2> QED
    BY <2>4, <2>5 DEF ContextInv
<1>7. ASSUME ThreadEnd(t) PROVE ContextInv'
  <2>1. /\ phase[t] = "run" /\ phase' = [phase EXCEPT ![t] = "ended"]
        /\ UNCHANGED <<bb_node, making, root, cur, cur_idx, pre, path, callPath>>
    BY <1>7 DEF ThreadEnd, history
  <2>2. \A u \in Thread : phase'[u] = phase[u] \/ (phase[u] = "run" /\ phase'[u] = "ended")
    BY <1>0, <2>1 DEF TypeOK
  <2>3. ASSUME NEW u \in Thread PROVE ContextOK(u)'
    BY <2>1, <2>2, ContextFrame DEF Busy
  <2> QED
    BY <2>3 DEF ContextInv
<1>8. ASSUME used = Node, ThreadStart(t) \/ \E b \in Block : EnterNewBB(t, b) PROVE ContextInv'
  BY <1>1, <1>8 DEF ThreadStart, EnterNewBB, TakeNode, ExitProcess, shared, threads, history
<1> QED
  BY <1>2, <1>3, <1>4, <1>5, <1>6, <1>7, <1>8 DEF Step

(* Without signals the caller's node is always found.                      *)
LEMMA RunsHaveCallers ==
  ASSUME IInv, NEW t \in Thread
  PROVE  phase[t] = "run" => CallerLive(t)
<1>1. phase[t] = "run" => ~NullCaller(t)
  BY DEF NullCaller, IInv, ContextInv, ContextOK
<1> QED
  BY <1>1, CallerIsLive DEF IInv

(* Every step preserves the invariant.                                     *)
LEMMA StepIInv == IInv /\ [Next]_vars => IInv'
<1> SUFFICES ASSUME IInv, [Next]_vars PROVE IInv'
  OBVIOUS
<1>1. ASSUME UNCHANGED vars PROVE IInv'
  <2>1. ShapeInv'
    BY <1>1, CounterInv DEF vars, shared, IInv, ShapeInv, TypeOK
  <2>2. ContextInv'
    BY <1>1, SMTT(30) DEF vars, shared, threads, history, IInv, ContextInv, ContextOK, MakingRoot,
       MakingBB, Busy
  <2> QED
    BY <2>1, <2>2 DEF IInv
<1>2. ASSUME NEW t \in Thread, Step(t) PROVE IInv'
  BY <1>2, RunsHaveCallers, StepShape, StepContext DEF IInv
<1> QED
  BY <1>1, <1>2 DEF Next

(* The invariant is inductive.                                             *)
LEMMA Inductive == Spec => []IInv
BY InitIInv, StepIInv, PTL DEF Spec

LEMMA ShapeInductive == Spec => []ShapeInv
BY Inductive, PTL DEF IInv

(* The types of the tree and of the threads that build it.                 *)
THEOREM TypeCorrect == Spec => []TypeOK
BY ShapeInductive, PTL DEF ShapeInv

(* Ranges of handles that do not overlap have no handle in common.         *)
LEMMA ShapeKeepsHandlesApart == ShapeInv => HandlesDisjoint
<1> SUFFICES ASSUME ShapeInv, NEW m \in Reserved, NEW n \in Reserved
             PROVE  /\ Children(n) \subseteq VALID_START_CTXT_HNDL .. idle_idx - 1
                    /\ m # n => Children(m) \cap Children(n) = {}
  BY DEF HandlesDisjoint
<1>1. TypeOK /\ m \in Node /\ n \in Node
  BY DEF IInv, ShapeInv, TypeOK, Reserved
<1>2. /\ VALID_START_CTXT_HNDL <= bb_node[n].start
      /\ bb_node[n].start + bb_node[n].max_slots <= idle_idx
      /\ m # n => \/ bb_node[m].start + bb_node[m].max_slots <= bb_node[n].start
                  \/ bb_node[n].start + bb_node[n].max_slots <= bb_node[m].start
  BY DEF IInv, ShapeInv, HandleInv
<1>3. /\ bb_node[n].start \in Nat /\ bb_node[n].max_slots \in Nat
      /\ bb_node[m].start \in Nat /\ bb_node[m].max_slots \in Nat /\ idle_idx \in Nat
  BY <1>1 DEF TypeOK, Handle
<1>4. \A h : h \in Children(n) <=>
         h \in Nat /\ bb_node[n].start <= h /\ h < bb_node[n].start + bb_node[n].max_slots
  BY <1>1, ChildrenInterval
<1>5. \A h : h \in Children(m) <=>
         h \in Nat /\ bb_node[m].start <= h /\ h < bb_node[m].start + bb_node[m].max_slots
  BY <1>1, ChildrenInterval
<1> HIDE DEF Children
<1> QED
  BY <1>2, <1>3, <1>4, <1>5 DEF VALID_START_CTXT_HNDL

(* Handles are never shared between nodes, however the atomic additions    *)
(* of the threads interleave (cur_child_ctxt_start_idx).                   *)
THEOREM HandlesNeverShared == Spec => []HandlesDisjoint
BY ShapeKeepsHandlesApart, ShapeInductive, PTL

(* The handles of a node are its range, which leads back to it.            *)
LEMMA ShapeResolvesHandles == ShapeInv => HandleResolves
<1> SUFFICES ASSUME ShapeInv, NEW n \in Live, NEW h \in Children(n) PROVE ip_node[h] = n
  BY DEF HandleResolves
<1>1. n \in Node /\ n \in Reserved /\ TypeOK /\ HandleInv
  BY DEF IInv, ShapeInv, TypeOK, Live, Reserved
<1>2. h \in Nat /\ bb_node[n].start <= h /\ h < bb_node[n].start + bb_node[n].max_slots
  BY <1>1, ChildrenInterval
<1>3. h \in Handle
  BY <1>1, <1>2, HandleAssumption DEF HandleInv, TypeOK, Handle
<1> QED
  BY <1>1, <1>2, <1>3 DEF HandleInv

(* Every handle of a node in a tree leads back to that node.               *)
THEOREM HandlesResolve == Spec => []HandleResolves
BY ShapeResolvesHandles, ShapeInductive, PTL

(* The node a thread stands at is the application's calling context.       *)
THEOREM ContextsExact == Spec => []ContextExact
<1>1. IInv => ContextExact
  BY DEF IInv, ShapeInv, ThreadInv, ThreadOK, AtNode, ContextInv, ContextOK, ContextExact
<1> QED
  BY <1>1, Inductive, PTL

(* Equal calling contexts of a thread share one node.                      *)
THEOREM ContextsUnique == Spec => []OneNodePerContext
BY Inductive, PTL DEF IInv, ShapeInv

(* A node once in a tree stays there with its block, parent and handles.   *)
NodesKept == \A n \in Live : n \in Live' /\ bb_node'[n] = bb_node[n]

LEMMA StepKeepsNodes ==
  ASSUME ShapeInv, NEW t \in Thread, Step(t)
  PROVE  NodesKept
<1>1. ASSUME UNCHANGED <<used, making, bb_node>> PROVE NodesKept
  BY <1>1 DEF Live, NodesKept
<1>2. ASSUME ~Busy(t), NEW key, NEW caller, NEW slots, NEW ctx,
             TakeNode(t, key, caller, slots, ctx)
      PROVE  NodesKept
  <2>1. CASE used = Node
    BY <1>1, <1>2, <2>1 DEF TakeNode, ExitProcess, shared, threads
  <2>2. CASE used # Node
    BY <1>2, <2>2, TakeNodeFrame DEF Took, ShapeInv, TypeOK, NodesKept
  <2> QED
    BY <2>1, <2>2
<1>3. CASE ReserveHandles(t)
  <2>1. making[t] \notin Live /\ Live \subseteq Node /\ Live' = Live
    BY <1>3, MakingDistinct DEF ReserveHandles, Busy, Live, ShapeInv, TypeOK
  <2> QED
    BY <1>3, <2>1 DEF ReserveHandles, ShapeInv, TypeOK, NodesKept
<1>4. CASE FinishRoot(t) \/ FinishBB(t)
  BY <1>4, FinishHandles DEF FinishRoot, FinishBB, NodesKept
<1>5. CASE \E b \in Block : EnterKnownBB(t, b)
  BY <1>1, <1>5 DEF EnterKnownBB, shared
<1>6. CASE ThreadEnd(t)
  BY <1>1, <1>6 DEF ThreadEnd, GiveBack
<1>7. CASE ThreadStart(t)
  BY <1>2, <1>7 DEF ThreadStart, Busy
<1>8. CASE \E b \in Block : EnterNewBB(t, b)
  BY <1>2, <1>8 DEF EnterNewBB, Busy
<1> QED
  BY <1>3, <1>4, <1>5, <1>6, <1>7, <1>8 DEF Step

(* So handles that clients keep in their own tables stay meaningful.       *)
THEOREM HandlesKept == Spec => HandlesStable
<1>1. ShapeInv /\ [Next]_vars => [NodesKept]_vars
  BY StepKeepsNodes DEF Next
<1>2. Spec => [][NodesKept]_vars
  BY <1>1, ShapeInductive, PTL DEF Spec
<1> QED
  BY <1>2 DEF HandlesStable, NodesKept

-----------------------------------------------------------------------------

(* A context is no longer than there are nodes for the blocks on the way.  *)
DepthInv == \A n \in used : Len(path[n]) < Cardinality(used)

(* There are finitely many nodes, and the used ones can be counted.        *)
LEMMA UsedCounted ==
  ASSUME TypeOK
  PROVE  IsFiniteSet(used) /\ Cardinality(used) \in Nat /\ Cardinality(used) <= Cardinality(Node)
         /\ Cardinality(Node) \in Nat
BY NodeAssumption, FS_Subset, FS_CardinalityType DEF TypeOK

(* A node is taken for a context no longer than the number of used nodes.  *)
LEMMA TookDepth ==
  ASSUME ShapeInv, DepthInv, NEW t \in Thread, NEW n \in Node, NEW bb, NEW ctx \in Seq(Block),
         Took(t, n, bb, ctx), Len(ctx) <= Cardinality(used)
  PROVE  DepthInv'
<1>1. Cardinality(used) \in Nat /\ Cardinality(used') = Cardinality(used) + 1
  BY UsedCounted, FS_AddElement DEF ShapeInv, Took
<1>2. \A m \in used : path'[m] = path[m] /\ Len(path[m]) \in Nat
  BY LenProperties DEF ShapeInv, TypeOK, Took
<1>3. path'[n] = ctx /\ used' = used \cup {n} /\ Len(ctx) \in Nat
  BY LenProperties DEF ShapeInv, TypeOK, Took
<1> QED
  BY <1>1, <1>2, <1>3 DEF DepthInv

(* Contexts grow only with a new node, by one block.                       *)
LEMMA StepDepth ==
  ASSUME ShapeInv, DepthInv, NEW t \in Thread, Step(t), phase[t] = "run" => CallerLive(t)
  PROVE  DepthInv'
<1>1. ASSUME UNCHANGED <<used, path>> PROVE DepthInv'
  BY <1>1 DEF DepthInv
<1>2. ASSUME ThreadStart(t) PROVE DepthInv'
  <2>1. CASE used = Node
    BY <2>1, <1>1, <1>2 DEF ThreadStart, TakeNode, ExitProcess, shared, history
  <2>2. CASE used # Node
    <3>1. PICK n \in Node : Took(t, n, NewBB(RootKey, NoNode, 1), <<>>)
      BY <2>2, <1>2, TakeNodeFrame DEF ThreadStart, Busy
    <3>2. Len(<<>>) <= Cardinality(used) /\ <<>> \in Seq(Block)
      BY UsedCounted DEF ShapeInv
    <3> QED
      BY <3>1, <3>2, TookDepth
  <2> QED
    BY <2>1, <2>2
<1>3. ASSUME NEW b \in Block, EnterNewBB(t, b) PROVE DepthInv'
  <2> DEFINE c == CallerNode(t)
  <2>1. CASE used = Node
    BY <2>1, <1>1, <1>3 DEF EnterNewBB, TakeNode, ExitProcess, shared, history
  <2>2. CASE used # Node
    <3>1. PICK n \in Node : Took(t, n, NewBB(b, c, Slots[b]), Append(path[c], b))
      BY <2>2, <1>3, TakeNodeFrame DEF EnterNewBB, Busy, ChildPath
    <3>2. c \in used /\ path[c] \in Seq(Block)
      BY <1>3 DEF EnterNewBB, CallerLive, Live, ShapeInv, TypeOK
    <3>3. Append(path[c], b) \in Seq(Block) /\ Len(Append(path[c], b)) = Len(path[c]) + 1
          /\ Len(path[c]) \in Nat
      BY <3>2, AppendLastFront, LenProperties
    <3>4. Len(Append(path[c], b)) <= Cardinality(used)
      BY <3>2, <3>3, UsedCounted DEF DepthInv, ShapeInv
    <3> QED
      BY <3>1, <3>3, <3>4, TookDepth
  <2> QED
    BY <2>1, <2>2
<1>4. ASSUME NEW b \in Block, EnterKnownBB(t, b) PROVE DepthInv'
  BY <1>1, <1>4 DEF EnterKnownBB, shared
<1>5. ASSUME ReserveHandles(t) \/ FinishRoot(t) \/ FinishBB(t) \/ ThreadEnd(t)
      PROVE  DepthInv'
  BY <1>1, <1>5 DEF ReserveHandles, FinishRoot, FinishBB, ThreadEnd, GiveBack, history
<1> QED
  BY <1>2, <1>3, <1>4, <1>5 DEF Step

(* So contexts are never longer than there are nodes.                      *)
LEMMA DepthInductive == Spec => []DepthInv
<1>1. Init => DepthInv
  BY DEF Init, DepthInv
<1>2. IInv /\ DepthInv /\ [Next]_vars => DepthInv'
  <2> SUFFICES ASSUME IInv, DepthInv, [Next]_vars PROVE DepthInv'
    OBVIOUS
  <2>1. CASE UNCHANGED vars
    BY <2>1 DEF vars, shared, history, DepthInv
  <2>2. ASSUME NEW t \in Thread, Step(t) PROVE DepthInv'
    BY <2>2, RunsHaveCallers, StepDepth DEF IInv
  <2> QED
    BY <2>1, <2>2 DEF Next
<1> QED
  BY <1>1, <1>2, Inductive, PTL DEF Spec

(* A handle of a live node leads to the node, and from there to a handle   *)
(* of the node's parent, which is none of a root's.                        *)
LEMMA CallerHandles ==
  ASSUME ShapeInv, NEW n \in Live, NEW h \in Children(n)
  PROVE  /\ ip_node[h] = n
         /\ IsRoot(n) => CallerHandle(h) = THREAD_ROOT_SHARDED_CALLER_CONTEXT_HANDLE
         /\ Below(n) => /\ CallerHandle(h) \in Children(parent(n))
                        /\ CallerHandle(h) # THREAD_ROOT_SHARDED_CALLER_CONTEXT_HANDLE
<1>1. ip_node[h] = n
  BY ShapeResolvesHandles DEF HandleResolves
<1>2. ASSUME IsRoot(n)
      PROVE  CallerHandle(h) = THREAD_ROOT_SHARDED_CALLER_CONTEXT_HANDLE
  BY <1>1, <1>2 DEF IsRoot, CallerHandle
<1>3. ASSUME Below(n)
      PROVE  /\ CallerHandle(h) \in Children(parent(n))
             /\ CallerHandle(h) # THREAD_ROOT_SHARDED_CALLER_CONTEXT_HANDLE
  <2> DEFINE p == parent(n)
  <2>1. p \in Live /\ p \in used /\ p \in Node /\ p \in Reserved /\ p # NoNode
    BY <1>3, NodeAssumption DEF Below, ShapeInv, TypeOK, Live, Reserved
  <2>2. CallerHandle(h) = EndHandle(p)
    BY <1>1, <2>1 DEF CallerHandle
  <2> HIDE DEF p
  <2>3. /\ bb_node[p].start \in Nat /\ bb_node[p].max_slots \in Nat
        /\ bb_node[p].max_slots > 0 /\ bb_node[p].start >= VALID_START_CTXT_HNDL
    BY <2>1 DEF ShapeInv, TypeOK, HandleInv, Handle
  <2>4. /\ EndHandle(p) \in Nat /\ bb_node[p].start <= EndHandle(p)
        /\ EndHandle(p) < bb_node[p].start + bb_node[p].max_slots
        /\ EndHandle(p) # THREAD_ROOT_SHARDED_CALLER_CONTEXT_HANDLE
    BY <2>3 DEF EndHandle, VALID_START_CTXT_HNDL, THREAD_ROOT_SHARDED_CALLER_CONTEXT_HANDLE
  <2>5. EndHandle(p) \in Children(p)
    BY <2>1, <2>4, ChildrenInterval DEF ShapeInv
  <2> QED
    BY <2>2, <2>4, <2>5 DEF p
<1> QED
  BY <1>1, <1>2, <1>3

(* The walk of Backtrace, and how long it has to be.                       *)
WalkOf(walk, K) ==
  walk = [k \in 0 .. K |->
            [g \in LiveHandles |->
               IF k = 0 \/ CallerHandle(g) = THREAD_ROOT_SHARDED_CALLER_CONTEXT_HANDLE THEN <<>>
               ELSE Append(walk[k - 1][CallerHandle(g)], bb_node[ip_node[g]].key)]]

(* There is one: the walks of k steps give those of k + 1.                 *)
LEMMA WalkExists ==
  ASSUME ShapeInv, NEW K \in Nat
  PROVE  \E walk : WalkOf(walk, K)
<1> DEFINE V == [LiveHandles -> Seq(Key)]
           AtRoot(h) == CallerHandle(h) = THREAD_ROOT_SHARDED_CALLER_CONTEXT_HANDLE
           More(w) == [h \in LiveHandles |->
                         IF AtRoot(h) THEN <<>>
                         ELSE Append(w[CallerHandle(h)], bb_node[ip_node[h]].key)]
           g == [p \in V \X Nat |-> More(p[1])]
           v == [h \in LiveHandles |-> <<>>]
<1>1. ASSUME NEW w \in V PROVE More(w) \in V
  <2>1. ASSUME NEW h \in LiveHandles, ~AtRoot(h)
        PROVE  Append(w[CallerHandle(h)], bb_node[ip_node[h]].key) \in Seq(Key)
    <3>1. PICK n \in Live : h \in Children(n)
      BY DEF LiveHandles
    <3>2. ip_node[h] = n /\ (IsRoot(n) \/ Below(n))
      BY <3>1, CallerHandles DEF ShapeInv, TreeInv
    <3>3. Below(n)
      BY <2>1, <3>1, <3>2, CallerHandles
    <3>4. bb_node[n].key \in Key /\ CallerHandle(h) \in LiveHandles
      BY <3>1, <3>3, CallerHandles DEF Below, LiveHandles, Key
    <3>5. w[CallerHandle(h)] \in Seq(Key)
      BY <3>4
    <3> QED
      BY <3>2, <3>4, <3>5, AppendProperties
  <2>2. <<>> \in Seq(Key)
    OBVIOUS
  <2> QED
    BY <2>1, <2>2
<1> HIDE DEF More
<1>2. g \in Steps(V)
  <2> HIDE DEF V
  <2> QED
    BY <1>1 DEF Steps
<1>3. v \in V
  OBVIOUS
<1> HIDE DEF V, g, v
<1>4. PICK f : Iterates(f, V, v, g)
  BY <1>2, <1>3, Recursion
<1>5. f \in [Nat -> V] /\ f[0] = v /\ \A k \in Nat : f[k + 1] = g[<<f[k], k>>]
  BY <1>4 DEF Iterates
<1>6. ASSUME NEW k \in Nat PROVE f[k + 1] = More(f[k])
  <2>1. <<f[k], k>> \in V \X Nat
    BY <1>5
  <2>2. g[<<f[k], k>>] = More(f[k])
    BY <2>1 DEF g
  <2> QED
    BY <1>5, <2>2
<1> DEFINE walk == [k \in 0 .. K |-> f[k]]
<1>7. ASSUME NEW k \in 0 .. K
      PROVE  walk[k] = [h \in LiveHandles |->
                          IF k = 0 \/ AtRoot(h) THEN <<>>
                          ELSE Append(walk[k - 1][CallerHandle(h)], bb_node[ip_node[h]].key)]
  <2> HIDE DEF AtRoot
  <2>1. CASE k = 0
    BY <2>1, <1>5 DEF v
  <2>2. CASE k # 0
    <3>1. k - 1 \in Nat /\ k - 1 \in 0 .. K /\ (k - 1) + 1 = k
      BY <2>2
    <3>2. f[k] = More(f[k - 1])
      BY <3>1, <1>6
    <3> QED
      BY <2>2, <3>1, <3>2 DEF More
  <2> QED
    BY <2>1, <2>2
<1>8. WalkOf(walk, K)
  BY <1>7 DEF WalkOf
<1> QED
  BY <1>8

(* A walk that may take as many steps as the context has blocks gives the  *)
(* context.                                                                *)
LEMMA WalkExact ==
  ASSUME ShapeInv, NEW K \in Nat, NEW walk, WalkOf(walk, K)
  PROVE  \A n \in Live : Len(path[n]) <= K => \A h \in Children(n) : walk[K][h] = path[n]
<1> DEFINE Reads(k) == \A n \in Live : Len(path[n]) <= k =>
                                        \A h \in Children(n) : walk[k][h] = path[n]
           T == {k \in 0 .. K : Reads(k)}
           AtRoot(h) == CallerHandle(h) = THREAD_ROOT_SHARDED_CALLER_CONTEXT_HANDLE
<1>1. ASSUME NEW h \in LiveHandles, NEW k \in 0 .. K
      PROVE  walk[k][h] = IF k = 0 \/ AtRoot(h) THEN <<>>
                          ELSE Append(walk[k - 1][CallerHandle(h)], bb_node[ip_node[h]].key)
  <2> DEFINE W == [j \in 0 .. K |->
                     [i \in LiveHandles |->
                        IF j = 0 \/ AtRoot(i) THEN <<>>
                        ELSE Append(walk[j - 1][CallerHandle(i)], bb_node[ip_node[i]].key)]]
  <2>1. walk = W
    BY Zenon DEF WalkOf
  <2> HIDE DEF AtRoot
  <2>2. W[k][h] = IF k = 0 \/ AtRoot(h) THEN <<>>
                  ELSE Append(walk[k - 1][CallerHandle(h)], bb_node[ip_node[h]].key)
    OBVIOUS
  <2> HIDE DEF W
  <2> QED
    BY <2>1, <2>2
<1>2. ASSUME NEW n \in Live
      PROVE  /\ n \in Node /\ path[n] \in Seq(Block) /\ Len(path[n]) \in Nat
             /\ Len(path[n]) = 0 => path[n] = <<>>
             /\ Children(n) \subseteq LiveHandles
  BY LenProperties, EmptySeq DEF Live, ShapeInv, TypeOK, LiveHandles
<1>3. 0 \in T
  BY <1>1, <1>2
<1>4. ASSUME NEW k \in 0 .. K - 1, k \in T PROVE k + 1 \in T
  <2> SUFFICES ASSUME NEW n \in Live, Len(path[n]) <= k + 1, NEW h \in Children(n)
               PROVE  walk[k + 1][h] = path[n]
    OBVIOUS
  <2>1. h \in LiveHandles /\ k + 1 \in 0 .. K /\ k + 1 # 0 /\ (k + 1) - 1 = k
    BY <1>2
  <2>2. walk[k + 1][h] = IF AtRoot(h) THEN <<>>
                         ELSE Append(walk[k][CallerHandle(h)], bb_node[n].key)
    BY <1>1, <2>1, CallerHandles
  <2>3. CASE IsRoot(n)
    BY <2>2, <2>3, CallerHandles DEF IsRoot
  <2>4. CASE Below(n)
    <3>1. /\ parent(n) \in Live /\ bb_node[n].key \in Block
          /\ path[n] = Append(path[parent(n)], bb_node[n].key)
      BY <2>4 DEF Below
    <3>2. CallerHandle(h) \in Children(parent(n)) /\ ~AtRoot(h)
      BY <2>4, CallerHandles
    <3>3. Len(path[n]) = Len(path[parent(n)]) + 1
      BY <3>1, <1>2, AppendLastFront
    <3>4. walk[k][CallerHandle(h)] = path[parent(n)]
      BY <1>2, <1>4, <3>1, <3>2, <3>3
    <3> QED
      BY <2>2, <3>1, <3>2, <3>4
  <2> QED
    BY <2>3, <2>4 DEF ShapeInv, TreeInv
<1> HIDE DEF T
<1>5. 0 .. K \subseteq T
  BY <1>3, <1>4, IntervalInduction
<1>6. Reads(K)
  BY <1>5 DEF T
<1> QED
  BY <1>6

(* So the walk from a live node's handle to the root gives the context the *)
(* node stands for.                                                        *)
LEMMA WalkGivesContext == ShapeInv /\ DepthInv => BacktraceExact
<1> SUFFICES ASSUME ShapeInv, DepthInv, NEW n \in Live, NEW h \in Children(n)
             PROVE  Backtrace(h) = path[n]
  BY DEF BacktraceExact
<1> DEFINE K == Cardinality(Node)
           walk == CHOOSE w : WalkOf(w, K)
<1>1. K \in Nat /\ Len(path[n]) <= K
  BY UsedCounted, LenProperties DEF ShapeInv, TypeOK, DepthInv, Live
<1>2. Backtrace(h) = walk[K][h]
  BY Zenon DEF Backtrace, WalkOf
<1>3. \E w : WalkOf(w, K)
  BY <1>1, WalkExists
<1>4. WalkOf(walk, K)
  BY <1>3, Zenon
<1> HIDE DEF walk, K
<1> QED
  BY <1>1, <1>2, <1>4, WalkExact

(* The walk from a handle of a node to the root recovers the context the   *)
(* node was created for (drcctlib_get_cct).                                *)
THEOREM BacktracesExact == Spec => []BacktraceExact
BY WalkGivesContext, ShapeInductive, DepthInductive, PTL

-----------------------------------------------------------------------------
(* CCT implements CallContext, on top of the inductive invariant.          *)

(* What the abstract identities are: a function of the contexts that live  *)
(* nodes stand for, whose value at the context of a node is the node's     *)
(* first handle.                                                           *)
IdsExact ==
  /\ absId = [c \in DOMAIN absId |-> absId[c]]
  /\ DOMAIN absId = {Context(n) : n \in Live}
  /\ \A n \in Live : absId[Context(n)] = bb_node[n].start

LEMMA IdsAreExact == IInv => IdsExact
<1> SUFFICES ASSUME IInv PROVE IdsExact
  OBVIOUS
<1>1. absId = [c \in DOMAIN absId |-> absId[c]] /\ DOMAIN absId = {Context(n) : n \in Live}
  BY DEF absId
<1>2. ASSUME NEW n \in Live PROVE absId[Context(n)] = bb_node[n].start
  <2>1. NodeOf(Context(n)) \in Live /\ Context(NodeOf(Context(n))) = Context(n)
    BY DEF NodeOf
  <2>2. NodeOf(Context(n)) = n
    BY <2>1 DEF IInv, ShapeInv, OneNodePerContext, Context
  <2> QED
    BY <2>2 DEF absId
<1> QED
  BY <1>1, <1>2 DEF IdsExact

LEMMA IdsAreExactNext == IInv' => IdsExact'
BY IdsAreExact, PTL

(* A step that leaves the live nodes as they are changes no identity.      *)
LEMMA SameIds ==
  ASSUME IInv, IInv', Live' = Live,
         \A n \in Live : bb_node'[n].start = bb_node[n].start /\ Context(n)' = Context(n)
  PROVE  absId' = absId
<1>1. IdsExact /\ IdsExact'
  BY IdsAreExact, IdsAreExactNext
<1>2. DOMAIN absId' = DOMAIN absId
  BY <1>1 DEF IdsExact
<1>3. ASSUME NEW c \in DOMAIN absId PROVE absId'[c] = absId[c]
  BY <1>1, <1>2, <1>3 DEF IdsExact
<1> QED
  BY <1>1, <1>2, <1>3 DEF IdsExact

(* A step that makes one node live gives its context, and no other, an     *)
(* identity.                                                               *)
LEMMA OneMoreId ==
  ASSUME IInv, IInv', NEW n \in Node, n \notin Live, Live' = Live \cup {n},
         \A m \in Live' : bb_node'[m].start = bb_node[m].start /\ Context(m)' = Context(m)
  PROVE  /\ Context(n) \notin DOMAIN absId
         /\ bb_node[n].start \in Handle \ Range(absId)
         /\ absId' = [d \in DOMAIN absId \cup {Context(n)} |->
                        IF d = Context(n) THEN bb_node[n].start ELSE absId[d]]
<1>1. IdsExact /\ IdsExact'
  BY IdsAreExact, IdsAreExactNext
<1>2. Context(n) \notin DOMAIN absId
  <2>1. \A m \in Live : Context(m) # Context(n)
    BY DEF IInv, ShapeInv, OneNodePerContext, Context
  <2> QED
    BY <2>1, <1>1 DEF IdsExact
<1>3. DOMAIN absId' = DOMAIN absId \cup {Context(n)}
  BY <1>1 DEF IdsExact
<1>4. ASSUME NEW m \in Live PROVE bb_node[m].start # bb_node[n].start
  <2>1. m \in Reserved' /\ n \in Reserved' /\ m # n /\ m \in Live' /\ n \in Live'
    BY DEF Live, Reserved
  <2>2. /\ bb_node'[m].max_slots \in Nat /\ bb_node'[n].max_slots \in Nat
        /\ bb_node'[m].start \in Nat /\ bb_node'[n].start \in Nat
        /\ bb_node'[m].max_slots > 0 /\ bb_node'[n].max_slots > 0
    BY <2>1 DEF IInv, ShapeInv, TypeOK, Handle, HandleInv, Live
  <2>3. \/ bb_node'[m].start + bb_node'[m].max_slots <= bb_node'[n].start
        \/ bb_node'[n].start + bb_node'[n].max_slots <= bb_node'[m].start
    BY <2>1 DEF IInv, ShapeInv, HandleInv
  <2>4. bb_node'[m].start # bb_node'[n].start
    BY <2>2, <2>3
  <2> QED
    BY <2>1, <2>4
<1>5. bb_node[n].start \in Handle \ Range(absId)
  <2>1. \A c \in DOMAIN absId : absId[c] # bb_node[n].start
    BY <1>1, <1>4 DEF IdsExact
  <2>2. bb_node[n].start \in Handle
    BY DEF IInv, ShapeInv, TypeOK
  <2> QED
    BY <2>1, <2>2 DEF Range
<1>6. ASSUME NEW d \in DOMAIN absId'
      PROVE  absId'[d] = IF d = Context(n) THEN bb_node[n].start ELSE absId[d]
  BY <1>1, <1>2, <1>3 DEF IdsExact
<1> QED
  BY <1>1, <1>2, <1>3, <1>5, <1>6 DEF IdsExact

-----------------------------------------------------------------------------
(* AppPath means the same in both specifications.                          *)
LEMMA SameEnter == \A p, b : CC!Enter(p, b) = Enter(p, b)
BY DEF CC!Enter, Enter, CC!Last, Last, CC!Front, Front

LEMMA SameRange == \A f : CC!Range(f) = Range(f)
BY DEF CC!Range, Range

(* The threads start at their empty contexts, and no context is known.     *)
LEMMA InitRefines == Init => CC!Init
<1> SUFFICES ASSUME Init PROVE CC!Init
  OBVIOUS
<1>1. absPath = [t \in Thread |-> <<>>]
  BY DEF Init, absPath
<1>2. Live = {}
  BY DEF Init, Live
<1>3. DOMAIN absId = {} /\ absId = [c \in DOMAIN absId |-> absId[c]]
  BY <1>2 DEF absId
<1>4. absId = [c \in {} |-> 0]
  BY <1>3
<1> QED
  BY <1>1, <1>4 DEF CC!Init

(* A thread that runs, and whose node is not being replaced, keeps its     *)
(* abstract path.                                                          *)
LEMMA SamePath ==
  ASSUME IInv, cur' = cur, \A n \in Live : path'[n] = path[n]
  PROVE  absPath' = absPath
<1>1. \A t \in Thread : cur[t] # NoNode => cur[t] \in Live
  <2> SUFFICES ASSUME NEW t \in Thread, cur[t] # NoNode PROVE cur[t] \in Live
    OBVIOUS
  <2>1. ThreadOK(t) /\ phase[t] \in {"off", "reserve", "fill", "run", "ended"}
    BY DEF IInv, ShapeInv, TypeOK, ThreadInv
  <2>2. phase[t] \in {"run", "ended"} \/ MakingBB(t)
    BY <2>1 DEF ThreadOK, MakingBB, MakingRoot, Busy
  <2> QED
    BY <2>1, <2>2 DEF ThreadOK, AtNode
<1> QED
  BY <1>1 DEF absPath

(* Steps that only prepare a node, or end a thread or the process, are not *)
(* seen by the abstraction.                                                *)
LEMMA PreparationStutters ==
  ASSUME IInv, IInv', Live' = Live, cur' = cur,
         \A n \in Live : /\ bb_node'[n].start = bb_node[n].start
                         /\ owner'[n] = owner[n] /\ path'[n] = path[n]
  PROVE  UNCHANGED CC!vars
<1>1. \A n \in Live : Context(n)' = Context(n)
  BY DEF Context
<1>2. absId' = absId
  BY <1>1, SameIds
<1> QED
  BY <1>2, SamePath DEF CC!vars

LEMMA TakeNodeStutters ==
  ASSUME IInv, IInv', NEW t \in Thread, ~Busy(t), NEW key, NEW caller, NEW slots, NEW ctx,
         TakeNode(t, key, caller, slots, ctx)
  PROVE  UNCHANGED CC!vars
<1>1. CASE used = Node
  <2>1. UNCHANGED <<shared, threads, history>>
    BY <1>1 DEF TakeNode, ExitProcess
  <2> QED
    BY <2>1, PreparationStutters DEF shared, threads, history, Live
<1>2. CASE used # Node
  <2>1. PICK n \in Node : Took(t, n, NewBB(key, caller, slots), ctx)
    BY <1>2, TakeNodeFrame DEF IInv
  <2>2. Live' = Live /\ cur' = cur
    BY <2>1 DEF Took
  <2>3. \A m \in Live : m \in Node /\ m # n
    BY <2>1 DEF Took
  <2>4. \A m \in Live : bb_node'[m] = bb_node[m] /\ owner'[m] = owner[m] /\ path'[m] = path[m]
    BY <2>1, <2>3 DEF Took, IInv, ShapeInv, TypeOK
  <2> QED
    BY <2>2, <2>4, PreparationStutters
<1> QED
  BY <1>1, <1>2

LEMMA ReserveStutters ==
  ASSUME IInv, IInv', NEW t \in Thread, ReserveHandles(t)
  PROVE  UNCHANGED CC!vars
<1>1. Busy(t) /\ UNCHANGED <<used, making, cur, history>>
  BY DEF ReserveHandles, Busy
<1>2. making[t] \notin Live /\ Live' = Live
  BY <1>1, MakingDistinct DEF Live, IInv
<1>3. \A n \in Live : bb_node'[n] = bb_node[n]
  BY <1>2 DEF ReserveHandles, IInv, ShapeInv, TypeOK, Live
<1> QED
  BY <1>1, <1>2, <1>3, PreparationStutters DEF history

(* The end of pt_init is the birth of the thread's root context.           *)
LEMMA FinishRootRefines ==
  ASSUME IInv, IInv', NEW t \in Thread, FinishRoot(t)
  PROVE  CC!Begin(t)
<1>1. PICK n \in Node : n = making[t]
  BY MakingDistinct DEF FinishRoot, Busy, IInv
<1>2. /\ phase[t] = "fill" /\ Busy(t) /\ MakingRoot(t) /\ FillChildren(making[t])
      /\ making' = [making EXCEPT ![t] = NoNode] /\ phase' = [phase EXCEPT ![t] = "run"]
      /\ UNCHANGED <<idle_idx, used, bb_node, owner, path>>
      /\ cur' = [cur EXCEPT ![t] = n]
  BY <1>1 DEF FinishRoot, MoveTo, Busy, MakingRoot, history
<1>3. n \notin Live /\ Live' = Live \cup {n} /\ owner[n] = t /\ path[n] = <<>> /\ n # NoNode
  BY <1>1, <1>2, MakingDistinct, FinishHandles, NodeAssumption DEF IInv, ShapeInv, MakingInv, MakingOK, ContextInv, ContextOK
<1>4. \A m \in Live' : bb_node'[m].start = bb_node[m].start /\ Context(m)' = Context(m)
  BY <1>2 DEF Context
<1>5. /\ Context(n) \notin DOMAIN absId
      /\ bb_node[n].start \in Handle \ Range(absId)
      /\ absId' = [d \in DOMAIN absId \cup {Context(n)} |->
                     IF d = Context(n) THEN bb_node[n].start ELSE absId[d]]
  BY <1>3, <1>4, OneMoreId
<1>6. Context(n) = <<t, <<>>>>
  BY <1>3 DEF Context
<1>7. absPath' = absPath
  <2>1. cur[t] = NoNode
    BY <1>2 DEF IInv, ShapeInv, ThreadInv, ThreadOK
  <2>2. path' = path /\ cur \in [Thread -> Node \cup {NoNode}]
    BY <1>2 DEF IInv, ShapeInv, TypeOK
  <2> QED
    BY <1>2, <1>3, <2>1, <2>2 DEF absPath
<1> QED
  BY <1>5, <1>6, <1>7, SameRange DEF CC!Begin, CC!Identify, CC!Known

(* Entering a block whose context has a node.                              *)
LEMMA EnterKnownBBRefines ==
  ASSUME IInv, IInv', NEW t \in Thread, NEW b \in Block, EnterKnownBB(t, b)
  PROVE  CC!Go(t, b)
<1>1. PICK n : n = callee[CallerNode(t)][b]
  OBVIOUS
<1>2. /\ phase[t] = "run" /\ cur' = [cur EXCEPT ![t] = n] /\ phase'[t] = "run"
      /\ callPath' = [callPath EXCEPT ![t] = Enter(callPath[t], b)]
      /\ UNCHANGED <<used, making, bb_node, owner, path>>
  BY <1>1 DEF EnterKnownBB, MoveTo, shared, IInv, ShapeInv, TypeOK
<1>3. Live' = Live
  BY <1>2 DEF Live
<1>4. absId' = absId
  BY <1>2, <1>3, SameIds DEF Context
<1>5. cur[t] \in Live /\ owner[cur[t]] = t /\ path[cur[t]] = callPath[t]
  BY <1>2 DEF IInv, ShapeInv, ThreadInv, ThreadOK, AtNode, ContextInv, ContextOK
<1>6. cur'[t] \in Live /\ owner[cur'[t]] = t /\ path[cur'[t]] = callPath'[t] /\ cur'[t] = n
  BY <1>2, <1>3 DEF IInv, ShapeInv, ThreadInv, ThreadOK, AtNode, TypeOK, ContextInv, ContextOK
<1>7. Live \subseteq Node /\ callPath \in [Thread -> Seq(Block)]
  BY DEF IInv, ShapeInv, TypeOK, Live
<1>8. absPath[t] = callPath[t] /\ absPath'[t] = Enter(absPath[t], b)
  BY <1>2, <1>5, <1>6, <1>7, NodeAssumption DEF absPath
<1>9. absPath' = [absPath EXCEPT ![t] = Enter(absPath[t], b)]
  <2>1. \A u \in Thread : u # t => cur'[u] = cur[u]
    BY <1>2 DEF IInv, ShapeInv, TypeOK
  <2>2. \A u \in Thread : u # t => absPath'[u] = absPath[u]
    BY <2>1, <1>2 DEF absPath
  <2>3. absPath' = [u \in Thread |-> absPath'[u]] /\ absPath = [u \in Thread |-> absPath[u]]
    BY DEF absPath
  <2> QED
    BY <2>2, <2>3, <1>8
<1>10. <<t, absPath[t]>> \in DOMAIN absId /\ <<t, Enter(absPath[t], b)>> \in DOMAIN absId
  <2>1. Context(cur[t]) = <<t, absPath[t]>> /\ Context(n) = <<t, Enter(absPath[t], b)>>
    BY <1>2, <1>5, <1>6, <1>8, <1>7 DEF Context, IInv, ShapeInv, TypeOK
  <2> QED
    BY <2>1, <1>5, <1>6, IdsAreExact DEF IdsExact
<1> QED
  BY <1>4, <1>9, <1>10, SameEnter DEF CC!Go, CC!Identify, CC!Known

(* Entering a block whose context got a node for it.                       *)
LEMMA FinishBBRefines ==
  ASSUME IInv, IInv', NEW t \in Thread, FinishBB(t)
  PROVE  \E b \in Block : CC!Go(t, b)
<1>1. PICK n \in Node : n = making[t]
  BY MakingDistinct DEF FinishBB, Busy, IInv
<1>2. /\ phase[t] = "fill" /\ Busy(t) /\ MakingBB(t) /\ FillChildren(making[t])
      /\ making' = [making EXCEPT ![t] = NoNode] /\ phase' = [phase EXCEPT ![t] = "run"]
      /\ UNCHANGED <<idle_idx, used, bb_node, owner, path, callPath>>
      /\ cur' = [cur EXCEPT ![t] = n]
  BY <1>1 DEF FinishBB, MoveTo, Busy, MakingBB, history
<1>3. n \notin Live /\ Live' = Live \cup {n} /\ owner[n] = t /\ n # NoNode
      /\ Below(n) /\ path[n] = callPath[t]
  BY <1>1, <1>2, MakingDistinct, FinishHandles, NodeAssumption DEF IInv, ShapeInv, MakingInv, MakingOK, ContextInv, ContextOK
<1>4. \A m \in Live' : bb_node'[m].start = bb_node[m].start /\ Context(m)' = Context(m)
  BY <1>2 DEF Context
<1>5. /\ Context(n) \notin DOMAIN absId
      /\ bb_node[n].start \in Handle \ Range(absId)
      /\ absId' = [d \in DOMAIN absId \cup {Context(n)} |->
                     IF d = Context(n) THEN bb_node[n].start ELSE absId[d]]
  BY <1>3, <1>4, OneMoreId
<1>6. PICK b \in Block : b = bb_node[n].key
  BY <1>3 DEF Below
<1>7. cur[t] \in Live /\ cur[t] \in Node /\ owner[cur[t]] = t /\ path[n] = Enter(path[cur[t]], b)
  BY <1>1, <1>2, <1>6 DEF IInv, ShapeInv, ThreadInv, ThreadOK, AtNode, MakingInv, MakingOK, ContextInv, ContextOK, TypeOK, Live
<1>8. absPath[t] = path[cur[t]] /\ absPath'[t] = Enter(absPath[t], b)
  BY <1>2, <1>3, <1>7, NodeAssumption DEF absPath, IInv, ShapeInv, TypeOK
<1>9. absPath' = [absPath EXCEPT ![t] = Enter(absPath[t], b)]
  <2>1. \A u \in Thread : u # t => cur'[u] = cur[u]
    BY <1>2 DEF IInv, ShapeInv, TypeOK
  <2>2. \A u \in Thread : u # t => absPath'[u] = absPath[u]
    BY <2>1, <1>2 DEF absPath
  <2>3. absPath' = [u \in Thread |-> absPath'[u]] /\ absPath = [u \in Thread |-> absPath[u]]
    BY DEF absPath
  <2> QED
    BY <2>2, <2>3, <1>8
<1>10. <<t, absPath[t]>> \in DOMAIN absId /\ Context(n) = <<t, Enter(absPath[t], b)>>
  <2>1. Context(cur[t]) = <<t, absPath[t]>>
    BY <1>7, <1>8 DEF Context
  <2> QED
    BY <2>1, <1>3, <1>7, <1>8, IdsAreExact DEF IdsExact, Context
<1>11. CC!Go(t, b)
  BY <1>5, <1>9, <1>10, SameEnter, SameRange DEF CC!Go, CC!Identify, CC!Known
<1> QED
  BY <1>11

-----------------------------------------------------------------------------
(* Every step of the tree is a step of the abstract dictionary, or none.   *)
LEMMA StepRefines == IInv /\ IInv' /\ [Next]_vars => [CC!Next]_(CC!vars)
<1> SUFFICES ASSUME IInv, IInv', [Next]_vars PROVE [CC!Next]_(CC!vars)
  OBVIOUS
<1>1. CASE UNCHANGED vars
  BY <1>1, PreparationStutters DEF vars, shared, threads, history, Live
<1>2. ASSUME NEW t \in Thread, ThreadStart(t) PROVE UNCHANGED CC!vars
  BY <1>2, TakeNodeStutters DEF ThreadStart, Busy
<1>3. ASSUME NEW t \in Thread, NEW b \in Block, EnterNewBB(t, b) PROVE UNCHANGED CC!vars
  BY <1>3, TakeNodeStutters DEF EnterNewBB, Busy
<1>4. ASSUME NEW t \in Thread, ReserveHandles(t) PROVE UNCHANGED CC!vars
  BY <1>4, ReserveStutters
<1>5. ASSUME NEW t \in Thread, ThreadEnd(t) PROVE UNCHANGED CC!vars
  BY <1>5, PreparationStutters DEF ThreadEnd, GiveBack, history, Live
<1>6. ASSUME NEW t \in Thread, FinishRoot(t) PROVE CC!Next
  BY <1>6, FinishRootRefines DEF CC!Next
<1>7. ASSUME NEW t \in Thread, NEW b \in Block, EnterKnownBB(t, b) PROVE CC!Next
  BY <1>7, EnterKnownBBRefines DEF CC!Next
<1>8. ASSUME NEW t \in Thread, FinishBB(t) PROVE CC!Next
  BY <1>8, FinishBBRefines DEF CC!Next
<1> QED
  BY <1>1, <1>2, <1>3, <1>4, <1>5, <1>6, <1>7, <1>8 DEF Next, Step

(* The calling-context tree implements the abstract dictionary: threads    *)
(* are always in their real calling contexts, and every context keeps the  *)
(* one identity it was given.                                              *)
THEOREM TreeImplementsContexts == Spec => Implements
<1>1. Spec => CC!Init
  BY InitRefines DEF Spec
<1>2. IInv /\ IInv' /\ [Next]_vars => [CC!Next]_(CC!vars)
  BY StepRefines
<1> QED
  BY <1>1, <1>2, Inductive, PTL DEF Spec, Implements, CC!Spec

-----------------------------------------------------------------------------
(* Signals.  What a handler's return restores, whatever the trees look     *)
(* like by then: nothing is assumed of the trees.                          *)
IsSeq(s) == s \in Seq({s[i] : i \in DOMAIN s})

(* Only the last signal of a thread has a handler that was not interrupted, *)
(* and then the one saved node is that of this signal.                     *)
Saved(t) ==
  /\ IsSeq(interrupted[t])
  /\ \A i \in 1 .. Len(interrupted[t]) : "nested" \in DOMAIN interrupted[t][i]
  /\ \A i \in 1 .. Len(interrupted[t]) - 1 : interrupted[t][i].nested
  /\ interrupted[t] # <<>> /\ ~Last(interrupted[t]).nested
       => signal_raise[t] = Last(interrupted[t]).node

SignalInv ==
  /\ cur = [t \in Thread |-> cur[t]]
  /\ signal_raise = [t \in Thread |-> signal_raise[t]]
  /\ interrupted = [t \in Thread |-> interrupted[t]]
  /\ \A t \in Thread : Saved(t)

-----------------------------------------------------------------------------
LEMMA FunctionIsSeq ==
  ASSUME NEW n \in Nat, NEW f, f = [i \in 1 .. n |-> f[i]]
  PROVE  IsSeq(f) /\ Len(f) = n
<1> DEFINE S == {f[i] : i \in DOMAIN f}
<1>1. DOMAIN f = 1 .. n
  OBVIOUS
<1>2. f \in [1 .. n -> S]
  BY <1>1
<1> HIDE DEF S
<1>3. f \in Seq(S)
  BY <1>2, SeqDef
<1>4. Len(f) = n
  BY <1>1, <1>3, LenProperties
<1> QED
  BY <1>3, <1>4 DEF IsSeq, S

LEMMA SeqIsFunction ==
  ASSUME NEW s, IsSeq(s)
  PROVE  /\ Len(s) \in Nat /\ DOMAIN s = 1 .. Len(s)
         /\ s = [i \in 1 .. Len(s) |-> s[i]]
         /\ s = <<>> <=> Len(s) = 0
<1> DEFINE S == {s[i] : i \in DOMAIN s}
<1>1. s \in Seq(S)
  BY DEF IsSeq
<1> HIDE DEF S
<1>2. Len(s) \in Nat /\ DOMAIN s = 1 .. Len(s) /\ s \in [1 .. Len(s) -> S]
  BY <1>1, LenProperties
<1>3. s = <<>> <=> Len(s) = 0
  BY <1>1, EmptySeq
<1> QED
  BY <1>2, <1>3

LEMMA AppendIs ==
  ASSUME NEW s, IsSeq(s), NEW e
  PROVE  /\ IsSeq(Append(s, e)) /\ Len(Append(s, e)) = Len(s) + 1
         /\ \A i \in 1 .. Len(s) : Append(s, e)[i] = s[i]
         /\ Append(s, e)[Len(s) + 1] = e
<1> DEFINE S == {s[i] : i \in DOMAIN s} \cup {e}
<1>1. s \in Seq(S) /\ e \in S
  <2>1. DOMAIN s = 1 .. Len(s) /\ Len(s) \in Nat /\ s = [i \in 1 .. Len(s) |-> s[i]]
    BY SeqIsFunction
  <2>2. s \in [1 .. Len(s) -> S]
    BY <2>1
  <2> QED
    BY <2>1, <2>2, SeqDef
<1> HIDE DEF S
<1>2. /\ Append(s, e) \in Seq(S) /\ Len(Append(s, e)) = Len(s) + 1
      /\ \A i \in 1 .. Len(s) : Append(s, e)[i] = s[i]
      /\ Append(s, e)[Len(s) + 1] = e
  BY <1>1, AppendProperties
<1>3. Len(s) + 1 \in Nat /\ Append(s, e) = [i \in 1 .. Len(s) + 1 |-> Append(s, e)[i]]
  BY <1>1, <1>2, LenProperties
<1> QED
  BY <1>2, <1>3, FunctionIsSeq

LEMMA FrontIs ==
  ASSUME NEW s, IsSeq(s), s # <<>>
  PROVE  /\ IsSeq(Front(s)) /\ Len(Front(s)) = Len(s) - 1
         /\ \A i \in 1 .. Len(s) - 1 : Front(s)[i] = s[i]
<1>1. Len(s) \in Nat /\ Len(s) > 0
  BY SeqIsFunction
<1> DEFINE S == {s[i] : i \in DOMAIN s}
<1>2. s \in Seq(S)
  BY DEF IsSeq
<1> HIDE DEF S
<1> DEFINE k == Len(s) - 1
<1>3. k \in Nat /\ k \in Int /\ 1 \in Int
  BY <1>1
<1>4. \A i \in 1 .. k : s[i] \in S
  BY <1>1, <1>2, ElementOfSeq
<1>5. Front(s) = SubSeq(s, 1, k)
  BY DEF Front
<1> HIDE DEF k
<1>6. /\ SubSeq(s, 1, k) \in Seq(S)
      /\ Len(SubSeq(s, 1, k)) = IF 1 <= k THEN k - 1 + 1 ELSE 0
      /\ \A i \in 1 .. k - 1 + 1 : SubSeq(s, 1, k)[i] = s[1 + i - 1]
  BY <1>3, <1>4, SubSeqProperties
<1>7. Len(SubSeq(s, 1, k)) = k
  BY <1>3, <1>6
<1>8. Front(s) \in Seq(S) /\ Len(Front(s)) = Len(s) - 1
  BY <1>5, <1>6, <1>7 DEF k
<1>9. \A i \in 1 .. Len(s) - 1 : Front(s)[i] = s[i]
  BY <1>3, <1>5, <1>6 DEF k
<1>10. Front(s) = [i \in 1 .. Len(Front(s)) |-> Front(s)[i]] /\ Len(Front(s)) \in Nat
  BY <1>8, LenProperties
<1> QED
  BY <1>8, <1>9, <1>10, FunctionIsSeq

-----------------------------------------------------------------------------
LEMMA SignalInvInit == SignalInit => SignalInv
<1> SUFFICES ASSUME SignalInit PROVE SignalInv
  OBVIOUS
<1>1. /\ cur = [t \in Thread |-> cur[t]]
      /\ signal_raise = [t \in Thread |-> signal_raise[t]]
      /\ interrupted = [t \in Thread |-> interrupted[t]]
  BY DEF SignalInit, Init
<1>2. ASSUME NEW t \in Thread PROVE Saved(t)
  <2>1. interrupted[t] = <<>> /\ <<>> = [i \in 1 .. 0 |-> <<>>[i]]
    BY DEF SignalInit
  <2>2. IsSeq(<<>>) /\ Len(<<>>) = 0
    BY <2>1, FunctionIsSeq
  <2> QED
    BY <2>1, <2>2 DEF Saved
<1> QED
  BY <1>1, <1>2 DEF SignalInv

LEMMA StepKeepsCur ==
  ASSUME SignalInv, NEW t \in Thread, Step(t)
  PROVE  cur' = [u \in Thread |-> cur'[u]]
<1>1. cur = [u \in Thread |-> cur[u]]
  BY DEF SignalInv
<1>2. CASE ThreadStart(t) \/ ReserveHandles(t) \/ ThreadEnd(t)
  <2>1. cur' = cur
    BY <1>2 DEF ThreadStart, ReserveHandles, ThreadEnd, TakeNode, ExitProcess, threads
  <2> QED
    BY <1>1, <2>1
<1>3. CASE FinishRoot(t) \/ FinishBB(t) \/ \E b \in Block : EnterKnownBB(t, b)
  <2>1. \E n : cur' = [cur EXCEPT ![t] = n]
    BY <1>3 DEF FinishRoot, FinishBB, EnterKnownBB, MoveTo
  <2> QED
    BY <1>1, <2>1
<1>4. CASE \E b \in Block : EnterNewBB(t, b)
  <2>1. cur' = cur
    BY <1>4 DEF EnterNewBB, TakeNode, ExitProcess, threads
  <2> QED
    BY <1>1, <2>1
<1> QED
  BY <1>2, <1>3, <1>4 DEF Step

LEMMA SignalStep ==
  ASSUME SignalInv, SignalNext
  PROVE  /\ SignalInv'
         /\ \A t \in Thread : /\ Len(interrupted'[t]) < Len(interrupted[t])
                              /\ ~Last(interrupted[t]).nested
                              => cur'[t] = Last(interrupted[t]).node
<1> DEFINE Restores(u) == /\ Len(interrupted'[u]) < Len(interrupted[u])
                          /\ ~Last(interrupted[u]).nested
                          => cur'[u] = Last(interrupted[u]).node
<1> SUFFICES SignalInv' /\ \A u \in Thread : Restores(u)
  OBVIOUS
<1>0. /\ cur = [u \in Thread |-> cur[u]]
      /\ signal_raise = [u \in Thread |-> signal_raise[u]]
      /\ interrupted = [u \in Thread |-> interrupted[u]]
      /\ \A u \in Thread : Saved(u)
  BY DEF SignalInv
<1>1. ASSUME NEW u \in Thread, interrupted'[u] = interrupted[u],
             signal_raise'[u] = signal_raise[u]
      PROVE  Saved(u)' /\ Restores(u)
  <2>1. Len(interrupted[u]) \in Nat
    BY <1>0, SeqIsFunction DEF Saved
  <2> QED
    BY <1>0, <1>1, <2>1 DEF Saved
<1>2. PICK t \in Thread : BuildTree(t) \/ Dereference(t) \/ SignalDelivery(t) \/ SignalReturn(t)
  BY DEF SignalNext
<1>3. CASE BuildTree(t) \/ Dereference(t)
  <2>1. UNCHANGED <<signal_raise, interrupted>>
    BY <1>3 DEF BuildTree, Dereference
  <2>2. cur' = [u \in Thread |-> cur'[u]]
    <3>1. CASE BuildTree(t)
      BY <3>1, StepKeepsCur DEF BuildTree
    <3>2. CASE Dereference(t)
      BY <1>0, <3>2 DEF Dereference, ExitProcess, threads
    <3> QED
      BY <1>3, <3>1, <3>2
  <2>3. \A u \in Thread : Saved(u)' /\ Restores(u)
    BY <1>1, <2>1
  <2> HIDE DEF Restores
  <2> QED
    BY <1>0, <2>1, <2>2, <2>3 DEF SignalInv
<1>4. CASE SignalDelivery(t)
  <2> DEFINE s == interrupted[t]
             outer == [i \in DOMAIN s |-> [s[i] EXCEPT !.nested = TRUE]]
             here == [context |-> callPath[t], node |-> cur[t], nested |-> FALSE]
  <2>1. /\ interrupted' = [interrupted EXCEPT ![t] = Append(outer, here)]
        /\ signal_raise' = [signal_raise EXCEPT ![t] = cur[t]]
        /\ cur' = cur
    BY <1>4 DEF SignalDelivery, SaveCur, vars, threads
  <2>2. interrupted'[t] = Append(outer, here) /\ signal_raise'[t] = cur[t]
    <3> HIDE DEF outer, here
    <3> QED
      BY <1>0, <2>1
  <2>3. /\ Len(s) \in Nat /\ DOMAIN s = 1 .. Len(s)
        /\ \A i \in 1 .. Len(s) : "nested" \in DOMAIN s[i]
    BY <1>0, SeqIsFunction DEF Saved
  <2>4. IsSeq(outer) /\ Len(outer) = Len(s)
    <3>1. outer = [i \in 1 .. Len(s) |-> outer[i]]
      BY <2>3
    <3> HIDE DEF outer
    <3> QED
      BY <2>3, <3>1, FunctionIsSeq
  <2>5. \A i \in 1 .. Len(s) : outer[i].nested /\ "nested" \in DOMAIN outer[i]
    BY <2>3
  <2>6. here.nested = FALSE /\ here.node = cur[t] /\ "nested" \in DOMAIN here
    OBVIOUS
  <2> HIDE DEF outer, here
  <2>7. /\ IsSeq(interrupted'[t]) /\ Len(interrupted'[t]) = Len(s) + 1
        /\ \A i \in 1 .. Len(s) : interrupted'[t][i] = outer[i]
        /\ interrupted'[t][Len(s) + 1] = here
    BY <2>2, <2>4, AppendIs
  <2>8. Saved(t)'
    <3>1. Last(interrupted'[t]) = here
      BY <2>7 DEF Last
    <3>2. \A i \in 1 .. Len(interrupted'[t]) :
            /\ "nested" \in DOMAIN interrupted'[t][i]
            /\ i <= Len(interrupted'[t]) - 1 => interrupted'[t][i].nested
      BY <2>3, <2>5, <2>6, <2>7
    <3>3. \A i \in 1 .. Len(interrupted'[t]) - 1 : i \in 1 .. Len(interrupted'[t])
      BY <2>3, <2>7
    <3> QED
      BY <2>2, <2>6, <2>7, <3>1, <3>2, <3>3 DEF Saved
  <2>9. Restores(t)
    BY <2>3, <2>7
  <2>10. ASSUME NEW u \in Thread PROVE Saved(u)' /\ Restores(u)
    <3>1. CASE u = t
      BY <2>8, <2>9, <3>1
    <3>2. CASE u # t
      <4>1. interrupted'[u] = interrupted[u] /\ signal_raise'[u] = signal_raise[u]
        BY <1>0, <2>1, <3>2
      <4> QED
        BY <1>1, <4>1
    <3> QED
      BY <3>1, <3>2
  <2>11. /\ cur' = [u \in Thread |-> cur'[u]]
         /\ signal_raise' = [u \in Thread |-> signal_raise'[u]]
         /\ interrupted' = [u \in Thread |-> interrupted'[u]]
    BY <1>0, <2>1
  <2> HIDE DEF Restores
  <2> QED
    BY <2>10, <2>11 DEF SignalInv
<1>5. CASE SignalReturn(t)
  <2> DEFINE s == interrupted[t]
  <2>1. /\ interrupted' = [interrupted EXCEPT ![t] = Front(s)]
        /\ signal_raise' = signal_raise
        /\ cur' = [cur EXCEPT ![t] = signal_raise[t]]
        /\ s # <<>>
    BY <1>5 DEF SignalReturn, RestoreCur
  <2>2. interrupted'[t] = Front(s) /\ cur'[t] = signal_raise[t]
    BY <1>0, <2>1
  <2>3. /\ IsSeq(s) /\ Len(s) \in Nat /\ Len(s) > 0 /\ DOMAIN s = 1 .. Len(s)
        /\ \A i \in 1 .. Len(s) : "nested" \in DOMAIN s[i]
        /\ \A i \in 1 .. Len(s) - 1 : s[i].nested
        /\ ~Last(s).nested => signal_raise[t] = Last(s).node
    BY <1>0, <2>1, SeqIsFunction DEF Saved
  <2>4. Restores(t)
    BY <2>2, <2>3
  <2>5. /\ IsSeq(interrupted'[t]) /\ Len(interrupted'[t]) = Len(s) - 1
        /\ \A i \in 1 .. Len(s) - 1 : interrupted'[t][i] = s[i]
    BY <2>1, <2>2, <2>3, FrontIs
  <2> HIDE DEF s
  <2>6. \A i \in 1 .. Len(interrupted'[t]) :
            /\ "nested" \in DOMAIN interrupted'[t][i]
            /\ interrupted'[t][i].nested
    <3> DEFINE m == Len(s)
    <3>1. m \in Nat /\ m > 0 /\ Len(interrupted'[t]) = m - 1
      BY <2>3, <2>5
    <3> HIDE DEF m
    <3>2. ASSUME NEW i \in 1 .. m - 1 PROVE i \in 1 .. m
      BY <3>1
    <3> QED
      BY <2>3, <2>5, <3>1, <3>2 DEF m
  <2>7. interrupted'[t] # <<>> => Last(interrupted'[t]).nested
    <3>1. SUFFICES ASSUME interrupted'[t] # <<>> PROVE Last(interrupted'[t]).nested
      OBVIOUS
    <3>2. Len(interrupted'[t]) \in 1 .. Len(interrupted'[t])
      BY <2>5, <3>1, SeqIsFunction
    <3> QED
      BY <2>6, <3>2 DEF Last
  <2>8. Saved(t)'
    <3>1. \A i \in 1 .. Len(interrupted'[t]) - 1 : i \in 1 .. Len(interrupted'[t])
      <4> DEFINE m == Len(interrupted'[t])
      <4>1. m \in Nat
        BY <2>5, SeqIsFunction
      <4> HIDE DEF m
      <4>2. \A i \in 1 .. m - 1 : i \in 1 .. m
        BY <4>1
      <4> QED
        BY <4>2 DEF m
    <3> QED
      BY <2>5, <2>6, <2>7, <3>1 DEF Saved
  <2>9. ASSUME NEW u \in Thread PROVE Saved(u)' /\ Restores(u)
    <3>1. CASE u = t
      BY <2>4, <2>8, <3>1
    <3>2. CASE u # t
      <4>1. interrupted'[u] = interrupted[u] /\ signal_raise'[u] = signal_raise[u]
        BY <1>0, <2>1, <3>2
      <4> QED
        BY <1>1, <4>1
    <3> QED
      BY <3>1, <3>2
  <2>10. /\ cur' = [u \in Thread |-> cur'[u]]
         /\ signal_raise' = [u \in Thread |-> signal_raise'[u]]
         /\ interrupted' = [u \in Thread |-> interrupted'[u]]
    BY <1>0, <2>1
  <2> HIDE DEF Restores
  <2> QED
    BY <2>9, <2>10 DEF SignalInv
<1> QED
  BY <1>2, <1>3, <1>4, <1>5

(* A thread goes on at the node it was at when the signal came, if no other *)
(* signal interrupted the handler (drcctlib_event_kernel_xfer).            *)
THEOREM HandlersReturn == SignalSpec => ReturnRestoresNode
<1> DEFINE Restored == \A t \in Thread : /\ Len(interrupted'[t]) < Len(interrupted[t])
                                         /\ ~Last(interrupted[t]).nested
                                         => cur'[t] = Last(interrupted[t]).node
<1>1. SignalInv /\ [SignalNext]_allVars => SignalInv'
  <2> SUFFICES ASSUME SignalInv, [SignalNext]_allVars PROVE SignalInv'
    OBVIOUS
  <2>1. CASE UNCHANGED allVars
    BY <2>1 DEF allVars, vars, threads, SignalInv, Saved
  <2> QED
    BY <2>1, SignalStep
<1>2. SignalInv /\ [SignalNext]_allVars => [Restored]_allVars
  BY SignalStep
<1> HIDE DEF Restored
<1>3. SignalSpec => [][Restored]_allVars
  BY SignalInvInit, <1>1, <1>2, PTL DEF SignalSpec
<1> QED
  BY <1>3 DEF Restored, ReturnRestoresNode

-----------------------------------------------------------------------------
(* Signals and the trees.  A handler's return takes a thread back to a     *)
(* live node of its own tree, and the shape of the trees needs no more:    *)
(* with the depth of the contexts it is inductive under signals too.       *)
HandlerInv ==
  /\ \A t \in Thread : interrupted[t] # <<>> =>
       signal_raise[t] \in Live /\ owner[signal_raise[t]] = t
  /\ \A t \in Thread : \A i \in DOMAIN interrupted[t] :
       "context" \in DOMAIN interrupted[t][i] /\ interrupted[t][i].context \in Seq(Block)

TornInv == SignalInv /\ ShapeInv /\ DepthInv /\ HandlerInv

LEMMA TornInvInit == SignalInit => TornInv
<1> SUFFICES ASSUME SignalInit PROVE TornInv
  OBVIOUS
<1>1. SignalInv /\ ShapeInv
  BY SignalInvInit, InitIInv DEF SignalInit, IInv
<1>2. DepthInv /\ HandlerInv
  BY DEF SignalInit, Init, DepthInv, HandlerInv
<1> QED
  BY <1>1, <1>2 DEF TornInv

(* Live nodes stay with their thread.                                      *)
LEMMA StepKeepsOwners ==
  ASSUME ShapeInv, NEW t \in Thread, Step(t)
  PROVE  \A n \in Live : n \in Live' /\ owner'[n] = owner[n]
<1>1. \A n \in Live : n \in Live'
  BY StepKeepsNodes DEF NodesKept
<1>2. ASSUME ~Busy(t), NEW key, NEW caller, NEW slots, NEW ctx,
             TakeNode(t, key, caller, slots, ctx)
      PROVE  \A n \in Live : owner'[n] = owner[n]
  <2>1. CASE used = Node
    BY <1>2, <2>1 DEF TakeNode, ExitProcess, history
  <2>2. CASE used # Node
    BY <1>2, <2>2, TakeNodeFrame DEF Took, ShapeInv, TypeOK
  <2> QED
    BY <2>1, <2>2
<1>3. CASE ThreadStart(t) \/ \E b \in Block : EnterNewBB(t, b)
  BY <1>1, <1>2, <1>3 DEF ThreadStart, EnterNewBB, Busy
<1>4. CASE \/ ReserveHandles(t) \/ FinishRoot(t) \/ FinishBB(t) \/ ThreadEnd(t)
           \/ \E b \in Block : EnterKnownBB(t, b)
  BY <1>1, <1>4 DEF ReserveHandles, FinishRoot, FinishBB, ThreadEnd, EnterKnownBB, history
<1> QED
  BY <1>3, <1>4 DEF Step

LEMMA SignalReturnShape ==
  ASSUME TornInv, NEW t \in Thread, SignalReturn(t)
  PROVE  ShapeInv'
<1> DEFINE n == signal_raise[t]
           p == Last(interrupted[t]).context
<1>1. ShapeInv /\ TypeOK /\ SignalInv /\ HandlerInv
  BY DEF TornInv, ShapeInv
<1>2. /\ phase[t] = "run" /\ interrupted[t] # <<>>
      /\ cur' = [cur EXCEPT ![t] = n]
      /\ callPath' = [callPath EXCEPT ![t] = p]
      /\ UNCHANGED <<idle_idx, ip_node, used, bb_node, callee, phase, making, root, cur_idx, pre,
                     aborted, owner, path>>
  BY DEF SignalReturn, RestoreCur, shared
<1>3. n \in Live /\ n \in Node /\ owner[n] = t
  BY <1>1, <1>2 DEF HandlerInv, Live, TypeOK
<1>4. p \in Seq(Block)
  <2>1. Len(interrupted[t]) \in DOMAIN interrupted[t]
    BY <1>1, <1>2, SeqIsFunction DEF SignalInv, Saved
  <2> QED
    BY <1>1, <2>1 DEF HandlerInv, Last
<1> HIDE DEF n, p
<1>5. TypeOK'
  BY <1>1, <1>2, <1>3, <1>4 DEF TypeOK
<1>6. Live' = Live /\ Reserved' = Reserved
  BY <1>2 DEF Live, Reserved
<1>7. ThreadInv'
  <2>1. AtNode(t)
    BY <1>1, <1>2 DEF ShapeInv, ThreadInv, ThreadOK
  <2>2. cur'[t] = n
    BY <1>1, <1>2 DEF TypeOK
  <2>3. AtNode(t)'
    BY <1>2, <1>3, <1>6, <2>1, <2>2 DEF AtNode, IsRoot, parent
  <2>4. ThreadOK(t)'
    BY <1>1, <1>2, <2>3 DEF ShapeInv, ThreadInv, ThreadOK, Busy, MakingRoot, MakingBB
  <2>5. ASSUME NEW u \in Thread, u # t PROVE ThreadOK(u)'
    BY <1>1, <1>2, <1>6, <2>5 DEF ShapeInv, TypeOK, ThreadInv, ThreadOK, Busy, MakingRoot, MakingBB,
       AtNode, IsRoot, parent
  <2> QED
    BY <2>4, <2>5 DEF ThreadInv
<1>8. TreeInv' /\ OneNodePerContext' /\ HandleInv'
  BY <1>1, <1>2, <1>6 DEF ShapeInv, TreeInv, OneNodePerContext, HandleInv, IsRoot, Below, parent
<1>9. MakingInv'
  BY <1>1, <1>2, <1>6 DEF ShapeInv, MakingInv, MakingOK, Busy, MakingRoot, MakingBB, Below, parent
<1> QED
  BY <1>5, <1>7, <1>8, <1>9 DEF ShapeInv

LEMMA TornStep == TornInv /\ [SignalNext]_allVars => TornInv'
<1> SUFFICES ASSUME TornInv, [SignalNext]_allVars PROVE TornInv'
  OBVIOUS
<1>1. ShapeInv /\ TypeOK /\ SignalInv /\ HandlerInv /\ DepthInv
  BY DEF TornInv, ShapeInv
<1>2. SignalInv'
  <2>1. CASE UNCHANGED allVars
    BY <1>1, <2>1 DEF allVars, vars, threads, SignalInv, Saved
  <2> QED
    BY <1>1, <2>1, SignalStep
<1>3. ASSUME UNCHANGED vars PROVE ShapeInv' /\ DepthInv'
  BY <1>1, <1>3, CounterInv DEF vars, shared, history, TypeOK, DepthInv
<1>4. ASSUME UNCHANGED <<signal_raise, interrupted>>,
             \A n \in Live : n \in Live' /\ owner'[n] = owner[n]
      PROVE  HandlerInv'
  BY <1>1, <1>4 DEF HandlerInv
<1>5. CASE UNCHANGED allVars
  BY <1>1, <1>2, <1>3, <1>4, <1>5 DEF allVars, vars, shared, threads, history, Live, TornInv
<1>6. ASSUME NEW t \in Thread, BuildTree(t) PROVE TornInv'
  <2>1. Step(t) /\ (phase[t] = "run" => CallerLive(t)) /\ UNCHANGED <<signal_raise, interrupted>>
    BY <1>1, <1>6, CallerIsLive DEF BuildTree
  <2>2. ShapeInv' /\ DepthInv'
    BY <1>1, <2>1, StepShape, StepDepth
  <2>3. HandlerInv'
    BY <1>1, <1>4, <2>1, StepKeepsOwners
  <2> QED
    BY <1>2, <2>2, <2>3 DEF TornInv
<1>7. ASSUME NEW t \in Thread, Dereference(t) PROVE TornInv'
  <2>1. /\ aborted' = TRUE /\ UNCHANGED <<signal_raise, interrupted>>
        /\ UNCHANGED <<shared, threads, history>>
    BY <1>7 DEF Dereference, ExitProcess
  <2>2. ShapeInv'
    BY <1>1, <2>1, CounterInv DEF shared, TypeOK
  <2>3. DepthInv' /\ HandlerInv'
    BY <1>1, <1>4, <2>1 DEF shared, threads, history, DepthInv, Live
  <2> QED
    BY <1>2, <2>2, <2>3 DEF TornInv
<1>8. ASSUME NEW t \in Thread, SignalDelivery(t) PROVE TornInv'
  <2> DEFINE s == interrupted[t]
             outer == [i \in DOMAIN s |-> [s[i] EXCEPT !.nested = TRUE]]
             here == [context |-> callPath[t], node |-> cur[t], nested |-> FALSE]
  <2>1. /\ phase[t] = "run"
        /\ interrupted' = [interrupted EXCEPT ![t] = Append(outer, here)]
        /\ signal_raise' = [signal_raise EXCEPT ![t] = cur[t]]
        /\ UNCHANGED vars
    BY <1>8 DEF SignalDelivery, SaveCur
  <2>2. /\ cur[t] \in Live /\ owner[cur[t]] = t /\ callPath[t] \in Seq(Block)
        /\ Live' = Live /\ owner' = owner
    BY <1>1, <2>1 DEF ShapeInv, ThreadInv, ThreadOK, AtNode, TypeOK, vars, shared, threads,
       history, Live
  <2>3. IsSeq(s) /\ Len(s) \in Nat /\ DOMAIN s = 1 .. Len(s)
    BY <1>1, SeqIsFunction DEF SignalInv, Saved
  <2>4. IsSeq(outer) /\ Len(outer) = Len(s)
    <3>1. outer = [i \in 1 .. Len(s) |-> outer[i]]
      BY <2>3
    <3> HIDE DEF outer
    <3> QED
      BY <2>3, <3>1, FunctionIsSeq
  <2>5. \A i \in 1 .. Len(s) : "context" \in DOMAIN outer[i] /\ outer[i].context \in Seq(Block)
    <3>1. \A i \in 1 .. Len(s) : "context" \in DOMAIN s[i] =>
             "context" \in DOMAIN outer[i] /\ outer[i].context = s[i].context
      BY <2>3
    <3> QED
      BY <1>1, <2>3, <3>1 DEF HandlerInv
  <2>6. "context" \in DOMAIN here /\ here.context \in Seq(Block)
    <3>1. DOMAIN here = {"context", "node", "nested"} /\ here.context = callPath[t]
      OBVIOUS
    <3> QED
      BY <2>2, <3>1
  <2> HIDE DEF outer, here
  <2>7. /\ IsSeq(Append(outer, here)) /\ Len(Append(outer, here)) = Len(s) + 1
        /\ \A i \in 1 .. Len(s) : Append(outer, here)[i] = outer[i]
        /\ Append(outer, here)[Len(s) + 1] = here
    BY <2>4, AppendIs
  <2>8. \A i \in DOMAIN Append(outer, here) :
          /\ "context" \in DOMAIN Append(outer, here)[i]
          /\ Append(outer, here)[i].context \in Seq(Block)
    <3>1. DOMAIN Append(outer, here) = 1 .. Len(s) + 1
      BY <2>7, SeqIsFunction
    <3> QED
      BY <2>3, <2>5, <2>6, <2>7, <3>1
  <2>9. ASSUME NEW u \in Thread
        PROVE  /\ interrupted'[u] = IF u = t THEN Append(outer, here) ELSE interrupted[u]
               /\ signal_raise'[u] = IF u = t THEN cur[t] ELSE signal_raise[u]
    BY <1>1, <2>1 DEF SignalInv
  <2>10. HandlerInv'
    <3>1. ASSUME NEW u \in Thread, interrupted'[u] # <<>>
          PROVE  signal_raise'[u] \in Live' /\ owner'[signal_raise'[u]] = u
      BY <1>1, <2>2, <2>9, <3>1 DEF HandlerInv
    <3>2. ASSUME NEW u \in Thread, NEW i \in DOMAIN interrupted'[u]
          PROVE  /\ "context" \in DOMAIN interrupted'[u][i]
                 /\ interrupted'[u][i].context \in Seq(Block)
      <4>1. CASE u = t
        BY <2>8, <2>9, <3>2, <4>1
      <4>2. CASE u # t
        BY <1>1, <2>9, <3>2, <4>2 DEF HandlerInv
      <4> QED
        BY <4>1, <4>2
    <3> QED
      BY <3>1, <3>2 DEF HandlerInv
  <2> QED
    BY <1>2, <1>3, <2>1, <2>10 DEF TornInv
<1>9. ASSUME NEW t \in Thread, SignalReturn(t) PROVE TornInv'
  <2>1. /\ interrupted[t] # <<>>
        /\ interrupted' = [interrupted EXCEPT ![t] = Front(interrupted[t])]
        /\ UNCHANGED <<used, making, owner, path, signal_raise>>
    BY <1>9 DEF SignalReturn, shared
  <2>2. ShapeInv' /\ DepthInv' /\ Live' = Live
    BY <1>1, <1>9, <2>1, SignalReturnShape DEF DepthInv, Live
  <2>3. IsSeq(interrupted[t])
    BY <1>1 DEF SignalInv, Saved
  <2>4. /\ DOMAIN Front(interrupted[t]) = 1 .. Len(interrupted[t]) - 1
        /\ Len(interrupted[t]) \in Nat /\ DOMAIN interrupted[t] = 1 .. Len(interrupted[t])
        /\ \A i \in 1 .. Len(interrupted[t]) - 1 : Front(interrupted[t])[i] = interrupted[t][i]
    BY <2>1, <2>3, FrontIs, SeqIsFunction
  <2>5. \A i \in DOMAIN Front(interrupted[t]) :
          /\ "context" \in DOMAIN Front(interrupted[t])[i]
          /\ Front(interrupted[t])[i].context \in Seq(Block)
    <3> DEFINE m == Len(interrupted[t])
    <3>1. \A i \in 1 .. m - 1 : i \in 1 .. m
      BY <2>4
    <3> HIDE DEF m
    <3> QED
      BY <1>1, <2>4, <3>1 DEF HandlerInv, m
  <2>6. ASSUME NEW u \in Thread
        PROVE  interrupted'[u] = IF u = t THEN Front(interrupted[t]) ELSE interrupted[u]
    BY <1>1, <2>1 DEF SignalInv
  <2>7. HandlerInv'
    BY <1>1, <2>1, <2>2, <2>5, <2>6 DEF HandlerInv
  <2> QED
    BY <1>2, <2>2, <2>7 DEF TornInv
<1> QED
  BY <1>5, <1>6, <1>7, <1>8, <1>9 DEF SignalNext

LEMMA TornInductive == SignalSpec => []TornInv
BY TornInvInit, TornStep, PTL DEF SignalSpec

(* However signals nest and wherever they interrupt a block, a thread is   *)
(* at a live node of its own tree, the walk from a node to the root gives  *)
(* the context the node was made for, and no context gets a second node    *)
(* (instrument_before_bb_first_instr after drcctlib_event_kernel_xfer).    *)
THEOREM TreesSurviveSignals == SignalSpec => []TreeSurvivesSignals
<1>1. TornInv => TreeSurvivesSignals
  <2> SUFFICES ASSUME TornInv PROVE TreeSurvivesSignals
    OBVIOUS
  <2>1. \A t \in Thread : phase[t] = "run" => cur[t] \in Live /\ owner[cur[t]] = t
    BY DEF TornInv, ShapeInv, ThreadInv, ThreadOK, AtNode
  <2>2. BacktraceExact /\ OneNodePerContext
    BY WalkGivesContext DEF TornInv, ShapeInv
  <2> QED
    BY <2>1, <2>2 DEF TreeSurvivesSignals
<1> QED
  BY <1>1, TornInductive, PTL

(* And handles stay with one node each and lead back to it.                *)
THEOREM HandlesSurviveSignals == SignalSpec => [](HandlesDisjoint /\ HandleResolves)
<1>1. TornInv => HandlesDisjoint /\ HandleResolves
  BY ShapeKeepsHandlesApart, ShapeResolvesHandles DEF TornInv
<1> QED
  BY <1>1, TornInductive, PTL
=============================================================================
