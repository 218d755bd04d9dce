----------------------------- MODULE SplayTree -----------------------------
(***************************************************************************)
(* The splay trees that hold the callees of a thread's nodes.              *)
(* splay_tree_update looks a key up by top-down splaying: a loop cuts the  *)
(* tree into the nodes below the key, those above it and the rest, which   *)
(* are put together again below the node that is found.  If no node has    *)
(* the key, the loop hangs new_node in when it falls off the tree; the     *)
(* caller sees that its payload is NULL, sets it and gets the object for   *)
(* the next time.  All trees of a thread share that object and the dummy   *)
(* node both cut-off parts are collected below.                            *)
(*                                                                         *)
(* left and right are one function, child, of the side, so that the two    *)
(* halves of the loop are one action.                                      *)
(***************************************************************************)
EXTENDS Naturals, FiniteSets

CONSTANTS
  Caller,     \* the nodes of the calling-context tree that get callees
  Key,        \* cct_bb_node_t.key
  Callees,    \* the keys of the blocks that may run below each caller
  NULL

ASSUME TreeAssumption ==
  /\ IsFiniteSet(Caller) /\ IsFiniteSet(Key)
  /\ Key \subseteq Nat
  /\ Callees \in [Caller -> SUBSET Key]
  /\ NULL \notin Nat

VARIABLES
  callee_root,  \* callee_splay_tree_root of every caller
  child,        \* left and right of every splay node
  key,
  payload,      \* NULL or the number of a cct_bb_node_t
  next,         \* per_thread_t.next_splay_node
  created,      \* how many cct_bb_node_t there are
  found,        \* caller and key of the last update and the node it has led to
  phase,        \* "idle", "loop" in splay_tree_update, "return" after it
  caller, k,    \* whose tree is updated, and the key
  root,         \* splay_tree_update's root
  max_node,     \* by the side it has free, ltree_max_node (right) or rtree_min_node
  callee        \* history: the nodes each caller has been given

arguments == <<caller, k>>
callerVars == <<callee_root, payload, next, created, found, callee>>
vars == <<callerVars, child, key, phase, arguments, root, max_node>>

(* The objects of the thread's cache: it hands out the dummy node first,   *)
(* then one for each key that is inserted, always one in advance.          *)
Dummy == 0
SplayNode == 0 .. Cardinality(Caller) * Cardinality(Key) + 1

Other(side) == IF side = "left" THEN "right" ELSE "left"
Side(kk, n) == IF kk < key[n] THEN "left" ELSE "right"

NoChildren == [left |-> NULL, right |-> NULL]

Init ==
  /\ callee_root = [c \in Caller |-> NULL]
  /\ child = [n \in SplayNode |-> NoChildren]
  /\ key = [n \in SplayNode |-> 0]
  /\ payload = [n \in SplayNode |-> NULL]
  /\ next = 1
  /\ created = 0
  /\ found = <<>>
  /\ phase = "idle"
  /\ caller \in Caller
  /\ k \in Key
  /\ root = NULL
  /\ max_node = [left |-> Dummy, right |-> Dummy]
  /\ callee = [c \in Caller |-> [kk \in Key |-> NULL]]

(* A block with key kk begins below node c: splay_tree_update up to its    *)
(* loop, or all of it if the tree is empty.                                *)
Update(c, kk) ==
  /\ phase = "idle"
  /\ caller' = c
  /\ k' = kk
  /\ max_node' = [left |-> Dummy, right |-> Dummy]
  /\ IF callee_root[c] = NULL
     THEN /\ key' = [key EXCEPT ![next] = kk]
          /\ root' = next
          /\ phase' = "return"
          /\ UNCHANGED child
     ELSE /\ child' = [child EXCEPT ![Dummy] = NoChildren]
          /\ root' = callee_root[c]
          /\ phase' = "loop"
          /\ UNCHANGED key
  /\ UNCHANGED callerVars

(* new_node is hung in where node n has no child on the key's side.        *)
Insert(links, n, side) ==
  IF links[n][side] = NULL THEN [links EXCEPT ![n][side] = next] ELSE links

(* Mutant: the rotation drops the subtree between the two nodes.           *)
RotateDropping(links, n, side) ==
  [links EXCEPT ![n][side] = NULL, ![links[n][side]][Other(side)] = n]

(* Mutant: n keeps the child that takes its place.                         *)
RotateKeeping(links, n, side) == [links EXCEPT ![links[n][side]][Other(side)] = n]

(* n's child on one side takes its place.                                  *)
Rotate(links, n, side) ==
  LET m == links[n][side]
  IN [links EXCEPT ![n][side] = links[m][Other(side)], ![m][Other(side)] = n]

(* One turn of the loop: the root, or its child if the key lies beyond     *)
(* that as well, is cut off together with its subtree on the other side.   *)
Turn ==
  /\ phase = "loop"
  /\ k # key[root]
  /\ LET side == Side(k, root)
         grown == Insert(child, root, side)
         m == grown[root][side]
         beyond == m # next /\ k # key[m] /\ Side(k, m) = side
         top == IF beyond THEN m ELSE root
         links == IF beyond THEN Insert(Rotate(grown, root, side), m, side) ELSE grown
     IN /\ child' = [links EXCEPT ![max_node[side]][side] = top]
        /\ max_node' = [max_node EXCEPT ![side] = top]
        /\ root' = links[top][side]
        /\ key' = IF root' = next THEN [key EXCEPT ![next] = k] ELSE key
  /\ UNCHANGED <<callerVars, phase, arguments>>

(* Mutant: the two parts go below the root the wrong way round.            *)
JoinSwapped(links) == [links EXCEPT ![root] = links[Dummy]]

(* What has been collected below the dummy node goes below the root.       *)
Join(links) ==
  [links EXCEPT ![root] = [left |-> links[Dummy].right, right |-> links[Dummy].left]]

(* The rest of splay_tree_update once the key is at the root.              *)
Assemble ==
  /\ phase = "loop"
  /\ k = key[root]
  /\ child' = Join([child EXCEPT ![max_node.right].right = child[root].left,
                                 ![max_node.left].left = child[root].right])
  /\ phase' = "return"
  /\ UNCHANGED <<callerVars, key, arguments, root, max_node>>

(* Mutant: the object that has been inserted is used again.                *)
KeepNext == UNCHANGED next

TakeNext == next' = next + 1

(* The caller of splay_tree_update: a node without payload is a new one.   *)
Return ==
  /\ phase = "return"
  /\ IF payload[root] = NULL
     THEN /\ created' = created + 1
          /\ payload' = [payload EXCEPT ![root] = created']
          /\ callee' = [callee EXCEPT ![caller][k] = created']
          /\ TakeNext
     ELSE UNCHANGED <<created, payload, callee, next>>
  /\ callee_root' = [callee_root EXCEPT ![caller] = root]
  /\ found' = <<caller, k, payload'[root]>>
  /\ phase' = "idle"
  /\ UNCHANGED <<child, key, arguments, root, max_node>>

Next ==
  \/ \E c \in Caller : \E kk \in Callees[c] : Update(c, kk)
  \/ Turn
  \/ Assemble
  \/ Return

(* The thread does not stop inside the update.                             *)
Spec == Init /\ [][Next]_vars /\ WF_vars(Turn \/ Assemble \/ Return)

-----------------------------------------------------------------------------
(* The splay node a search for the key ends at, or NULL.                   *)
Search(c, kk) ==
  LET walk[i \in 0 .. Cardinality(SplayNode)] ==
        IF i = 0 THEN callee_root[c]
        ELSE LET n == walk[i - 1]
             IN IF n = NULL \/ key[n] = kk THEN n ELSE child[n][Side(kk, n)]
  IN walk[Cardinality(SplayNode)]

(* Between updates every tree is a search tree of its caller's callees:    *)
(* whatever was looked up before, and although all trees share new_node    *)
(* and the dummy node, a search ends at the callee's node, or nowhere if   *)
(* there is none.                                                          *)
Findable ==
  phase = "idle" => \A c \in Caller, kk \in Key :
    LET n == Search(c, kk)
    IN IF n = NULL THEN callee[c][kk] = NULL
       ELSE callee[c][kk] # NULL /\ payload[n] = callee[c][kk]

(* The loop ends: the key is always found or inserted.                     *)
Returns == phase = "loop" ~> phase = "idle"

(* An update leads to the node the caller was given for the key the first  *)
(* time, and to a new one exactly then.                                    *)
Map == INSTANCE CalleeMap WITH NoNode <- NULL
Implements == Map!Spec
=============================================================================
