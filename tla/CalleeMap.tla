----------------------------- MODULE CalleeMap -----------------------------
(***************************************************************************)
(* What the tree of calling contexts asks of the splay trees: every caller *)
(* has a map from the keys of blocks to the nodes of its callees.  Asked   *)
(* for a key, it gives the key's node, a new one if there was none, and    *)
(* every other entry of every map stays.                                   *)
(***************************************************************************)
EXTENDS Naturals

CONSTANTS Caller, Key, NoNode

VARIABLES
  callee,     \* the maps
  created,    \* how many nodes there are: a new one has the next number
  found       \* the last request and the node it was given

Init ==
  /\ callee = [c \in Caller |-> [k \in Key |-> NoNode]]
  /\ created = 0
  /\ found = <<>>

Request(c, k) ==
  /\ IF callee[c][k] = NoNode
     THEN created' = created + 1 /\ callee' = [callee EXCEPT ![c][k] = created']
     ELSE UNCHANGED <<callee, created>>
  /\ found' = <<c, k, callee'[c][k]>>

Next == \E c \in Caller, k \in Key : Request(c, k)

Spec == Init /\ [][Next]_<<callee, created, found>>
=============================================================================
