---------------------------- MODULE CallContext ----------------------------
(***************************************************************************)
(* What a calling-context tree promises its users, without a tree: every   *)
(* thread is always in one calling context, the sequence of basic blocks   *)
(* whose last element is running and whose other elements are the blocks   *)
(* that ended in the calls now active; and every context ever entered has  *)
(* an identity (the first of its context handles) that no other context    *)
(* has and that never changes.                                             *)
(*                                                                         *)
(* CCT, the tree as drcctlib builds it, implements this.                   *)
(***************************************************************************)
EXTENDS AppPath

CONSTANTS
  Thread,    \* threads of the application
  Handle     \* the identities that contexts may be given

VARIABLES
  path,      \* path[t]: the calling context thread t is in, <<>> at its root
  id         \* the identity of every context entered so far

vars == <<path, id>>

(* The contexts seen so far are the pairs of a thread and a path.          *)
Known == DOMAIN id

(* A context keeps the identity it has; a new one takes an unused one.     *)
Identify(c) ==
  IF c \in Known
  THEN UNCHANGED id
  ELSE \E h \in Handle \ Range(id) :
         id' = [d \in Known \cup {c} |-> IF d = c THEN h ELSE id[d]]

Init ==
  /\ path = [t \in Thread |-> <<>>]
  /\ id = [c \in {} |-> 0]

(* A thread comes to life in its root context.                             *)
Begin(t) ==
  /\ <<t, <<>>>> \notin Known
  /\ Identify(<<t, <<>>>>)
  /\ UNCHANGED path

(* A thread that is alive enters a block.                                  *)
Go(t, b) ==
  /\ <<t, path[t]>> \in Known
  /\ path' = [path EXCEPT ![t] = Enter(path[t], b)]
  /\ Identify(<<t, Enter(path[t], b)>>)

Next == \E t \in Thread : Begin(t) \/ \E b \in Block : Go(t, b)

Spec == Init /\ [][Next]_vars
=============================================================================
