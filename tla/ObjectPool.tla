----------------------------- MODULE ObjectPool -----------------------------
(***************************************************************************)
(* What a cache of objects promises its users, CCT!TakeNode among them:    *)
(* no object is handed out twice.                                          *)
(***************************************************************************)
EXTENDS Naturals

CONSTANT Object

VARIABLE handed    \* how often each object has been handed out

Init == handed = [o \in Object |-> 0]

GetNextObject(o) ==
  /\ handed[o] = 0
  /\ handed' = [handed EXCEPT ![o] = 1]

Next == \E o \in Object : GetNextObject(o)

Spec == Init /\ [][Next]_handed
=============================================================================
