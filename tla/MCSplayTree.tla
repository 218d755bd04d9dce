---------------------------- MODULE MCSplayTree ----------------------------
(***************************************************************************)
(* SplayTree with two callers that share a thread's nodes, one with enough *)
(* callees for the loop to turn several times in each direction.           *)
(***************************************************************************)
EXTENDS SplayTree, TLC

CONSTANTS c1, c2

MCCaller == {c1, c2}
MCKey == 1 .. 4
MCCallees == c1 :> MCKey @@ c2 :> {2}
=============================================================================
