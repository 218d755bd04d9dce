------------------------------- MODULE MCCCT -------------------------------
(***************************************************************************)
(* CCT on two threads and three blocks: one that calls, one that returns   *)
(* and one that does neither, the calling one with two context handles.    *)
(***************************************************************************)
EXTENDS CCT

MCBlock == {1, 2, 3}
MCEndState == <<"call", "return", "plain">>
MCSlots == <<2, 1, 1>>
MCRootKey == 0
MCNode == 1 .. 6
=============================================================================
