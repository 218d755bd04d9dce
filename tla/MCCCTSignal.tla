---------------------------- MODULE MCCCTSignal ----------------------------
(***************************************************************************)
(* CCTSignal on a block that calls, one that returns and one that does     *)
(* neither, each with one context handle.                                  *)
(***************************************************************************)
EXTENDS CCTSignal

MCBlock == {1, 2, 3}
MCEndState == <<"call", "return", "plain">>
MCSlots == <<1, 1, 1>>
MCRootKey == 0
MCNode == 1 .. 4
=============================================================================
