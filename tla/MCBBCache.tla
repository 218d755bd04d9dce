------------------------------ MODULE MCBBCache ------------------------------
(***************************************************************************)
(* BBCache with caches of a few entries, filled several times over.        *)
(***************************************************************************)
EXTENDS BBCache

MCBlock == {1, 2, 3}
MCEndState == <<"call", "return", "plain">>
MCMemRefs == <<1, 2, 0>>
MCNoAddr == <<{}, {2}, {}>>
=============================================================================
