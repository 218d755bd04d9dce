----------------------------- MODULE MCBBShadow -----------------------------
(***************************************************************************)
(* BBShadow with two pages of two shadows: the first new block needs the   *)
(* second page, and the third takes the last index, which ends the         *)
(* process.  In every mode but the unsampled one with one thread at a      *)
(* time, whose behaviours the unsampled one with several includes.         *)
(***************************************************************************)
EXTENDS BBShadow

MCBlock == {1, 2, 3}
MCSlotNum == <<2, 1, 1>>
MCModes == [sampled : {FALSE}, one_builder : {FALSE}] \cup [sampled : {TRUE}, one_builder : BOOLEAN]
=============================================================================
