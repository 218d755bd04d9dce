--------------------------- MODULE MCMemoryCache ---------------------------
(***************************************************************************)
(* MemoryCache with pages that a thread's three objects do not divide, so  *)
(* that debris comes from pages as well as from threads that have ended.   *)
(***************************************************************************)
EXTENDS MemoryCache
=============================================================================
