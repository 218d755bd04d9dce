------------------------------ MODULE AppPath ------------------------------
(***************************************************************************)
(* The application as the tool sees it: a thread enters one instrumented   *)
(* basic block after another, and how a block ends says how the calling    *)
(* context of the next one differs.  A calling context is the sequence of  *)
(* the blocks that ended in the calls now active, then the running block.  *)
(***************************************************************************)
EXTENDS Naturals, Sequences, SequencesExt

CONSTANTS
  Block,     \* instrumented basic blocks
  EndState   \* how a block leaves: "call", "return" or "plain"

(* The context after block b is entered from context p: one frame deeper   *)
(* after a call, one frame up after a return (a thread's outermost frame   *)
(* has none above it), in the same frame otherwise.                        *)
Enter(p, b) ==
  IF p = <<>> THEN <<b>>
  ELSE CASE EndState[Last(p)] = "call" -> Append(p, b)
         [] EndState[Last(p)] = "return" /\ Len(p) > 1 -> Append(Front(Front(p)), b)
         [] OTHER -> Append(Front(p), b)
=============================================================================
