----------------------------- MODULE CCTSignal -----------------------------
(***************************************************************************)
(* CCT together with the signals of the application.  When the kernel      *)
(* diverts a thread to a signal handler, drcctlib_event_kernel_xfer saves  *)
(* the current node in the thread's one signal_raise_bb_node, and when the *)
(* handler returns it makes the saved node current again.  The state the   *)
(* previous block ended with (pre_instr_state) is neither saved nor        *)
(* restored, and a second signal overwrites the saved node.                *)
(*                                                                         *)
(* interrupted is a history variable: for each signal a thread has not     *)
(* returned from, the context and the node the thread was in when it was   *)
(* delivered and whether its handler has been interrupted in turn.         *)
(***************************************************************************)
EXTENDS CCT

CONSTANTS
  NestingMax,   \* bound: signals a thread may be handling at a time
  DepthMax      \* bound: active calls of a thread, which a torn tree no longer bounds

VARIABLES
  signal_raise,    \* per_thread_t.signal_raise_bb_node
  interrupted      \* history: what the handled signals interrupted

allVars == <<vars, signal_raise, interrupted>>

SignalInit ==
  /\ Init
  /\ signal_raise = [t \in Thread |-> NoNode]
  /\ interrupted = [t \in Thread |-> <<>>]

(* The next block has no caller to be looked up below: the thread is back  *)
(* at its root, but the last block of a handler is taken for the previous  *)
(* block, and the root's parent is NULL.                                   *)
NullCaller(t) ==
  /\ phase[t] = "run"
  /\ cur[t] = root[t]
  /\ pre[t] \in {"plain", "return"}

Dereference(t) ==
  /\ NullCaller(t)
  /\ ExitProcess
  /\ UNCHANGED <<signal_raise, interrupted>>

BuildTree(t) ==
  /\ ~NullCaller(t)
  /\ Step(t)
  /\ Len(callPath'[t]) <= DepthMax
  /\ UNCHANGED <<signal_raise, interrupted>>

(* Mutant: the threads share one saved node.                               *)
SaveCurForAll(t) == signal_raise' = [u \in Thread |-> cur[t]]

SaveCur(t) == signal_raise' = [signal_raise EXCEPT ![t] = cur[t]]

(* DR_XFER_SIGNAL_DELIVERY: the handler's blocks come next.                *)
SignalDelivery(t) ==
  LET outer == [i \in DOMAIN interrupted[t] |-> [interrupted[t][i] EXCEPT !.nested = TRUE]]
      here == [context |-> callPath[t], node |-> cur[t], nested |-> FALSE]
  IN /\ phase[t] = "run"
     /\ Len(interrupted[t]) < NestingMax
     /\ SaveCur(t)
     /\ interrupted' = [interrupted EXCEPT ![t] = Append(outer, here)]
     /\ UNCHANGED vars

(* Mutant: the saved node is not made current.                             *)
KeepCur(t) == UNCHANGED cur

RestoreCur(t) == cur' = [cur EXCEPT ![t] = signal_raise[t]]

(* DR_XFER_SIGNAL_RETURN: the interrupted code goes on.                    *)
SignalReturn(t) ==
  /\ phase[t] = "run"
  /\ interrupted[t] # <<>>
  /\ RestoreCur(t)
  /\ callPath' = [callPath EXCEPT ![t] = Last(interrupted[t]).context]
  /\ interrupted' = [interrupted EXCEPT ![t] = Front(@)]
  /\ UNCHANGED <<shared, phase, making, root, cur_idx, pre, aborted, owner, path, signal_raise>>

SignalNext ==
  /\ ~aborted
  /\ \E t \in Thread :
       BuildTree(t) \/ Dereference(t) \/ SignalDelivery(t) \/ SignalReturn(t)

SignalSpec == SignalInit /\ [][SignalNext]_allVars

-----------------------------------------------------------------------------
(* Signals do not tear the trees: a thread still stands at a node of its   *)
(* own tree, and a node still stands for the blocks above it.              *)
TreeSurvivesSignals ==
  /\ \A t \in Thread : phase[t] = "run" => cur[t] \in Live /\ owner[cur[t]] = t
  /\ BacktraceExact
  /\ OneNodePerContext

(* A thread goes on at the node it was at when the signal came, whatever   *)
(* the handler and the other threads have done to the trees meanwhile, if  *)
(* no second signal interrupted the handler.                               *)
ReturnRestoresNode ==
  [][\A t \in Thread :
       /\ Len(interrupted'[t]) < Len(interrupted[t])
       /\ ~Last(interrupted[t]).nested
       => cur'[t] = Last(interrupted[t]).node]_allVars

(* drcctlib.h says of drcctlib_get_full_cct that it returns the full       *)
(* calling context of a handle.  With signals it does not: the block that  *)
(* runs after a handler's return is placed by how the handler ended.       *)
FullCallingContext ==
  \A t \in Thread :
    phase[t] = "run" /\ interrupted[t] = <<>> => path[cur[t]] = callPath[t]
=============================================================================
