---------------------------- MODULE TraceBuffer ----------------------------
(***************************************************************************)
(* The value traces of VTracer and VProfile as one application thread      *)
(* fills and drains them; no thread touches the buffers of another.        *)
(*                                                                         *)
(* When a block is built, the number of bytes it may write to each buffer  *)
(* is estimated.  When it runs, code at its start delivers the buffers     *)
(* that could not hold as much and code around each instruction appends a  *)
(* record per operand without looking at the buffer's end again.  With     *)
(* bursty sampling a counter decides at its start whether the block        *)
(* records anything.                                                       *)
(*                                                                         *)
(* An instruction is a record: dsts and srcs are the sequences of its      *)
(* operands the client traces, each given as the buffer for its data type, *)
(* a source with the buffers of the registers that address it; cti says    *)
(* whether it ends the block, gather whether it gathers or scatters.       *)
(***************************************************************************)
EXTENDS Naturals, Sequences, FiniteSets, FiniteSetsExt, SequencesExt

CONSTANTS
  Buffer,
  RecordSize,     \* bytes of a record of each buffer
  BufSize,        \* buf_size
  ScratchWidth,   \* values of the ushort that holds an estimate
  Clients         \* the clients that may be loaded, each with a program

Source == [buf : Buffer, regs : Seq(Buffer)]

Instruction ==
  [dsts : Seq(Buffer), srcs : Seq(Source), cti : BOOLEAN, gather : BOOLEAN]

(* A client's record: code, the instructions of each block of the program; *)
(* before_write and reg_in_memref, VPROFILE_TRACE_BEFORE_WRITE and         *)
(* VPROFILE_TRACE_REG_IN_MEMREF; bursty, a VTRACER_BURSTY_SAMPLE mode is   *)
(* set, by_operand, that of operands, with enable and disable its window;  *)
(* run_max, a bound on the blocks that run.                                *)
ASSUME TraceAssumption ==
  /\ IsFiniteSet(Buffer)
  /\ \A b \in Buffer : /\ RecordSize[b] \in Nat \ {0} /\ BufSize[b] \in Nat
                        /\ BufSize[b] % RecordSize[b] = 0
  /\ ScratchWidth \in Nat \ {0}
  /\ \A c \in Clients :
       /\ {c.before_write, c.reg_in_memref, c.bursty, c.by_operand} \subseteq BOOLEAN
       /\ {c.enable, c.disable, c.run_max} \subseteq Nat
       /\ IsFiniteSet(DOMAIN c.code) /\ DOMAIN c.code # {}
       /\ \A blk \in DOMAIN c.code : c.code[blk] \in Seq(Instruction)

VARIABLES
  client,      \* the client that is loaded
  phase,       \* "run" between blocks, "block" in one, "exited"
  todo,        \* the records the rest of the block appends
  ptr,         \* the buffers' pointers, from their bases
  held,        \* the records below them
  delivered,   \* the records update_cb has been called with
  recorded,    \* history: the records the operands executed should leave
  counter,     \* the sampling counter
  executed,    \* history: how much it has counted
  sampled,     \* history: how much of that ran with recording on
  runs         \* blocks executed

buffers == <<ptr, held, delivered>>
window == <<counter, executed, sampled>>
vars == <<client, phase, todo, buffers, recorded, window, runs>>

Block == DOMAIN client.code
Code == client.code
BeforeWrite == client.before_write
RegInMemref == client.reg_in_memref
Bursty == client.bursty
WindowEnable == client.enable
WindowDisable == client.disable

Init ==
  /\ client \in Clients
  /\ phase = "run"
  /\ todo = <<>>
  /\ ptr = [b \in Buffer |-> 0]
  /\ held = [b \in Buffer |-> <<>>]
  /\ delivered = [b \in Buffer |-> <<>>]
  /\ recorded = [b \in Buffer |-> 0]
  /\ counter = 0
  /\ executed = 0
  /\ sampled = 0
  /\ runs = 0

-----------------------------------------------------------------------------
(* Building a block.                                                       *)
Occurrences(b, s) == Cardinality({j \in DOMAIN s : s[j] = b})
ReadBuffers(i) == [j \in DOMAIN i.srcs |-> i.srcs[j].buf]

(* Mutant: a destination is counted once even if traced before and after.  *)
FillNumOnceEach(b, i) == (Occurrences(b, i.dsts) + Occurrences(b, ReadBuffers(i))) * RecordSize[b]

(* vprofile_fill_num_cb and its variant for one data type.                 *)
FillNum(b, i) ==
  LET writes == Occurrences(b, i.dsts)
  IN ((IF i.cti THEN 0 ELSE writes) + (IF BeforeWrite THEN writes ELSE 0)
      + Occurrences(b, ReadBuffers(i))) * RecordSize[b]

Scratch(b, blk) == FoldLeft(LAMBDA n, i : (n + FillNum(b, i)) % ScratchWidth, 0, Code[blk])

(* set_up_bb_dups: a block that traces nothing is not duplicated.          *)
Traces(blk) == \E b \in Buffer : \E j \in DOMAIN Code[blk] : FillNum(b, Code[blk][j]) # 0

(* analyse_orig_bb: what the sampling counter counts of a block.           *)
NumCount(blk) ==
  IF client.by_operand THEN MapThenSumSet(LAMBDA b : Scratch(b, blk), Buffer)
  ELSE Len(Code[blk])

(* InstrumentInstruction appends a record for each operand, and advances   *)
(* the pointer; handleVGatherScatter has a clean call do the same, but the *)
(* call does not store the pointer it has advanced.                        *)
Emits(i) ==
  LET writes == [j \in DOMAIN i.dsts |-> <<i.dsts[j]>>]
      reads == [j \in DOMAIN i.srcs |->
                  <<i.srcs[j].buf>> \o (IF RegInMemref THEN i.srcs[j].regs ELSE <<>>)]
      all == (IF BeforeWrite THEN FlattenSeq(writes) ELSE <<>>) \o FlattenSeq(reads)
             \o (IF i.cti THEN <<>> ELSE FlattenSeq(writes))
  IN [j \in DOMAIN all |-> [buf |-> all[j], forward |-> ~i.gather]]

Instrumented(blk) == FlattenSeq([j \in DOMAIN Code[blk] |-> Emits(Code[blk][j])])

-----------------------------------------------------------------------------
(* Running it.                                                             *)

(* insert_buf_check: the block's estimate reaches the buffer's end.        *)
Full(b, blk) == Scratch(b, blk) > 0 /\ ptr[b] + Scratch(b, blk) >= BufSize[b]

(* full_cb gets what is below the pointers of these buffers, which go back *)
(* to their bases.                                                         *)
Drain(bs) ==
  /\ delivered' = [b \in Buffer |-> delivered[b] \o (IF b \in bs THEN held[b] ELSE <<>>)]
  /\ held' = [b \in Buffer |-> IF b \in bs THEN <<>> ELSE held[b]]
  /\ ptr' = [b \in Buffer |-> IF b \in bs THEN 0 ELSE ptr[b]]

(* Mutant: the counter is not taken back at the end of the window.         *)
CountOn(n) == counter + n

Advance(n) == IF counter + n > WindowDisable THEN counter + n - WindowDisable ELSE counter + n

Hot(blk) == ~Bursty \/ counter <= WindowEnable

(* insert_encode.                                                          *)
Count(blk) ==
  LET n == NumCount(blk)
  IN IF Bursty /\ Traces(blk)
     THEN /\ counter' = Advance(n)
          /\ executed' = executed + n
          /\ sampled' = sampled + (IF Hot(blk) THEN n ELSE 0)
     ELSE UNCHANGED window

EnterBlock(blk) ==
  /\ phase = "run"
  /\ runs < client.run_max
  /\ runs' = runs + 1
  /\ phase' = "block"
  /\ Count(blk)
  /\ IF Hot(blk)
     THEN /\ Drain({b \in Buffer : Full(b, blk)})
          /\ todo' = Instrumented(blk)
     ELSE /\ todo' = <<>>
          /\ UNCHANGED buffers
  /\ UNCHANGED <<client, recorded>>

(* The code around one operand.                                            *)
Record ==
  /\ phase = "block"
  /\ todo # <<>>
  /\ LET b == Head(todo).buf
     IN /\ recorded' = [recorded EXCEPT ![b] = @ + 1]
        /\ IF Head(todo).forward
           THEN /\ held' = [held EXCEPT ![b] = Append(@, recorded[b] + 1)]
                /\ ptr' = [ptr EXCEPT ![b] = @ + RecordSize[b]]
           ELSE UNCHANGED <<held, ptr>>
  /\ todo' = Tail(todo)
  /\ UNCHANGED <<client, phase, delivered, window, runs>>

(* The block ends, or an exception leaves it in the middle.                *)
LeaveBlock ==
  /\ phase = "block"
  /\ phase' = "run"
  /\ todo' = <<>>
  /\ UNCHANGED <<client, buffers, recorded, window, runs>>

(* Mutant: the buffers are freed as they are.                              *)
NoLastDrain == {}

LastDrain == Buffer

(* event_thread_exit.                                                      *)
ThreadExit ==
  /\ phase = "run"
  /\ phase' = "exited"
  /\ Drain(LastDrain)
  /\ UNCHANGED <<client, todo, recorded, window, runs>>

Next ==
  \/ \E blk \in Block : EnterBlock(blk)
  \/ Record
  \/ LeaveBlock
  \/ ThreadExit

Spec == Init /\ [][Next]_vars

-----------------------------------------------------------------------------
(* No block writes past the end of a buffer, whatever blocks ran before    *)
(* it and however far they got: what is estimated when a block is built is *)
(* never less than what its instrumentation appends.  (vtracer.h: the      *)
(* estimate is there "for detecting potential trace buffer overflow".)     *)
RecordsFit == \A b \in Buffer : ptr[b] <= BufSize[b]

(* Every operand executed leaves its record, once and in order, with the   *)
(* client or in the buffer; when the thread has exited, with the client.   *)
RecordsKept ==
  \A b \in Buffer :
    /\ delivered[b] \o held[b] = [n \in 1 .. recorded[b] |-> n]
    /\ phase = "exited" => held[b] = <<>>

(* The share that is sampled is WindowEnable of WindowDisable, up to a     *)
(* block per window, although the counter never stands at a multiple of    *)
(* the window when a block starts.  (vtracer.h: "The sample rate can be    *)
(* calculated as: window_enable / window_disable".)                        *)
SampleRate ==
  LET windows == executed \div WindowDisable
      Longest == Max({NumCount(blk) : blk \in Block})
  IN Bursty => /\ sampled + windows * Longest >= windows * WindowEnable
               /\ sampled <= (windows + 1) * (WindowEnable + Longest)
=============================================================================
