--------------------------- MODULE MCTraceBuffer ---------------------------
(***************************************************************************)
(* TraceBuffer with a buffer for integers and one for vectors, and blocks  *)
(* that write one, both or neither, traced by different clients.           *)
(***************************************************************************)
EXTENDS TraceBuffer

MCBuffer == {"int", "simd"}
MCRecordSize == [int |-> 3, simd |-> 5]
MCBufSize == [int |-> 30, simd |-> 20]

Src(b, regs) == [buf |-> b, regs |-> regs]
Instr(dsts, srcs) == [dsts |-> dsts, srcs |-> srcs, cti |-> FALSE, gather |-> FALSE]

load == Instr(<<"int">>, <<Src("int", <<"int", "int">>)>>)
vadd == Instr(<<"simd">>, <<Src("simd", <<>>)>>)
jump == [Instr(<<"int">>, <<Src("int", <<>>)>>) EXCEPT !.cti = TRUE]
nothing == Instr(<<>>, <<>>)
gather == [Instr(<<"simd">>, <<Src("simd", <<"int">>)>>) EXCEPT !.gather = TRUE]

plainClient ==
  [code |-> [loads |-> <<load, load, jump>>, vectors |-> <<load, vadd>>, quiet |-> <<nothing>>],
   before_write |-> FALSE, reg_in_memref |-> FALSE, bursty |-> FALSE, by_operand |-> FALSE,
   enable |-> 1, disable |-> 1, run_max |-> 6]

beforeClient == [plainClient EXCEPT !.before_write = TRUE]

burstyClient ==
  [plainClient EXCEPT
     !.code = [one |-> <<jump>>, two |-> <<vadd, nothing>>],
     !.bursty = TRUE, !.enable = 4, !.disable = 9, !.run_max = 20]

operandClient ==
  [plainClient EXCEPT
     !.code = [one |-> <<jump>>, two |-> <<vadd>>],
     !.bursty = TRUE, !.by_operand = TRUE, !.enable = 11, !.disable = 29, !.run_max = 14]

memrefClient == [plainClient EXCEPT !.reg_in_memref = TRUE]

gatherClient ==
  [plainClient EXCEPT !.code = [loads |-> <<load, jump>>, gathers |-> <<gather, nothing>>]]

MCClients == {beforeClient, burstyClient, operandClient}
MCMemrefClients == {memrefClient}
MCGatherClients == {gatherClient}
=============================================================================
