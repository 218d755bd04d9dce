-------------------------- MODULE MCMemoryClients --------------------------
(***************************************************************************)
(* MemoryClients with two threads on pages of four bytes that both create, *)
(* and accesses that lie inside a page, that end on its last byte, and     *)
(* that go from the last page of one table to the first of the next.       *)
(***************************************************************************)
EXTENDS MemoryClients

CONSTANTS t1, t2

MCCell == [ctxt : {NoCtxt} \cup (Thread \X (1 .. 9)), mark : {0, 1, WriteAction}]
MCZero == [ctxt |-> NoCtxt, mark |-> 0]

Op(a, n) == [addr |-> a, size |-> n]
Instr3(rd, wr, x) == [src |-> rd, dst |-> wr, unseen |-> {}, put |-> x, cti |-> FALSE]
Load(os) == Instr3(os, <<>>, 0)
Save(os, x) == Instr3(<<>>, os, x)
Update(os, x) == Instr3(os, os, x)
CallTo(os) == [Save(os, 1) EXCEPT !.cti = TRUE]
Return(os) == [Load(os) EXCEPT !.cti = TRUE]
Behind(i, o) == [i EXCEPT !.unseen = OperandBytes(o)]    \* and writes o unseen

A == Op(<<0, 0, 1>>, 2)    \* within a page
B == Op(<<0, 1, 3>>, 2)    \* across two pages of two tables
C == Op(<<0, 0, 3>>, 1)    \* the last byte of the page of A
X == Op(<<1, 0, 1>>, 1)    \* on the second page of B
S == Op(<<0, 0, 0>>, 1)    \* used by both threads

Two(p, q) == [t \in Thread |-> IF t = t1 THEN p ELSE q]

MCClients == {
  [name |-> "deadspy", naive |-> FALSE, code |-> Two(
     <<Save(<<A>>, 1), Save(<<Op(<<0, 0, 2>>, 1)>>, 1), Load(<<B>>), Save(<<A, B>>, 0)>>,
     <<Save(<<C>>, 0), Save(<<X, C>>, 1), Load(<<C>>), Save(<<C>>, 0)>>)],
  [name |-> "deadspy", naive |-> FALSE, code |-> Two(
     <<Save(<<S>>, 1), CallTo(<<S>>)>>, <<Load(<<S, C>>), Save(<<S>>, 0)>>)],
  [name |-> "loadspy", naive |-> FALSE, code |-> Two(
     <<Load(<<A>>), Behind(Save(<<>>, 1), A), Load(<<A, B>>), Load(<<B>>), Load(<<A>>)>>,
     <<Load(<<C>>), CallTo(<<C>>), Return(<<C>>), Load(<<C, X>>)>>)],
  [name |-> "redspy", naive |-> FALSE, code |-> Two(
     <<Save(<<A>>, 0), Save(<<B>>, 1), Save(<<A, B>>, 1), Save(<<B>>, 1)>>,
     <<Save(<<C>>, 0), Behind(CallTo(<<X>>), C), Save(<<X, C>>, 1)>>)],
  [name |-> "deadspy", naive |-> TRUE, code |-> Two(
     <<Save(<<B>>, 1), Update(<<B>>, 0), Save(<<B>>, 1)>>,
     <<Update(<<C>>, 1), CallTo(<<X, C>>)>>)],
  [name |-> "loadspy", naive |-> TRUE, code |-> Two(
     <<Load(<<B>>), Update(<<B>>, 1), Load(<<B, S>>)>>,
     <<Save(<<S>>, 1), Load(<<S, C>>)>>)] }

(* One store of a byte, nine times. *)
PeriodClients == {
  [name |-> "redspy", naive |-> FALSE, code |-> [t \in Thread |-> [k \in 1 .. 9 |-> Save(<<X>>, k % 2)]]] }
=============================================================================
