--------------------------- MODULE MemoryClients ----------------------------
(***************************************************************************)
(* The clients that keep a shadow of the application's memory - deadspy,   *)
(* loadspy and redspy - as threads run, record their accesses in a trace   *)
(* buffer of their own, and have the buffer's records applied to the       *)
(* shadow memory they share.  deadspy_naive and loadspy_naive do the same  *)
(* from calls before every instruction, without a buffer.                  *)
(*                                                                         *)
(* A record is applied long after the access it stands for, in look-ups    *)
(* and single-byte accesses that interleave with those of other threads;   *)
(* each of them is a step here.  What one thread does to its own tables    *)
(* and to its own buffer is part of the step it goes with.                 *)
(*                                                                         *)
(* A thread's program is a sequence of instructions, each a block of its   *)
(* own.  The context of an instruction is its place in the program.        *)
(***************************************************************************)
EXTENDS ShadowMemory, Sequences, FiniteSetsExt, BagsExt, Bags

CONSTANTS
    Clients,       \* the clients that may be loaded, each with its programs
    Value,         \* what a byte may hold
    Capacity,      \* records a trace buffer has room for
    Period,        \* global_analysis_period
    MaxSlots       \* MAX_WRITE_OPS_IN_INS

(* A client is its name and the program of each thread: a sequence of     *)
(* instructions with the memory operands they read and write, src and dst, *)
(* the bytes they write without the client taking notice, the value put    *)
(* into every byte written, and whether they are calls or returns (cti).   *)
(* The naive variant of a client is a client of its own.                   *)
VARIABLES
    client,        \* the client that is loaded
    life,          \* per thread: "new", "running", "exiting", "counted", "gone"
    ip,            \* per thread: the next instruction
    called,        \* per thread: a naive client has been called for it
    mem,           \* the application's memory
    buffer,        \* per thread: the records not yet delivered
    queue,         \* per thread: the records update_cb is still to be called with
    pass,          \* per thread: what is being done to the bytes of the first of them
    nth,           \* per thread: to which byte
    fetched,       \* per thread: the shadow of that byte has been looked up
    same,          \* per thread: all bytes compared so far were equal
    slot,          \* per thread: buffer, the values before the writes of an instruction
    slotNum,       \* per thread: how many of them there are
    readIndex,     \* per thread: readBufferSlotIndex, how many have been compared
    bytes,         \* per thread: totalBytesWrite, bytesLoad or bytesWritten
    found,         \* per thread: DeadMap or RedMap, the pairs of contexts counted
    totals         \* the totals of the process

applying == <<queue, pass, nth, fetched, same>>
tally    == <<bytes, found>>
slotting == <<slot, slotNum, readIndex>>
program  == <<life, ip, called, mem, buffer>>
vars == <<memory, look, client, program, applying, slotting, tally, totals>>

(* The sizes of operands for which instrument_opnd stores a record. *)
RecordSizes == {1, 2, 4, 8, 16, 32, 64}

(* The operands that the clients take notice of: an operand of another size, *)
(* or one whose element size is not known (esize 0), is passed over, and what *)
(* is written through it is unseen.  None is longer than a page.            *)
Operand == [addr : Addr, size : RecordSizes \cap (1 .. PageSize)]
Instruction == [src : Seq(Operand), dst : Seq(Operand), unseen : SUBSET Addr,
                put : Value, cti : BOOLEAN]

ASSUME ClientsAssumption ==
    /\ 0 \in Value
    /\ IsFiniteSet(Thread)
    /\ {Capacity, Period, MaxSlots} \subseteq Nat \ {0}
    /\ \A c \in Clients : /\ c.name \in {"deadspy", "loadspy", "redspy"}
                          /\ c.code \in [Thread -> Seq(Instruction)]
                          /\ c.naive => c.name \in {"deadspy", "loadspy"}

WriteAction == 255   \* ONE_BYTE_WRITE_ACTION
ReadAction  == 0     \* ONE_BYTE_READ_ACTION, and the state of a fresh page

NoCtxt == <<NULL, 0>>   \* context handle 0

(* The contexts of instructions, and what a cell must have room for: a     *)
(* context and a mark, both 0 on the zeroed memory of a fresh page.        *)
Contexts == UNION {{<<t, n>> : n \in DOMAIN c.code[t]} : c \in Clients, t \in Thread}

ASSUME CellAssumption == \A c \in Cell :
    /\ \A x \in Value \cup {WriteAction, ReadAction} : [c EXCEPT !.mark = x] \in Cell
    /\ \A k \in Contexts : [c EXCEPT !.ctxt = k] \in Cell
    /\ DOMAIN c = {"ctxt", "mark"}

ASSUME ZeroAssumption == Zero = [ctxt |-> NoCtxt, mark |-> ReadAction]

Code(t)  == client.code[t]
Instr(t) == Code(t)[ip[t]]

-----------------------------------------------------------------------------
(* What an instruction leaves in the buffer.                               *)

OperandBytes(o) == {Plus(o.addr, k) : k \in 0 .. (o.size - 1)}

BytesOf(os) == UNION {OperandBytes(os[j]) : j \in DOMAIN os}

Stores(i) == BytesOf(i.dst) \cup i.unseen

Put(m, i) == [a \in Addr |-> IF a \in Stores(i) THEN i.put ELSE m[a]]

Contents(m, o) == [k \in 0 .. (o.size - 1) |-> m[Plus(o.addr, k)]]

(* The operands each client traces: its opnd_mask and VPROFILE_FILTER_OPND. *)
Traces == CASE client.name = "deadspy" -> {"read", "before write"}
            [] client.name = "loadspy" -> {"read"}
            [] client.name = "redspy"  -> {"before write", "after write"}

(* Mutant: redspy watches calls. *)
WatchesCalls(i) == i.cti => client.name # "loadspy"

(* The instruction filters: only deadspy watches calls and returns. *)
Watches(i) == i.cti => client.name = "deadspy"

RecordsOf(os, kind, m, ctxt) ==
    IF kind \notin Traces THEN <<>>
    ELSE [j \in DOMAIN os |-> [kind |-> kind, addr |-> os[j].addr, size |-> os[j].size,
                               ctxt |-> ctxt, val |-> Contents(m, os[j])]]

(* InstrumentInstruction: destinations before the instruction, then its     *)
(* sources, and after it, where that is possible, the destinations again.   *)
Emits(i, m, ctxt) ==
    IF ~ Watches(i) THEN <<>>
    ELSE RecordsOf(i.dst, "before write", m, ctxt) \o RecordsOf(i.src, "read", m, ctxt)
         \o IF i.cti THEN <<>> ELSE RecordsOf(i.dst, "after write", Put(m, i), ctxt)

(* InstrumentInsCallback of the naive clients: first the sources. *)
CallsOf(i, m, ctxt) ==
    IF ~ Watches(i) THEN <<>>
    ELSE RecordsOf(i.src, "read", m, ctxt) \o RecordsOf(i.dst, "before write", m, ctxt)

(* global_analysis_period: every Period-th record of a full buffer is used. *)
Sampled(records) ==
    [n \in 1 .. ((Len(records) + Period - 1) \div Period) |-> records[(n - 1) * Period + 1]]

Quiet(t) == queue[t] = <<>> /\ pass[t] = "none"

NeedsRoom(t) ==
    LET n == Len(Emits(Instr(t), mem, NoCtxt))
    IN  n > 0 /\ Len(buffer[t]) + n >= Capacity

-----------------------------------------------------------------------------
(* A thread runs.                                                          *)

ThreadStart(t) ==
    /\ life[t] = "new"
    /\ life' = [life EXCEPT ![t] = "running"]
    /\ bytes' = [bytes EXCEPT ![t] = 0]
    /\ found' = [found EXCEPT ![t] = EmptyBag]
    /\ slotNum' = [slotNum EXCEPT ![t] = 0]
    /\ readIndex' = [readIndex EXCEPT ![t] = 0]
    /\ UNCHANGED <<memory, look, client, ip, called, mem, buffer, applying, slot, totals>>

(* The check at the head of a block: the buffer is delivered. *)
Deliver(t) ==
    /\ life[t] = "running"
    /\ Quiet(t)
    /\ ip[t] \in DOMAIN Code(t)
    /\ NeedsRoom(t)
    /\ buffer[t] # <<>>
    /\ queue' = [queue EXCEPT ![t] = Sampled(buffer[t])]
    /\ buffer' = [buffer EXCEPT ![t] = <<>>]
    /\ UNCHANGED <<memory, look, client, life, ip, called, mem, pass, nth, fetched, same,
                   slotting, tally, totals>>

(* The calls a naive client has inserted before the instruction. *)
Call(t) ==
    /\ client.naive
    /\ life[t] = "running"
    /\ Quiet(t)
    /\ ip[t] \in DOMAIN Code(t)
    /\ ~ called[t]
    /\ queue' = [queue EXCEPT ![t] = CallsOf(Instr(t), mem, <<t, ip[t]>>)]
    /\ called' = [called EXCEPT ![t] = TRUE]
    /\ UNCHANGED <<memory, look, client, life, ip, mem, buffer, pass, nth, fetched, same,
                   slotting, tally, totals>>

Execute(t) ==
    /\ life[t] = "running"
    /\ Quiet(t)
    /\ ip[t] \in DOMAIN Code(t)
    /\ client.naive => called[t]
    /\ ~ NeedsRoom(t) \/ buffer[t] = <<>>
    /\ buffer' = IF client.naive THEN buffer
                 ELSE [buffer EXCEPT ![t] = @ \o Emits(Instr(t), mem, <<t, ip[t]>>)]
    /\ mem' = Put(mem, Instr(t))
    /\ ip' = [ip EXCEPT ![t] = @ + 1]
    /\ called' = [called EXCEPT ![t] = FALSE]
    /\ UNCHANGED <<memory, look, client, life, applying, slotting, tally, totals>>

-----------------------------------------------------------------------------
(* update_cb is called with a record.                                      *)

Rec(t) == Head(queue[t])

Count(t) == bytes' = [bytes EXCEPT ![t] = @ + Rec(t).size]

Begin(t, p) ==
    /\ pass' = [pass EXCEPT ![t] = p]
    /\ nth' = [nth EXCEPT ![t] = 0]
    /\ fetched' = [fetched EXCEPT ![t] = FALSE]

Taking(t, name, kind) ==
    /\ life[t] \in {"running", "exiting"}
    /\ client.name = name
    /\ queue[t] # <<>>
    /\ pass[t] = "none"
    /\ Rec(t).kind = kind

TakeDeadspyRead(t) ==
    /\ Taking(t, "deadspy", "read")
    /\ Begin(t, "read mark")
    /\ UNCHANGED <<memory, look, client, program, queue, same, slotting, tally, totals>>

TakeDeadspyWrite(t) ==
    /\ Taking(t, "deadspy", "before write")
    /\ Count(t)
    /\ Begin(t, "test mark")
    /\ UNCHANGED <<memory, look, client, program, queue, same, slotting, found, totals>>

TakeLoadspyRead(t) ==
    /\ Taking(t, "loadspy", "read")
    /\ Count(t)
    /\ Begin(t, "compare")
    /\ same' = [same EXCEPT ![t] = TRUE]
    /\ UNCHANGED <<memory, look, client, program, queue, slotting, found, totals>>

(* A slot keeps what an earlier, longer write has left behind the bytes of *)
(* this one.                                                               *)
Overwritten(old, new) ==
    [k \in DOMAIN old \cup DOMAIN new |-> IF k \in DOMAIN new THEN new[k] ELSE old[k]]

(* A slot past the last is a failed assertion; a build without assertions  *)
(* goes on without it.  The counters are bytes.                            *)
TakeRedspyBefore(t) ==
    /\ Taking(t, "redspy", "before write")
    /\ slot' = IF slotNum[t] < MaxSlots
               THEN [slot EXCEPT ![t][slotNum[t]] = Overwritten(@, Rec(t).val)] ELSE slot
    /\ slotNum' = [slotNum EXCEPT ![t] = (@ + 1) % 256]
    /\ queue' = [queue EXCEPT ![t] = Tail(@)]
    /\ UNCHANGED <<memory, look, client, program, pass, nth, fetched, same, readIndex,
                   tally, totals>>

(* IsWriteRedundant: a byte that no write has left in the slot is            *)
(* uninitialized and may equal anything.                                   *)
Unchanged(r, old, luck) ==
    \A k \in DOMAIN r.val : IF k \in DOMAIN old THEN old[k] = r.val[k] ELSE luck

TakeRedspyAfter(t) ==
    /\ Taking(t, "redspy", "after write")
    /\ Count(t)
    /\ IF readIndex[t] < MaxSlots
       THEN \E luck \in BOOLEAN :
              LET eq == Unchanged(Rec(t), slot[t][readIndex[t]], luck) IN
              /\ same' = [same EXCEPT ![t] = eq]
              /\ Begin(t, IF eq THEN "report" ELSE "stamp")
       ELSE /\ Begin(t, "end")
            /\ UNCHANGED same
    /\ UNCHANGED <<memory, look, client, program, queue, slotting, found, totals>>

-----------------------------------------------------------------------------
(* The bytes of a record, one at a time.                                   *)

Byte(t) == Plus(Rec(t).addr, nth[t])

(* What was loaded; loadspy_naive has no record of it, and each time it needs *)
(* a byte it loads it again.                                               *)
Loaded(t) == IF client.naive THEN mem[Byte(t)] ELSE Rec(t).val[nth[t]]

(* deadspy looks every byte up; loadspy and redspy only those of an access  *)
(* that IS_ACCESS_WITHIN_PAGE_BOUNDARY does not know to be on one page.    *)
OnOnePage(r) == client.name # "deadspy" /\ r.addr[3] + r.size <= PageSize - 1

(* Only deadspy's reads do not create the page. *)
StartLookup(t) ==
    /\ pass[t] \notin {"none", "end"}
    /\ ~ fetched[t]
    /\ Ask(t, BaseOf(Byte(t)), pass[t] # "read mark")
    /\ fetched' = [fetched EXCEPT ![t] = TRUE]
    /\ UNCHANGED <<client, program, queue, pass, nth, same, slotting, tally, totals>>

Advance(t) ==
    /\ LookupStep(t)
    /\ UNCHANGED <<client, program, applying, slotting, tally, totals>>

At(t, p) == pass[t] = p /\ fetched[t]

(* The next byte is given the pass "again"; after the last one comes "after". *)
NextByte(t, again, after) ==
    LET more == nth[t] + 1 < Rec(t).size
        p    == IF more THEN again ELSE after
    IN  /\ pass' = [pass EXCEPT ![t] = p]
        /\ nth' = [nth EXCEPT ![t] = IF more THEN @ + 1 ELSE 0]
        /\ fetched' = [fetched EXCEPT ![t] = OnOnePage(Rec(t)) /\ p # "none"]
        /\ queue' = IF p = "none" THEN [queue EXCEPT ![t] = Tail(@)] ELSE queue

Turn(t, p) ==
    /\ pass' = [pass EXCEPT ![t] = p]
    /\ UNCHANGED <<queue, nth, fetched, same>>

Store(t, field, x) ==
    WriteCell(t, Byte(t), [page[v2[t]][Byte(t)[3]] EXCEPT ![field] = x])

-----------------------------------------------------------------------------
(* Record1ByteMemRead: a byte whose shadow does not exist is left alone.   *)

MarkRead(t) ==
    /\ At(t, "read mark")
    /\ Store(t, "mark", ReadAction)
    /\ NextByte(t, "read mark", "none")
    /\ UNCHANGED <<client, program, same, slotting, tally, totals>>

SkipRead(t) ==
    /\ At(t, "read mark")
    /\ step[t] = "missed"
    /\ NextByte(t, "read mark", "none")
    /\ UNCHANGED <<memory, look, client, program, same, slotting, tally, totals>>

(* Record1ByteMemWrite. *)
TestMark(t) ==
    /\ At(t, "test mark")
    /\ ReadCell(t, Byte(t))
    /\ Turn(t, IF seen'[t].mark = WriteAction THEN "report" ELSE "set mark")
    /\ UNCHANGED <<client, program, slotting, tally, totals>>

(* Mutant: TWO_BYTE_WRITE_ACTION is stored for one byte. *)
SetMarkWide(t) ==
    /\ At(t, "set mark")
    /\ Store(t, "mark", 65535)
    /\ Turn(t, "stamp")
    /\ UNCHANGED <<client, program, slotting, tally, totals>>

SetMark(t) ==
    /\ At(t, "set mark")
    /\ Store(t, "mark", WriteAction)
    /\ Turn(t, "stamp")
    /\ UNCHANGED <<client, program, slotting, tally, totals>>

(* CheckNByteValueAfterRead: the bytes are compared until one differs, then *)
(* all are copied, then all contexts are replaced.                         *)
Compare(t) ==
    /\ At(t, "compare")
    /\ ReadCell(t, Byte(t))
    /\ LET eq == seen'[t].mark = Loaded(t)
           on == eq /\ nth[t] + 1 < Rec(t).size
       IN  /\ same' = [same EXCEPT ![t] = eq]
           /\ pass' = [pass EXCEPT ![t] = IF on THEN "compare" ELSE "copy"]
           /\ nth' = [nth EXCEPT ![t] = IF on THEN @ + 1 ELSE 0]
           /\ fetched' = [fetched EXCEPT ![t] = OnOnePage(Rec(t))]
    /\ UNCHANGED <<client, program, queue, slotting, tally, totals>>

Copy(t) ==
    /\ At(t, "copy")
    /\ Store(t, "mark", Loaded(t))
    /\ NextByte(t, "copy", IF same[t] THEN "report" ELSE "stamp")
    /\ UNCHANGED <<client, program, same, slotting, tally, totals>>

(* REPORT_DEAD and AddToRedTable: the context found is paired with this one. *)
Report(t) ==
    /\ At(t, "report")
    /\ ReadCell(t, Byte(t))
    /\ found' = [found EXCEPT ![t] = BagAdd(@, <<seen'[t].ctxt, Rec(t).ctxt>>)]
    /\ Turn(t, "stamp")
    /\ UNCHANGED <<client, program, slotting, bytes, totals>>

(* The context is replaced; what follows for the next byte is the client's. *)
Again(t) == CASE client.name = "deadspy" -> "test mark"
              [] client.name # "deadspy" -> IF same[t] THEN "report" ELSE "stamp"

Stamp(t) ==
    /\ At(t, "stamp")
    /\ Store(t, "ctxt", Rec(t).ctxt)
    /\ NextByte(t, Again(t), IF client.name = "redspy" THEN "end" ELSE "none")
    /\ UNCHANGED <<client, program, same, slotting, tally, totals>>

(* The last AFTER record of an instruction makes the slots free again. *)
EndAfter(t) ==
    /\ pass[t] = "end"
    /\ LET n == (readIndex[t] + 1) % 256
           full == n = slotNum[t]
       IN  /\ readIndex' = [readIndex EXCEPT ![t] = IF full THEN 0 ELSE n]
           /\ slotNum' = [slotNum EXCEPT ![t] = IF full THEN 0 ELSE @]
    /\ queue' = [queue EXCEPT ![t] = Tail(@)]
    /\ pass' = [pass EXCEPT ![t] = "none"]
    /\ fetched' = [fetched EXCEPT ![t] = FALSE]
    /\ UNCHANGED <<memory, look, client, program, nth, same, slot, tally, totals>>

Apply(t) ==
    \/ TakeDeadspyRead(t) \/ TakeDeadspyWrite(t) \/ TakeLoadspyRead(t)
    \/ TakeRedspyBefore(t) \/ TakeRedspyAfter(t)
    \/ StartLookup(t) \/ Advance(t)
    \/ MarkRead(t) \/ SkipRead(t) \/ TestMark(t) \/ SetMark(t)
    \/ Compare(t) \/ Copy(t) \/ Report(t) \/ Stamp(t) \/ EndAfter(t)

-----------------------------------------------------------------------------
(* A thread, and then the process, exits.                                  *)

(* Mutant: the client's event comes first, and has freed what update_cb needs. *)
ThreadExitTooLate(t) ==
    /\ life[t] = "running"
    /\ Quiet(t)
    /\ ip[t] \notin DOMAIN Code(t)
    /\ buffer' = [buffer EXCEPT ![t] = <<>>]
    /\ life' = [life EXCEPT ![t] = "exiting"]
    /\ UNCHANGED <<memory, look, client, ip, called, mem, applying, slotting, tally, totals>>

(* vtracer's event delivers what is left, before the client's own event. *)
ThreadExit(t) ==
    /\ life[t] = "running"
    /\ Quiet(t)
    /\ ip[t] \notin DOMAIN Code(t)
    /\ queue' = [queue EXCEPT ![t] = Sampled(buffer[t])]
    /\ buffer' = [buffer EXCEPT ![t] = <<>>]
    /\ life' = [life EXCEPT ![t] = "exiting"]
    /\ UNCHANGED <<memory, look, client, ip, called, mem, pass, nth, fetched, same, slotting,
                   tally, totals>>

AddBytes(t) ==
    /\ life[t] = "exiting"
    /\ Quiet(t)
    /\ totals' = [totals EXCEPT !.bytes = @ + bytes[t]]
    /\ life' = [life EXCEPT ![t] = "counted"]
    /\ UNCHANGED <<memory, look, client, ip, called, mem, buffer, applying, slotting, tally>>

(* Mutant: the total is that of the last thread. *)
AddFoundOver(t) ==
    /\ life[t] = "counted"
    /\ totals' = [totals EXCEPT !.found = SumFunction(found[t])]
    /\ life' = [life EXCEPT ![t] = "gone"]
    /\ UNCHANGED <<memory, look, client, ip, called, mem, buffer, applying, slotting, tally>>

(* The tables of a thread are printed and freed; here they are kept to be looked at. *)
AddFound(t) ==
    /\ life[t] = "counted"
    /\ totals' = [totals EXCEPT !.found = @ + SumFunction(found[t])]
    /\ life' = [life EXCEPT ![t] = "gone"]
    /\ UNCHANGED <<memory, look, client, ip, called, mem, buffer, applying, slotting, tally>>

ProcessExit ==
    /\ \A t \in Thread : life[t] = "gone"
    /\ Destroy
    /\ UNCHANGED <<client, program, applying, slotting, tally, totals>>

-----------------------------------------------------------------------------
Init ==
    /\ ShadowInit
    /\ client \in Clients
    /\ life = [t \in Thread |-> "new"]
    /\ ip = [t \in Thread |-> 1]
    /\ called = [t \in Thread |-> FALSE]
    /\ mem = [a \in Addr |-> 0]
    /\ buffer = [t \in Thread |-> <<>>]
    /\ queue = [t \in Thread |-> <<>>]
    /\ pass = [t \in Thread |-> "none"]
    /\ nth = [t \in Thread |-> 0]
    /\ fetched = [t \in Thread |-> FALSE]
    /\ same = [t \in Thread |-> FALSE]
    /\ slot = [t \in Thread |-> [n \in 0 .. (MaxSlots - 1) |-> <<>>]]
    /\ slotNum = [t \in Thread |-> 0]
    /\ readIndex = [t \in Thread |-> 0]
    /\ bytes = [t \in Thread |-> 0]
    /\ found = [t \in Thread |-> EmptyBag]
    /\ totals = [bytes |-> 0, found |-> 0]

ThreadStep(t) ==
    \/ ThreadStart(t) \/ Deliver(t) \/ Call(t) \/ Execute(t)
    \/ Apply(t)
    \/ ThreadExit(t) \/ AddBytes(t) \/ AddFound(t)

Next == (\E t \in Thread : ThreadStep(t)) \/ ProcessExit

(* The system goes on running every thread, and exits after the last. *)
Spec ==
    /\ Init
    /\ [][Next]_vars
    /\ \A t \in Thread : WF_vars(ThreadStep(t))
    /\ WF_vars(ProcessExit)

-----------------------------------------------------------------------------
(* What a client should have reported, read off the program alone.         *)

Place(t) == 1 .. Len(Code(t))

Touched(t, i) == BytesOf(Code(t)[i].src) \cup BytesOf(Code(t)[i].dst)

(* The operands whose bytes the client judges, and the accesses that leave a trace. *)
Judged(t, i)  ==
    IF Code(t)[i].cti /\ client.name # "deadspy" THEN <<>>
    ELSE IF client.name = "loadspy" THEN Code(t)[i].src ELSE Code(t)[i].dst
Tracked(t, i) == IF client.name = "deadspy" THEN Touched(t, i) ELSE BytesOf(Judged(t, i))

Private(t, i) ==
    \A u \in Thread \ {t} : \A k \in Place(u) :
        (Touched(u, k) \cup Stores(Code(u)[k])) \cap Touched(t, i) = {}

LastBefore(t, j, a, S(_, _)) == Max({0} \cup {i \in 1 .. (j - 1) : a \in S(t, i)})
Written(t, i) == Stores(Code(t)[i])

(* The value a private byte has when instruction j begins. *)
ValueAt(t, j, a) ==
    LET i == LastBefore(t, j, a, Written) IN IF i = 0 THEN 0 ELSE Code(t)[i].put

(* deadspy: written twice and not read in between, nor by the second writer. *)
(* loadspy: what is loaded is what these bytes held when they were loaded    *)
(* last; a byte never loaded counts as loaded with 0.  redspy: the store     *)
(* leaves every byte as it was.                                             *)
Wasteful(t, j, o) ==
    LET prev(a) == LastBefore(t, j, a, Tracked) IN
    CASE client.name = "deadspy" ->
           {a \in OperandBytes(o) \ BytesOf(Code(t)[j].src) :
               prev(a) > 0 /\ a \in BytesOf(Code(t)[prev(a)].dst)}
      [] client.name = "loadspy" ->
           IF \A a \in OperandBytes(o) :
                ValueAt(t, j, a) = IF prev(a) = 0 THEN 0 ELSE ValueAt(t, prev(a), a)
           THEN OperandBytes(o) ELSE {}
      [] client.name = "redspy" ->
           IF \A a \in OperandBytes(o) : ValueAt(t, j, a) = Code(t)[j].put
           THEN OperandBytes(o) ELSE {}

(* The bytes on which instruction j wastes what instruction i did. *)
Wasted(t, i, j) ==
    {a \in UNION {Wasteful(t, j, Judged(t, j)[n]) : n \in DOMAIN Judged(t, j)} :
        LastBefore(t, j, a, Tracked) = i}

Counted(t, pair) == IF BagIn(pair, found[t]) THEN found[t][pair] ELSE 0

CtxtOf(t, i) == IF i = 0 THEN NoCtxt ELSE <<t, i>>

Settled(t) == life[t] # "new" /\ Quiet(t) /\ buffer[t] = <<>>

(* The bytes of the operands instruction i has judged, and those of the program. *)
BytesJudged(t, i) == SumFunction([j \in DOMAIN Judged(t, i) |-> Judged(t, i)[j].size])
JudgedBytes(t) == SumFunction([i \in Place(t) |-> BytesJudged(t, i)])

-----------------------------------------------------------------------------
RecordType == [kind : {"read", "before write", "after write"}, addr : Addr,
               size : 1 .. PageSize, ctxt : Thread \X Nat,
               val : UNION {[0 .. (n - 1) -> Value] : n \in 1 .. PageSize}]

Passes == {"none", "read mark", "test mark", "set mark", "report", "stamp",
           "compare", "copy", "end"}

MemTypeOK ==
    /\ ShadowTypeOK
    /\ client \in Clients
    /\ life \in [Thread -> {"new", "running", "exiting", "counted", "gone"}]
    /\ ip \in [Thread -> Nat]
    /\ called \in [Thread -> BOOLEAN]
    /\ mem \in [Addr -> Value]
    /\ \A t \in Thread :
         /\ \A n \in DOMAIN buffer[t] : buffer[t][n] \in RecordType
         /\ \A n \in DOMAIN queue[t] : queue[t][n] \in RecordType
         /\ IsABag(found[t])
    /\ pass \in [Thread -> Passes]
    /\ nth \in [Thread -> Nat]
    /\ fetched \in [Thread -> BOOLEAN]
    /\ same \in [Thread -> BOOLEAN]
    /\ slotNum \in [Thread -> 0 .. 255]
    /\ readIndex \in [Thread -> 0 .. 255]
    /\ bytes \in [Thread -> Nat]
    /\ totals \in [bytes : Nat, found : Nat]

(* When all records of a thread have been applied - after a delivery in the *)
(* middle of its run, and at its end, though records lie in the buffer long *)
(* after the accesses and the steps of other threads come in between - the  *)
(* pairs it has counted for bytes no other thread touches are those its     *)
(* program wastes, byte for byte, whatever page the bytes are on and        *)
(* whoever made that page.                                                  *)
ReportsExact ==
    \A t \in Thread : Settled(t) =>
        \A j \in 1 .. (ip[t] - 1), i \in 0 .. (ip[t] - 1) :
            Private(t, j) /\ (i > 0 => Private(t, i)) =>
                Counted(t, <<CtxtOf(t, i), CtxtOf(t, j)>>) = Cardinality(Wasted(t, i, j))

(* What the exit of the process prints: every byte every thread accessed,   *)
(* and every one it reported, though the threads add theirs concurrently.   *)
TotalsExact ==
    (\A t \in Thread : life[t] = "gone") =>
        /\ totals.bytes = SumFunction([t \in Thread |-> JudgedBytes(t)])
        /\ totals.found = SumFunction([t \in Thread |-> SumFunction(found[t])])

(* redspy: between two deliveries no slot is in use, and a value is never  *)
(* compared with a slot of another write.                                  *)
SlotsPaired ==
    \A t \in Thread :
        /\ Quiet(t) => slotNum[t] = 0 /\ readIndex[t] = 0
        /\ slotNum[t] > 0 => readIndex[t] < slotNum[t]
        /\ slotNum[t] = 0 => readIndex[t] = 0

(* redspy.cpp asserts that the slots of an instruction do not overflow.    *)
SlotsFit == \A t \in Thread : slotNum[t] <= MaxSlots /\ readIndex[t] <= MaxSlots

(* A look-up never keeps a thread waiting for another, and the last records *)
(* are applied: every thread gets to its end and the process exits.         *)
Finishes == <>(~ mapped)
=============================================================================
