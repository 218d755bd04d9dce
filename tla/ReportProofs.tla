---------------------------- MODULE ReportProofs ----------------------------
(***************************************************************************)
(* Proof that the reports of deadspy, loadspy and redspy are exact, for    *)
(* any number of threads, any programs and any memory: ReportsExact of     *)
(* MemoryClients.                                                          *)
(*                                                                         *)
(* ReportsExact speaks of a thread that has no record left.  The invariant *)
(* it follows from has to say what the pairs counted are while there are   *)
(* some, in the middle of one, and while other threads apply theirs.       *)
(*                                                                         *)
(* A program has moments: an instruction reads and writes at two of them,  *)
(* their numbers grow along the program, and every record is of one.  What *)
(* a byte that only one thread touches has been through is therefore known *)
(* without running the program: Moments are those at which its shadow      *)
(* changes, Prev is the last before a given one, and Wastes says whether   *)
(* the access at a moment is one to report.                                *)
(*                                                                         *)
(* ThreadOK, the invariant, says of a thread that                          *)
(*   - the records it has still to apply are of accesses of what it has    *)
(*     executed, in the order of their moments, and that none is missing;  *)
(*   - what it has recorded of a byte's value is what the program says;    *)
(*   - the cell of a byte is as the last moment before those has left it,  *)
(*     the mark and the context separately, as they are written one after  *)
(*     the other;                                                          *)
(*   - what has been found out about the record at hand agrees with Wastes;*)
(*   - redspy's slots hold what the writes they are for have found;        *)
(*   - each pair is counted once for each byte that has been wasted at a   *)
(*     moment that is past.                                                *)
(***************************************************************************)
EXTENDS MemoryClientsProofs

-----------------------------------------------------------------------------
(* What the pairs counted say, read off the records still to be applied.   *)

(* The bytes of a record or an operand from the n-th on. *)
BytesFrom(r, n) == {Plus(r.addr, k) : k \in n .. (r.size - 1)}

Read == "read"

(* An instruction leaves records of at most two kinds, one after the other: *)
(* its accesses happen at two moments, whose numbers grow along the program. *)
FirstKind(c) == IF c.naive THEN Read ELSE Before
Moment(c, j, k) == IF k = FirstKind(c) THEN 2 * j ELSE 2 * j + 1
MomentOf(c, r) == Moment(c, r.ctxt[2], r.kind)

(* The kinds of records that change the shadow, and the one that is judged. *)
Acting(c) == IF c.name = "deadspy" THEN {Read, Before}
             ELSE IF c.name = "loadspy" THEN {Read} ELSE {After}
JudgedKind(c) == IF c.name = "deadspy" THEN Before ELSE IF c.name = "loadspy" THEN Read ELSE After

(* The accesses of an instruction that leave a record of some kind. *)
Places(c, t) == 1 .. Len(c.code[t])
OpsOf(i, k) == IF k = Read THEN i.src ELSE i.dst
Accesses(c, t, j, k) ==
    IF c.code[t][j].cti /\ c.name # "deadspy" THEN <<>> ELSE OpsOf(c.code[t][j], k)

(* The moments at which the program changes the shadow of a byte, and those *)
(* at which deadspy marks it as written.                                   *)
MomentsIn(c, t, a, K) ==
    {m \in 0 .. (2 * Len(c.code[t]) + 1) :
        \E j \in Places(c, t), k \in K :
            m = Moment(c, j, k) /\ a \in BytesOf(Accesses(c, t, j, k))}
Moments(c, t, a) == MomentsIn(c, t, a, Acting(c))
Writes(c, t, a)  == MomentsIn(c, t, a, {Before})

Latest(S) == Max({0} \cup S)
Earlier(c, t, m, a) == {x \in Moments(c, t, a) : x < m}
UpTo(c, t, m, a)    == {x \in Moments(c, t, a) : x <= m}
Prev(c, t, m, a)    == Latest(Earlier(c, t, m, a))

(* The value a byte has when instruction j begins. *)
WritesBefore(c, t, j, a) == {i \in 1 .. (j - 1) : a \in Stores(c.code[t][i])}
Given(c, t, j, a) ==
    LET i == Latest(WritesBefore(c, t, j, a)) IN IF i = 0 THEN 0 ELSE c.code[t][i].put

(* The mark and the context that the change at moment m leaves. *)
MarkAfter(c, t, m, a) ==
    IF c.name = "deadspy" THEN IF m \in Writes(c, t, a) THEN WriteAction ELSE ReadAction
    ELSE IF m = 0 THEN 0 ELSE Given(c, t, m \div 2, a)
CtxtAfter(t, m) == CtxtOf(t, m \div 2)

(* A byte speaks for waste at moment m. *)
Wastes(c, t, m, a) ==
    IF c.name = "deadspy" THEN Prev(c, t, m, a) \in Writes(c, t, a)
    ELSE Given(c, t, m \div 2, a) = IF c.name = "loadspy" THEN MarkAfter(c, t, Prev(c, t, m, a), a)
                                    ELSE c.code[t][m \div 2].put
WasteIn(c, t, m, o) ==
    {a \in BytesFrom(o, 0) :
        IF c.name = "deadspy" THEN Wastes(c, t, m, a)
        ELSE \A b \in BytesFrom(o, 0) : Wastes(c, t, m, b)}
WasteOf(c, t, i, j) ==
    LET os == Accesses(c, t, j, JudgedKind(c))
        m  == Moment(c, j, JudgedKind(c)) IN
    {a \in UNION {WasteIn(c, t, m, os[n]) : n \in DOMAIN os} :
        CtxtAfter(t, Prev(c, t, m, a)) = CtxtOf(t, i)}

(* No other thread touches a byte. *)
PrivateByte(c, t, a) ==
    \A u \in Thread \ {t} : \A k \in Places(c, u) :
        a \notin BytesOf(c.code[u][k].src) \cup Stores(c.code[u][k])

(* The moments of which records are left, when s bytes of the first record  *)
(* are done with, and those that are done.                                 *)
RestOf(q, s, n) == BytesFrom(q[n], IF n = 1 THEN s ELSE 0)
Pend(c, q, s, a) ==
    {MomentOf(c, q[n]) : n \in {n \in 1 .. Len(q) : q[n].kind \in Acting(c) /\ a \in RestOf(q, s, n)}}
Past(c, t, d, q, s, a) == {m \in Moments(c, t, a) : m <= 2 * d + 1} \ Pend(c, q, s, a)
LastPast(c, t, d, q, s, a) == Latest(Past(c, t, d, q, s, a))

-----------------------------------------------------------------------------
(* The queue.                                                              *)

(* A record is that of an access of the program. *)
IsOp(c, t, r, n) ==
    LET os == Accesses(c, t, r.ctxt[2], r.kind) IN
    n \in DOMAIN os /\ r.addr = os[n].addr /\ r.size = os[n].size
Fits(c, t, d, r) ==
    /\ r.ctxt[1] = t /\ r.ctxt[2] \in 1 .. d /\ r.ctxt[2] \in Places(c, t)
    /\ \E n \in DOMAIN Accesses(c, t, r.ctxt[2], r.kind) : IsOp(c, t, r, n)
    /\ r.kind = After \/ r.kind \in Acting(c) \cup {Before}
    /\ \A k \in 0 .. (r.size - 1) : PrivateByte(c, t, Plus(r.addr, k)) =>
         r.val[k] = IF r.kind = After THEN c.code[t][r.ctxt[2]].put
                    ELSE Given(c, t, r.ctxt[2], Plus(r.addr, k))

InOrder(c, q) ==
    \A n \in 1 .. Len(q) : \A m \in 1 .. (n - 1) :
        \/ MomentOf(c, q[m]) < MomentOf(c, q[n])
        \/ /\ MomentOf(c, q[m]) = MomentOf(c, q[n])
           /\ BytesFrom(q[m], 0) \cap BytesFrom(q[n], 0) = {}

(* What is later than the first record is still to come. *)
Listed(c, q, lo, m, a) ==
    \E n \in lo .. Len(q) : /\ q[n].kind \in Acting(c) /\ MomentOf(c, q[n]) = m
                            /\ a \in BytesFrom(q[n], 0)
Complete(c, t, d, q) ==
    q # <<>> => \A a \in Addr : \A m \in Moments(c, t, a) :
        m <= 2 * d + 1 /\ m > MomentOf(c, q[1]) => Listed(c, q, 2, m, a)

QueueOK(c, t, d, q) ==
    /\ \A n \in 1 .. Len(q) : Fits(c, t, d, q[n])
    /\ InOrder(c, q)
    /\ Complete(c, t, d, q)

(* All records that a thread has still to apply: they are in its buffer or  *)
(* in its queue.                                                           *)
Todo(t) == IF queue[t] = <<>> THEN buffer[t] ELSE queue[t]
HeldOnce(t) == queue[t] = <<>> \/ buffer[t] = <<>>

-----------------------------------------------------------------------------
(* How many bytes of the first record have their mark, have their context,  *)
(* and have been reported if they are to be.                               *)
Marked(c, p, n, size) ==
    IF p \in {"none", "compare"} THEN 0
    ELSE IF p = "end" \/ (p \in {"report", "stamp"} /\ c.name # "deadspy") THEN size
    ELSE IF p = "stamp" THEN n + 1 ELSE n
Stamped(p, n, size) ==
    IF p \in {"none", "compare", "copy"} THEN 0 ELSE IF p = "end" THEN size ELSE n
Reviewed(p, n, size) == IF p = "stamp" THEN n + 1 ELSE Stamped(p, n, size)

MarkedAt(t)   == Marked(client, pass[t], nth[t], Rec(t).size)
StampedAt(t)  == Stamped(pass[t], nth[t], Rec(t).size)
ReviewedAt(t) == Reviewed(pass[t], nth[t], Rec(t).size)

MarkNow(t, a)  == LastPast(client, t, Done(t), Todo(t), MarkedAt(t), a)
StampNow(t, a) == LastPast(client, t, Done(t), Todo(t), StampedAt(t), a)
PastNow(t, a)  == Past(client, t, Done(t), Todo(t), ReviewedAt(t), a)

MarkOK(t, a) ==
    client.name # "redspy" => CellAt(a).mark = MarkAfter(client, t, MarkNow(t, a), a)
CtxtOK(t, a) ==
    (client.name = "deadspy" => StampNow(t, a) \in Writes(client, t, a)) =>
        CellAt(a).ctxt = CtxtAfter(t, StampNow(t, a))
ValueOK(t, a) == mem[a] = Given(client, t, ip[t], a)

PrivateRec(t) == \A a \in BytesFrom(Rec(t), 0) : PrivateByte(client, t, a)

RecMoment(t) == MomentOf(client, Rec(t))

(* The passes of deadspy before its shadow is compared with anything. *)
Reading == "read mark"
Testing == "test mark"
Setting == "set mark"

KindOK(t) ==
    /\ pass[t] \in {Reading, Testing, Setting} => client.name = "deadspy"
    /\ pass[t] \in {"compare", "copy"} => client.name = "loadspy"
    /\ pass[t] = "end" => client.name = "redspy"
    /\ pass[t] = Reading => Rec(t).kind = Read
    /\ pass[t] \notin {"none", Reading} => Rec(t).kind = JudgedKind(client)

PassOK(t) ==
    pass[t] \notin {"none", "end"} =>
        IF client.name = "deadspy"
        THEN PrivateByte(client, t, Byte(t)) =>
               /\ pass[t] = "report" => Wastes(client, t, RecMoment(t), Byte(t))
               /\ pass[t] = Setting => ~ Wastes(client, t, RecMoment(t), Byte(t))
        ELSE PrivateRec(t) =>
               /\ pass[t] = "compare" =>
                    \A k \in 0 .. (nth[t] - 1) : Wastes(client, t, RecMoment(t), Plus(Rec(t).addr, k))
               /\ pass[t] # "compare" =>
                    (same[t] <=> \A a \in BytesFrom(Rec(t), 0) : Wastes(client, t, RecMoment(t), a))
               /\ pass[t] = "report" => same[t]

MissOK(t) ==
    pass[t] = Reading /\ fetched[t] =>
        /\ at[t] = BaseOf(Byte(t))
        /\ step[t] = "missed" /\ PrivateByte(client, t, Byte(t)) => CellAt(Byte(t)).mark = ReadAction

NaiveOK(t) == client.naive => \A n \in DOMAIN queue[t] : queue[t][n].ctxt[2] = ip[t]

Reported(t, i, j) ==
    {a \in WasteOf(client, t, i, j) :
        Moment(client, j, JudgedKind(client)) \in PastNow(t, a)}
CountOK(t) ==
    \A j \in Places(client, t) : \A i \in {0} \cup Places(client, t) :
        (\A a \in BytesOf(Accesses(client, t, j, JudgedKind(client))) : PrivateByte(client, t, a)) =>
            Counted(t, <<CtxtOf(t, i), CtxtOf(t, j)>>) = Cardinality(Reported(t, i, j))

-----------------------------------------------------------------------------
(* redspy's slots. *)
Follows(c, t, r, s) ==
    LET L == Len(c.code[t][r.ctxt[2]].dst) IN
    \A n \in 1 .. L : IsOp(c, t, r, n) =>
        IF r.kind = Before
        THEN /\ s.ctxt = r.ctxt
             /\ IF n < L THEN s.kind = Before /\ IsOp(c, t, s, n + 1) ELSE s.kind = After /\ IsOp(c, t, s, 1)
        ELSE IF n < L THEN s.ctxt = r.ctxt /\ s.kind = After /\ IsOp(c, t, s, n + 1)
             ELSE s.kind = Before /\ IsOp(c, t, s, 1)
Final(c, t, r) == r.kind = After /\ IsOp(c, t, r, Len(c.code[t][r.ctxt[2]].dst))
Chain(c, t, q) ==
    /\ \A n \in 1 .. (Len(q) - 1) : Follows(c, t, q[n], q[n + 1])
    /\ q # <<>> => Final(c, t, q[Len(q)])

Kept(c, t, s, j, m) ==
    LET o == c.code[t][j].dst[m] IN
    \A k \in 0 .. (o.size - 1) :
        /\ k \in DOMAIN s[m - 1]
        /\ PrivateByte(c, t, Plus(o.addr, k)) => s[m - 1][k] = Given(c, t, j, Plus(o.addr, k))
HeadOK(c, t, r, s, x, y) ==
    LET L == Len(c.code[t][r.ctxt[2]].dst) IN
    \E n \in 1 .. L :
        /\ IsOp(c, t, r, n)
        /\ IF r.kind = Before THEN x = n - 1 /\ y = 0 ELSE x = L /\ y = n - 1
        /\ \A m \in 1 .. x : Kept(c, t, s, r.ctxt[2], m)
SlotsOK(t) ==
    client.name = "redspy" =>
        /\ Chain(client, t, Todo(t))
        /\ Todo(t) # <<>> => HeadOK(client, t, Todo(t)[1], slot[t], slotNum[t], readIndex[t])

-----------------------------------------------------------------------------
(* The invariant.                                                          *)

BytesOK(t) == \A a \in Addr : PrivateByte(client, t, a) => MarkOK(t, a) /\ CtxtOK(t, a) /\ ValueOK(t, a)
ThreadOK(t) ==
    /\ HeldOnce(t)
    /\ QueueOK(client, t, Done(t), Todo(t))
    /\ BytesOK(t) /\ KindOK(t) /\ PassOK(t) /\ MissOK(t) /\ NaiveOK(t) /\ CountOK(t) /\ SlotsOK(t)

AllRight == \A t \in Thread : ThreadOK(t)

(* What is assumed of the programs: no two operands of an instruction that *)
(* it reads, and no two that it writes, share a byte; and the instructions *)
(* of a buffered deadspy read no byte that they write, because its records *)
(* of what an instruction writes come before those of what it reads.       *)
Apart(os) == \A m, n \in DOMAIN os : m # n => BytesFrom(os[m], 0) \cap BytesFrom(os[n], 0) = {}
OperandsApart ==
    \A c \in Clients : \A t \in Thread : \A n \in DOMAIN c.code[t] :
        LET i == c.code[t][n] IN
        /\ Apart(i.src) /\ Apart(i.dst)
        /\ c.name = "deadspy" /\ ~ c.naive => BytesOf(i.src) \cap BytesOf(i.dst) = {}

-----------------------------------------------------------------------------
(* Moments and bytes.                                                      *)

LEMMA CodeOfClient ==
    ASSUME NEW c \in Clients, NEW t \in Thread
    PROVE  /\ c.code[t] \in Seq(Instruction) /\ Len(c.code[t]) \in Nat
           /\ DOMAIN c.code[t] = Places(c, t) /\ Places(c, t) \subseteq Nat
           /\ \A j \in Places(c, t) : c.code[t][j] \in Instruction
<1>1. c.code[t] \in Seq(Instruction)
    BY ClientsAssumption
<1> DEFINE q == c.code[t]
<1>2. q \in Seq(Instruction)
    BY <1>1
<1> HIDE DEF q
<1>3. Len(q) \in Nat /\ DOMAIN q = 1 .. Len(q) /\ \A j \in 1 .. Len(q) : q[j] \in Instruction
    BY <1>2, LenProperties, ElementOfSeq
<1> QED
    BY <1>2, <1>3 DEF q, Places

LEMMA MomentIsNumber ==
    ASSUME NEW c, NEW k, NEW j \in Nat
    PROVE  /\ Moment(c, j, k) \in Nat
           /\ Moment(c, j, k) = 2 * j \/ Moment(c, j, k) = 2 * j + 1
           /\ Moment(c, j, k) \div 2 = j
           /\ Moment(c, j, k) >= 2 * j /\ Moment(c, j, k) <= 2 * j + 1
<1>1. Moment(c, j, k) = 2 * j \/ Moment(c, j, k) = 2 * j + 1
    BY DEF Moment
<1> DEFINE m == Moment(c, j, k)
<1>2. m = 2 * j \/ m = 2 * j + 1
    BY <1>1
<1> HIDE DEF m
<1>3. m \in Nat /\ m \div 2 = j /\ m >= 2 * j /\ m <= 2 * j + 1
    BY <1>2
<1> QED
    BY <1>2, <1>3 DEF m

LEMMA KindsDiffer == Read # Before /\ Read # After /\ Before # After
BY DEF Read, Before, After

(* The moment of an acting record says of which instruction and kind it is. *)
LEMMA MomentsDiffer ==
    ASSUME NEW c \in Clients, NEW j \in Nat, NEW i \in Nat,
           NEW k \in Acting(c), NEW l \in Acting(c), Moment(c, j, k) = Moment(c, i, l)
    PROVE  j = i /\ k = l
<1>1. j = i
    BY MomentIsNumber
<1>2. k = l
    <2>1. CASE c.name = "deadspy"
        <3>1. k \in {Read, Before} /\ l \in {Read, Before}
            BY <2>1 DEF Acting
        <3>2. 2 * j # 2 * j + 1
            OBVIOUS
        <3>3. (k = FirstKind(c)) <=> (l = FirstKind(c))
            BY <1>1, <3>2 DEF Moment
        <3>4. FirstKind(c) = Read \/ FirstKind(c) = Before
            BY DEF FirstKind
        <3> QED
            BY <3>1, <3>3, <3>4, KindsDiffer
    <2>2. CASE c.name # "deadspy"
        BY <2>2 DEF Acting
    <2> QED
        BY <2>1, <2>2
<1> QED
    BY <1>1, <1>2

LEMMA LatestOfSet ==
    ASSUME NEW n \in Nat, NEW S \in SUBSET (0 .. n)
    PROVE  /\ Latest(S) \in {0} \cup S /\ Latest(S) \in 0 .. n
           /\ \A x \in S : x <= Latest(S)
<1> DEFINE T == {0} \cup S
<1>1. T \in SUBSET Nat /\ T # {} /\ \A x \in T : x <= n
    OBVIOUS
<1>2. Max(T) \in T /\ \A x \in T : x <= Max(T)
    <2> HIDE DEF T
    <2> QED
        BY <1>1, MaxOfBounded
<1>3. Latest(S) = Max(T)
    BY DEF Latest
<1>4. T \subseteq 0 .. n
    OBVIOUS
<1>5. \A x \in S : x \in T
    OBVIOUS
<1>6. Latest(S) \in T
    BY <1>2, <1>3
<1>7. \A x \in S : x <= Latest(S)
    BY <1>2, <1>3, <1>5
<1> QED
    BY <1>4, <1>6, <1>7

LEMMA LatestIs ==
    ASSUME NEW n \in Nat, NEW S \in SUBSET (0 .. n), NEW m \in {0} \cup S, \A x \in S : x <= m
    PROVE  Latest(S) = m
<1>1. Latest(S) \in {0} \cup S /\ Latest(S) \in 0 .. n /\ \A x \in S : x <= Latest(S)
    BY LatestOfSet
<1>2. m \in Nat /\ m >= 0
    OBVIOUS
<1>3. m <= Latest(S) /\ Latest(S) <= m
    BY <1>1, <1>2
<1> QED
    BY <1>1, <1>2, <1>3

LEMMA QuotientAndRest ==
    ASSUME NEW x \in Nat, NEW n \in Nat, n > 0
    PROVE  x \div n \in Nat /\ x = n * (x \div n) + (x % n) /\ x % n \in 0 .. (n - 1)
<1>1. x \div n \in Nat
    OBVIOUS
<1>2. x % n \in 0 .. (n - 1)
    OBVIOUS
<1>4. x % n = x - (x \div n) * n
    OBVIOUS
<1> DEFINE q == x \div n
           r == x % n
<1>5. q \in Nat /\ r = x - q * n /\ r \in 0 .. (n - 1)
    BY <1>1, <1>2, <1>4
<1> HIDE DEF q, r
<1>6. x = n * q + r
    <2>1. q * n = n * q /\ n * q \in Int /\ x \in Int /\ r \in Int
        BY <1>5
    <2>2. r = x - n * q
        BY <1>5, <2>1
    <2> HIDE DEF q, r
    <2> QED
        BY <2>1, <2>2
<1> QED
    BY <1>5, <1>6, Zenon DEF q, r

(* The bytes of an operand are as many as its size says. *)
LEMMA PlusInjective ==
    ASSUME NEW a \in Addr, NEW k \in 0 .. (PageSize - 1), NEW l \in 0 .. (PageSize - 1),
           Plus(a, k) = Plus(a, l)
    PROVE  k = l
<1> DEFINE x == a[3] + k
           y == a[3] + l
           p == x \div PageSize
           r == y \div PageSize
<1>1. PageSize \in Nat /\ PageSize > 0 /\ a[3] \in Nat /\ k \in Nat /\ l \in Nat
      /\ k < PageSize /\ l < PageSize
    BY ShadowMemoryAssumption DEF Addr, Offset
<1>2. x % PageSize = y % PageSize
    BY DEF Plus
<1> DEFINE u == x % PageSize
<1>3. x \in Nat /\ y \in Nat
    BY <1>1
<1>31. x = PageSize * p + u /\ p \in Nat /\ u \in Nat
    <2> HIDE DEF x
    <2> QED
        BY <1>1, <1>3, QuotientAndRest
<1>32. y = PageSize * r + u /\ r \in Nat
    <2>1. y = PageSize * r + (y % PageSize) /\ r \in Nat
        <3> HIDE DEF y
        <3> QED
            BY <1>1, <1>3, QuotientAndRest
    <2>2. y % PageSize = u
        BY <1>2
    <2> QED
        BY <2>1, <2>2, Zenon
<1>4. a[3] + k = PageSize * p + u /\ a[3] + l = PageSize * r + u /\ u \in Nat /\ p \in Nat /\ r \in Nat
    BY <1>31, <1>32
<1> HIDE DEF p, r, u, x, y
<1>5. p = r
    <2>1. ASSUME p > r PROVE FALSE
        <3>1. PageSize * p >= PageSize * (r + 1)
            BY <1>1, <1>4, <2>1
        <3>2. PageSize * (r + 1) = PageSize * r + PageSize
            BY <1>1, <1>4
        <3>3. PageSize * p \in Nat /\ PageSize * r \in Nat
            BY <1>1, <1>4
        <3> QED
            BY <1>1, <1>4, <3>1, <3>2, <3>3
    <2>2. ASSUME r > p PROVE FALSE
        <3>1. PageSize * r >= PageSize * (p + 1)
            BY <1>1, <1>4, <2>2
        <3>2. PageSize * (p + 1) = PageSize * p + PageSize
            BY <1>1, <1>4
        <3>3. PageSize * p \in Nat /\ PageSize * r \in Nat
            BY <1>1, <1>4
        <3> QED
            BY <1>1, <1>4, <3>1, <3>2, <3>3
    <2> QED
        BY <1>4, <2>1, <2>2
<1>6. PageSize * p = PageSize * r /\ PageSize * p \in Nat
    BY <1>1, <1>4, <1>5
<1> QED
    BY <1>1, <1>4, <1>6

LEMMA BytesOfRecord ==
    ASSUME NEW r, r.addr \in Addr, r.size \in 1 .. PageSize
    PROVE  /\ r.size \in Nat
           /\ \A n \in Nat : BytesFrom(r, n) \subseteq Addr /\ BytesFrom(r, n) \subseteq BytesFrom(r, 0)
           /\ BytesFrom(r, r.size) = {}
           /\ \A k \in 0 .. (r.size - 1) :
                /\ Plus(r.addr, k) \in Addr /\ Plus(r.addr, k) \in BytesFrom(r, k)
                /\ Plus(r.addr, k) \in BytesFrom(r, 0)
                /\ Plus(r.addr, k) \notin BytesFrom(r, k + 1)
                /\ \A a : a # Plus(r.addr, k) => (a \in BytesFrom(r, k) <=> a \in BytesFrom(r, k + 1))
           /\ OperandBytes(r) = BytesFrom(r, 0)
<1> DEFINE z == r.size
           a0 == r.addr
<1>1. z \in Nat /\ z >= 1 /\ z <= PageSize /\ PageSize \in Nat /\ a0 \in Addr
    BY ShadowMemoryAssumption
<1>2. \A n : BytesFrom(r, n) = {Plus(a0, k) : k \in n .. (z - 1)}
    BY DEF BytesFrom
<1>3. OperandBytes(r) = {Plus(a0, k) : k \in 0 .. (z - 1)}
    BY DEF OperandBytes
<1> HIDE DEF z, a0
<1>4. \A n \in Nat : BytesFrom(r, n) \subseteq Addr /\ BytesFrom(r, n) \subseteq BytesFrom(r, 0)
    <2> TAKE n \in Nat
    <2>1. \A k \in n .. (z - 1) : k \in Nat /\ k \in 0 .. (z - 1)
        BY <1>1
    <2>2. \A k \in n .. (z - 1) : Plus(a0, k) \in Addr
        BY <1>1, <2>1, PlusInAddr
    <2> QED
        BY <1>2, <2>1, <2>2
<1>5. BytesFrom(r, z) = {}
    <2>1. z .. (z - 1) = {}
        BY <1>1
    <2> QED
        BY <1>2, <2>1
<1>6. ASSUME NEW k \in 0 .. (z - 1)
      PROVE  /\ Plus(a0, k) \in Addr /\ Plus(a0, k) \in BytesFrom(r, k)
             /\ Plus(a0, k) \in BytesFrom(r, 0)
             /\ Plus(a0, k) \notin BytesFrom(r, k + 1)
             /\ \A a : a # Plus(a0, k) => (a \in BytesFrom(r, k) <=> a \in BytesFrom(r, k + 1))
    <2>1. k \in Nat /\ k \in k .. (z - 1) /\ k \in 0 .. (PageSize - 1)
        BY <1>1
    <2>2. Plus(a0, k) \in Addr /\ Plus(a0, k) \in BytesFrom(r, k) /\ Plus(a0, k) \in BytesFrom(r, 0)
        BY <1>1, <1>2, <2>1, PlusInAddr
    <2>3. \A l \in (k + 1) .. (z - 1) : l \in 0 .. (PageSize - 1) /\ l # k
        BY <1>1
    <2>4. \A l \in (k + 1) .. (z - 1) : Plus(a0, l) # Plus(a0, k)
        BY <1>1, <2>1, <2>3, PlusInjective
    <2>5. k .. (z - 1) = {k} \cup (k + 1) .. (z - 1)
        BY <1>1
    <2> QED
        BY <1>2, <2>2, <2>4, <2>5
<1>7. r.size = z /\ r.addr = a0
    BY DEF z, a0
<1> QED
    BY <1>1, <1>2, <1>3, <1>4, <1>5, <1>6, <1>7

LEMMA RecordHas ==
    ASSUME NEW r \in Record
    PROVE  /\ r.addr \in Addr /\ r.size \in 1 .. PageSize /\ r.ctxt \in Contexts
           /\ r.kind \in {Read, Before, After}
           /\ r.val \in [0 .. (r.size - 1) -> Value]
BY DEF Record, Read, Before, After

-----------------------------------------------------------------------------
(* The moments of a byte, and the records of a queue.                      *)

LEMMA MomentsHave ==
    ASSUME NEW c \in Clients, NEW t \in Thread, NEW a, NEW K
    PROVE  /\ 2 * Len(c.code[t]) + 1 \in Nat
           /\ MomentsIn(c, t, a, K) \in SUBSET (0 .. (2 * Len(c.code[t]) + 1))
           /\ \A m \in MomentsIn(c, t, a, K) : m >= 2 /\ m \in Nat
           /\ \A j \in Places(c, t), k \in K :
                a \in BytesOf(Accesses(c, t, j, k)) => Moment(c, j, k) \in MomentsIn(c, t, a, K)
<1> DEFINE L == Len(c.code[t])
<1>1. L \in Nat /\ Places(c, t) \subseteq Nat /\ Places(c, t) = 1 .. L
    BY CodeOfClient DEF Places
<1>2. MomentsIn(c, t, a, K) = {m \in 0 .. (2 * L + 1) :
        \E j \in Places(c, t), k \in K : m = Moment(c, j, k) /\ a \in BytesOf(Accesses(c, t, j, k))}
    BY DEF MomentsIn
<1> HIDE DEF L
<1>3. ASSUME NEW j \in Places(c, t), NEW k \in K
      PROVE  Moment(c, j, k) \in 0 .. (2 * L + 1) /\ Moment(c, j, k) >= 2
    BY <1>1, MomentIsNumber
<1>4. 2 * L + 1 \in Nat
    BY <1>1
<1>5. \A m \in MomentsIn(c, t, a, K) : m >= 2 /\ m \in Nat
    BY <1>1, <1>2, <1>3
<1>6. \A j \in Places(c, t), k \in K :
         a \in BytesOf(Accesses(c, t, j, k)) => Moment(c, j, k) \in MomentsIn(c, t, a, K)
    BY <1>2, <1>3
<1> QED
    BY <1>2, <1>4, <1>5, <1>6 DEF L

LEMMA MomentOfByte ==
    ASSUME NEW c \in Clients, NEW t \in Thread, NEW a, NEW K \in SUBSET Acting(c),
           NEW j \in Places(c, t), NEW k \in Acting(c), Moment(c, j, k) \in MomentsIn(c, t, a, K)
    PROVE  k \in K /\ a \in BytesOf(Accesses(c, t, j, k))
<1>1. PICK i \in Places(c, t), l \in K :
            Moment(c, j, k) = Moment(c, i, l) /\ a \in BytesOf(Accesses(c, t, i, l))
    BY DEF MomentsIn
<1>2. i \in Nat /\ j \in Nat
    BY CodeOfClient
<1>3. j = i /\ k = l
    BY <1>1, <1>2, MomentsDiffer
<1> QED
    BY <1>1, <1>3

LEMMA RecordFits ==
    ASSUME NEW c \in Clients, NEW t \in Thread, NEW d \in Nat, NEW r \in Record, Fits(c, t, d, r)
    PROVE  /\ r.ctxt[2] \in Nat /\ r.ctxt[2] \in Places(c, t)
           /\ MomentOf(c, r) \in Nat /\ MomentOf(c, r) >= 2 /\ MomentOf(c, r) <= 2 * d + 1
           /\ MomentOf(c, r) \div 2 = r.ctxt[2]
           /\ \A a \in BytesFrom(r, 0) :
                /\ a \in BytesOf(Accesses(c, t, r.ctxt[2], r.kind))
                /\ r.kind \in Acting(c) => MomentOf(c, r) \in Moments(c, t, a)
<1> DEFINE j == r.ctxt[2]
           os == Accesses(c, t, j, r.kind)
<1>1. j \in Places(c, t) /\ j \in 1 .. d /\ j \in Nat
    BY CodeOfClient DEF Fits
<1>2. /\ MomentOf(c, r) = Moment(c, j, r.kind)
      /\ MomentOf(c, r) \in Nat /\ MomentOf(c, r) >= 2 /\ MomentOf(c, r) <= 2 * d + 1
      /\ MomentOf(c, r) \div 2 = j
    <2> DEFINE m == Moment(c, j, r.kind)
    <2>1. m \in Nat /\ m >= 2 * j /\ m <= 2 * j + 1 /\ m \div 2 = j
        BY <1>1, MomentIsNumber
    <2>2. MomentOf(c, r) = m
        BY DEF MomentOf
    <2> HIDE DEF m, j
    <2> QED
        BY <1>1, <2>1, <2>2 DEF m
<1>3. PICK n \in DOMAIN os : r.addr = os[n].addr /\ r.size = os[n].size
    BY DEF Fits, IsOp
<1>4. BytesFrom(r, 0) = OperandBytes(os[n])
    BY <1>3 DEF BytesFrom, OperandBytes
<1>5. \A a \in BytesFrom(r, 0) : a \in BytesOf(os)
    BY <1>3, <1>4 DEF BytesOf
<1>6. \A a \in BytesFrom(r, 0) : r.kind \in Acting(c) => MomentOf(c, r) \in Moments(c, t, a)
    BY <1>1, <1>2, <1>5, MomentsHave DEF Moments
<1> QED
    BY <1>1, <1>2, <1>5, <1>6

(* The first record is the earliest of those left, and the only one of its  *)
(* moment that has its bytes.                                              *)
LEMMA FirstIsEarliest ==
    ASSUME NEW c \in Clients, NEW t \in Thread, NEW d \in Nat, NEW q \in Seq(Record),
           QueueOK(c, t, d, q), q # <<>>
    PROVE  /\ 1 \in 1 .. Len(q) /\ Len(q) \in Nat /\ \A n \in 1 .. Len(q) : q[n] \in Record
           /\ \A n \in 1 .. Len(q) : /\ Fits(c, t, d, q[n])
                                     /\ MomentOf(c, q[n]) \in Nat /\ MomentOf(c, q[n]) <= 2 * d + 1
           /\ \A n \in 2 .. Len(q) :
                /\ MomentOf(c, q[1]) <= MomentOf(c, q[n])
                /\ MomentOf(c, q[1]) = MomentOf(c, q[n]) =>
                     BytesFrom(q[1], 0) \cap BytesFrom(q[n], 0) = {}
<1>1. Len(q) \in Nat /\ 1 \in 1 .. Len(q) /\ \A n \in 1 .. Len(q) : q[n] \in Record
    BY LenProperties, ElementOfSeq, EmptySeq
<1>2. ASSUME NEW n \in 1 .. Len(q)
      PROVE  Fits(c, t, d, q[n]) /\ MomentOf(c, q[n]) \in Nat /\ MomentOf(c, q[n]) <= 2 * d + 1
    BY <1>1, RecordFits DEF QueueOK
<1>3. ASSUME NEW n \in 2 .. Len(q)
      PROVE  \/ MomentOf(c, q[1]) < MomentOf(c, q[n])
             \/ /\ MomentOf(c, q[1]) = MomentOf(c, q[n])
                /\ BytesFrom(q[1], 0) \cap BytesFrom(q[n], 0) = {}
    <2>1. n \in 1 .. Len(q) /\ 1 \in 1 .. (n - 1)
        BY <1>1
    <2> QED
        BY <2>1 DEF QueueOK, InOrder
<1>4. \A n \in 2 .. Len(q) : n \in 1 .. Len(q)
    BY <1>1
<1>5. ASSUME NEW n \in 2 .. Len(q)
      PROVE  /\ MomentOf(c, q[1]) <= MomentOf(c, q[n])
             /\ MomentOf(c, q[1]) = MomentOf(c, q[n]) =>
                     BytesFrom(q[1], 0) \cap BytesFrom(q[n], 0) = {}
    <2>1. MomentOf(c, q[1]) \in Nat /\ MomentOf(c, q[n]) \in Nat
        BY <1>1, <1>2, <1>4
    <2> QED
        BY <1>3, <2>1
<1> QED
    BY <1>1, <1>2, <1>5

(* What is past for a byte that comes next: all moments before that of the  *)
(* record; and once it is done with, that moment too.                      *)
LEMMA PastOfFirst ==
    ASSUME NEW c \in Clients, NEW t \in Thread, NEW d \in Nat, NEW q \in Seq(Record),
           QueueOK(c, t, d, q), q # <<>>, q[1].kind \in Acting(c), NEW k \in 0 .. (q[1].size - 1),
           NEW a, a = Plus(q[1].addr, k), NEW m, m = MomentOf(c, q[1])
    PROVE  /\ a \in Addr /\ m \in Moments(c, t, a)
           /\ Past(c, t, d, q, k, a) = Earlier(c, t, m, a)
           /\ Past(c, t, d, q, k + 1, a) = UpTo(c, t, m, a)
<1>1. /\ 1 \in 1 .. Len(q) /\ Len(q) \in Nat /\ q[1] \in Record /\ m \in Nat /\ m <= 2 * d + 1
      /\ Fits(c, t, d, q[1])
    BY FirstIsEarliest
<1>2. /\ a \in Addr /\ a \in BytesFrom(q[1], k) /\ a \in BytesFrom(q[1], 0)
      /\ a \notin BytesFrom(q[1], k + 1)
    BY <1>1, RecordHas, BytesOfRecord
<1>3. m \in Moments(c, t, a)
    BY <1>1, <1>2, RecordFits
<1>4. \A n \in 2 .. Len(q) : MomentOf(c, q[n]) > m \/ a \notin BytesFrom(q[n], 0)
    <2> TAKE n \in 2 .. Len(q)
    <2>1. /\ m <= MomentOf(c, q[n]) /\ MomentOf(c, q[n]) \in Nat
          /\ m = MomentOf(c, q[n]) => BytesFrom(q[1], 0) \cap BytesFrom(q[n], 0) = {}
        <3>1. n \in 1 .. Len(q)
            BY <1>1
        <3> QED
            BY <3>1, FirstIsEarliest
    <2> QED
        BY <1>1, <1>2, <2>1
<1>5. ASSUME NEW s, NEW x
      PROVE  x \in Pend(c, q, s, a) <=>
               \E n \in 1 .. Len(q) : /\ q[n].kind \in Acting(c) /\ a \in RestOf(q, s, n)
                                      /\ x = MomentOf(c, q[n])
    BY DEF Pend
<1>6. ASSUME NEW s PROVE /\ RestOf(q, s, 1) = BytesFrom(q[1], s)
                         /\ \A n \in 2 .. Len(q) : RestOf(q, s, n) = BytesFrom(q[n], 0)
    <2>1. \A n \in 2 .. Len(q) : n # 1
        OBVIOUS
    <2> QED
        BY <2>1 DEF RestOf
<1>7. m \in Pend(c, q, k, a)
    BY <1>1, <1>2, <1>5, <1>6
<1>8. \A n \in 1 .. Len(q) : n = 1 \/ n \in 2 .. Len(q)
    BY <1>1
<1>9. \A x \in Pend(c, q, k, a) : x >= m /\ x \in Nat
    <2> TAKE x \in Pend(c, q, k, a)
    <2>1. PICK n \in 1 .. Len(q) : a \in RestOf(q, k, n) /\ x = MomentOf(c, q[n])
        BY <1>5
    <2>2. x \in Nat
        BY <2>1, FirstIsEarliest
    <2> QED
        BY <1>1, <1>4, <1>6, <1>8, <2>1, <2>2
<1>10. \A x \in Pend(c, q, k + 1, a) : x > m /\ x \in Nat
    <2> TAKE x \in Pend(c, q, k + 1, a)
    <2>1. PICK n \in 1 .. Len(q) : a \in RestOf(q, k + 1, n) /\ x = MomentOf(c, q[n])
        BY <1>5
    <2>2. x \in Nat
        BY <2>1, FirstIsEarliest
    <2>3. n # 1
        BY <1>2, <1>6, <2>1
    <2> QED
        BY <1>1, <1>4, <1>6, <1>8, <2>1, <2>2, <2>3
<1>11. ASSUME NEW x \in Moments(c, t, a), x <= 2 * d + 1, x > m, NEW s PROVE x \in Pend(c, q, s, a)
    <2>1. Listed(c, q, 2, x, a)
        BY <1>2, <1>11 DEF QueueOK, Complete
    <2>2. PICK n \in 2 .. Len(q) : /\ q[n].kind \in Acting(c) /\ MomentOf(c, q[n]) = x
                                   /\ a \in BytesFrom(q[n], 0)
        BY <2>1 DEF Listed
    <2>3. n \in 1 .. Len(q)
        BY <1>1
    <2> QED
        BY <1>5, <1>6, <2>2, <2>3
<1>12. \A x \in Moments(c, t, a) : x \in Nat
    BY MomentsHave DEF Moments
<1>13. \A x \in Moments(c, t, a) : x < m => x <= 2 * d + 1
    BY <1>1, <1>12
<1>14. Past(c, t, d, q, k, a) = {x \in Moments(c, t, a) : x < m}
    <2>1. Past(c, t, d, q, k, a) = {x \in Moments(c, t, a) : x <= 2 * d + 1} \ Pend(c, q, k, a)
        BY DEF Past
    <2>2. ASSUME NEW x \in Moments(c, t, a)
          PROVE  (x <= 2 * d + 1 /\ x \notin Pend(c, q, k, a)) <=> x < m
        <3>1. x \in Nat
            BY <1>12
        <3>2. CASE x < m
            BY <1>1, <1>9, <1>13, <3>1, <3>2
        <3>3. CASE x = m
            BY <1>1, <1>7, <3>3
        <3>4. CASE x > m
            BY <1>1, <1>11, <3>1, <3>4
        <3> QED
            BY <1>1, <3>1, <3>2, <3>3, <3>4
    <2> QED
        BY <2>1, <2>2
<1>15. Past(c, t, d, q, k + 1, a) = {x \in Moments(c, t, a) : x <= m}
    <2>1. Past(c, t, d, q, k + 1, a) = {x \in Moments(c, t, a) : x <= 2 * d + 1} \ Pend(c, q, k + 1, a)
        BY DEF Past
    <2>2. ASSUME NEW x \in Moments(c, t, a)
          PROVE  (x <= 2 * d + 1 /\ x \notin Pend(c, q, k + 1, a)) <=> x <= m
        <3>1. x \in Nat
            BY <1>12
        <3>2. CASE x <= m
            BY <1>1, <1>10, <3>1, <3>2
        <3>3. CASE x > m
            BY <1>1, <1>11, <3>1, <3>3
        <3> QED
            BY <1>1, <3>1, <3>2, <3>3
    <2> QED
        BY <2>1, <2>2
<1> QED
    BY <1>2, <1>3, <1>14, <1>15 DEF Earlier, UpTo

(* The other bytes wait as before. *)
LEMMA PastOfOthers ==
    ASSUME NEW c, NEW t, NEW d, NEW q \in Seq(Record), q # <<>>, NEW k \in 0 .. (q[1].size - 1),
           NEW a, a # Plus(q[1].addr, k)
    PROVE  Past(c, t, d, q, k + 1, a) = Past(c, t, d, q, k, a)
<1>1. q[1] \in Record
    BY LenProperties, ElementOfSeq, EmptySeq
<1>2. a \in BytesFrom(q[1], k) <=> a \in BytesFrom(q[1], k + 1)
    BY <1>1, RecordHas, BytesOfRecord
<1>3. \A n : a \in RestOf(q, k, n) <=> a \in RestOf(q, k + 1, n)
    BY <1>2 DEF RestOf
<1>4. Pend(c, q, k + 1, a) = Pend(c, q, k, a)
    BY <1>3 DEF Pend
<1> QED
    BY <1>4 DEF Past

LEMMA LatestBefore ==
    ASSUME NEW c \in Clients, NEW t \in Thread, NEW a, NEW m \in Moments(c, t, a)
    PROVE  /\ Latest(Earlier(c, t, m, a)) = Prev(c, t, m, a)
           /\ Latest(UpTo(c, t, m, a)) = m
<1> DEFINE N == 2 * Len(c.code[t]) + 1
           S == {x \in Moments(c, t, a) : x <= m}
<1>1. N \in Nat /\ Moments(c, t, a) \in SUBSET (0 .. N) /\ m \in Nat
    BY MomentsHave DEF Moments
<1>2. S \in SUBSET (0 .. N) /\ m \in S /\ \A x \in S : x <= m
    BY <1>1
<1>3. Latest(S) = m
    <2> HIDE DEF S, N
    <2> QED
        BY <1>1, <1>2, LatestIs
<1> QED
    BY <1>3 DEF Prev, UpTo

-----------------------------------------------------------------------------
(* A queue loses its first record, and grows by those of an instruction.   *)

LEMMA LeftOfAll ==
    ASSUME NEW c, NEW q, NEW a, NEW x
    PROVE  x \in Pend(c, q, 0, a) <=> Listed(c, q, 1, x, a)
<1>1. \A n : RestOf(q, 0, n) = BytesFrom(q[n], 0)
    BY DEF RestOf
<1> QED
    BY <1>1 DEF Pend, Listed

LEMMA LeftWithout ==
    ASSUME NEW c, NEW q \in Seq(Record), q # <<>>, NEW s, NEW a
    PROVE  /\ \A x : x \in Pend(c, q, s, a) <=>
                \/ x \in Pend(c, Tail(q), 0, a)
                \/ x = MomentOf(c, q[1]) /\ q[1].kind \in Acting(c) /\ a \in BytesFrom(q[1], s)
           /\ ~ (q[1].kind \in Acting(c) /\ a \in BytesFrom(q[1], s)) =>
                Pend(c, q, s, a) = Pend(c, Tail(q), 0, a)
<1>1. /\ Len(q) \in Nat /\ 1 \in 1 .. Len(q) /\ Len(Tail(q)) = Len(q) - 1
      /\ \A n \in 1 .. Len(Tail(q)) : Tail(q)[n] = q[n + 1]
    BY LenProperties, EmptySeq, HeadTailProperties
<1> DEFINE P(n) == q[n].kind \in Acting(c) /\ a \in BytesFrom(q[n], 0)
<1>2. ASSUME NEW x
      PROVE  x \in Pend(c, q, s, a) <=>
               \/ \E n \in 2 .. Len(q) : P(n) /\ x = MomentOf(c, q[n])
               \/ x = MomentOf(c, q[1]) /\ q[1].kind \in Acting(c) /\ a \in BytesFrom(q[1], s)
    <2>1. RestOf(q, s, 1) = BytesFrom(q[1], s) /\ \A n \in 2 .. Len(q) : RestOf(q, s, n) = BytesFrom(q[n], 0)
        <3>1. \A n \in 2 .. Len(q) : n # 1
            OBVIOUS
        <3> QED
            BY <3>1 DEF RestOf
    <2>2. \A n : n \in 1 .. Len(q) <=> n = 1 \/ n \in 2 .. Len(q)
        BY <1>1
    <2>3. x \in Pend(c, q, s, a) <=>
            \E n \in 1 .. Len(q) : q[n].kind \in Acting(c) /\ a \in RestOf(q, s, n) /\ x = MomentOf(c, q[n])
        BY DEF Pend
    <2> QED
        BY <2>1, <2>2, <2>3
<1>3. ASSUME NEW x
      PROVE  x \in Pend(c, Tail(q), 0, a) <=> \E n \in 2 .. Len(q) : P(n) /\ x = MomentOf(c, q[n])
    <2> DEFINE W(n) == /\ Tail(q)[n].kind \in Acting(c) /\ MomentOf(c, Tail(q)[n]) = x
                       /\ a \in BytesFrom(Tail(q)[n], 0)
               V(n) == P(n + 1) /\ x = MomentOf(c, q[n + 1])
    <2>0. \A n \in 1 .. Len(Tail(q)) : W(n) <=> V(n)
        BY <1>1
    <2>01. x \in Pend(c, Tail(q), 0, a) <=> \E n \in 1 .. Len(Tail(q)) : W(n)
        BY LeftOfAll DEF Listed
    <2>02. x \in Pend(c, Tail(q), 0, a) <=> \E n \in 1 .. Len(Tail(q)) : V(n)
        <3> HIDE DEF V, W
        <3> QED
            BY <2>0, <2>01
    <2>1. x \in Pend(c, Tail(q), 0, a) <=> \E n \in 1 .. Len(Tail(q)) : P(n + 1) /\ x = MomentOf(c, q[n + 1])
        BY <2>02
    <2>2. \A n : n \in 1 .. Len(Tail(q)) => n + 1 \in 2 .. Len(q)
        BY <1>1
    <2>3. \A n : n \in 2 .. Len(q) => n - 1 \in 1 .. Len(Tail(q)) /\ (n - 1) + 1 = n
        BY <1>1
    <2>4. ASSUME NEW n \in 2 .. Len(q), P(n), x = MomentOf(c, q[n])
          PROVE  \E k \in 1 .. Len(Tail(q)) : P(k + 1) /\ x = MomentOf(c, q[k + 1])
        <3>1. n - 1 \in 1 .. Len(Tail(q)) /\ (n - 1) + 1 = n
            BY <2>3
        <3> QED
            BY <2>4, <3>1
    <2> DEFINE Q(n) == P(n) /\ x = MomentOf(c, q[n])
    <2>5. x \in Pend(c, Tail(q), 0, a) <=> \E n \in 1 .. Len(Tail(q)) : Q(n + 1)
        BY <2>1
    <2>6. \A n \in 2 .. Len(q) : Q(n) => \E k \in 1 .. Len(Tail(q)) : Q(k + 1)
        BY <2>4
    <2>7. (\E n \in 2 .. Len(q) : Q(n)) <=> \E n \in 1 .. Len(Tail(q)) : Q(n + 1)
        <3> HIDE DEF Q
        <3> QED
            BY <2>2, <2>6
    <2> QED
        BY <2>5, <2>7
<1>4. \A x : x \in Pend(c, q, s, a) <=>
        \/ x \in Pend(c, Tail(q), 0, a)
        \/ x = MomentOf(c, q[1]) /\ q[1].kind \in Acting(c) /\ a \in BytesFrom(q[1], s)
    BY <1>2, <1>3
<1> QED
    BY <1>4

LEMMA QueueTail ==
    ASSUME NEW c \in Clients, NEW t \in Thread, NEW d \in Nat, NEW q \in Seq(Record),
           QueueOK(c, t, d, q), q # <<>>
    PROVE  /\ Tail(q) \in Seq(Record) /\ QueueOK(c, t, d, Tail(q))
           /\ \A a : Past(c, t, d, q, q[1].size, a) = Past(c, t, d, Tail(q), 0, a)
           /\ q[1].kind \notin Acting(c) =>
                \A a : Past(c, t, d, q, 0, a) = Past(c, t, d, Tail(q), 0, a)
<1>1. /\ Len(q) \in Nat /\ 1 \in 1 .. Len(q) /\ Len(Tail(q)) = Len(q) - 1 /\ Tail(q) \in Seq(Record)
      /\ \A n \in 1 .. Len(Tail(q)) : Tail(q)[n] = q[n + 1]
    BY LenProperties, EmptySeq, HeadTailProperties
<1>2. q[1] \in Record /\ BytesFrom(q[1], q[1].size) = {}
    <2>1. q[1] \in Record
        BY <1>1, ElementOfSeq
    <2> QED
        BY <2>1, RecordHas, BytesOfRecord
<1>3. \A a : Pend(c, q, q[1].size, a) = Pend(c, Tail(q), 0, a)
    BY <1>2, LeftWithout
<1>4. q[1].kind \notin Acting(c) => \A a : Pend(c, q, 0, a) = Pend(c, Tail(q), 0, a)
    BY LeftWithout
<1>5. \A n \in 1 .. Len(Tail(q)) : n + 1 \in 1 .. Len(q) /\ n + 1 \in 2 .. Len(q)
    BY <1>1
<1>6. \A n \in 1 .. Len(Tail(q)) : Fits(c, t, d, Tail(q)[n])
    BY <1>1, <1>5 DEF QueueOK
<1>7. InOrder(c, Tail(q))
    <2>1. ASSUME NEW n \in 1 .. Len(Tail(q)), NEW m \in 1 .. (n - 1)
          PROVE  /\ n + 1 \in 1 .. Len(q) /\ m + 1 \in 1 .. ((n + 1) - 1)
                 /\ Tail(q)[n] = q[n + 1] /\ Tail(q)[m] = q[m + 1]
        <3>1. m \in 1 .. Len(Tail(q)) /\ n \in Nat /\ m + 1 \in 1 .. ((n + 1) - 1)
            BY <1>1
        <3> QED
            BY <1>1, <1>5, <3>1
    <2>2. ASSUME NEW n \in 1 .. Len(Tail(q)), NEW m \in 1 .. (n - 1)
          PROVE  \/ MomentOf(c, Tail(q)[m]) < MomentOf(c, Tail(q)[n])
                 \/ /\ MomentOf(c, Tail(q)[m]) = MomentOf(c, Tail(q)[n])
                    /\ BytesFrom(Tail(q)[m], 0) \cap BytesFrom(Tail(q)[n], 0) = {}
        <3> DEFINE k == n + 1
                   l == m + 1
        <3>1. k \in 1 .. Len(q) /\ l \in 1 .. (k - 1) /\ Tail(q)[n] = q[k] /\ Tail(q)[m] = q[l]
            BY <2>1
        <3>2. \/ MomentOf(c, q[l]) < MomentOf(c, q[k])
              \/ /\ MomentOf(c, q[l]) = MomentOf(c, q[k])
                 /\ BytesFrom(q[l], 0) \cap BytesFrom(q[k], 0) = {}
            <4> HIDE DEF k, l
            <4> QED
                BY <3>1 DEF QueueOK, InOrder
        <3> HIDE DEF k, l
        <3> QED
            BY <3>1, <3>2
    <2> QED
        BY <2>2 DEF InOrder
<1>8. Complete(c, t, d, Tail(q))
    <2>1. SUFFICES ASSUME Tail(q) # <<>>, NEW a \in Addr, NEW m \in Moments(c, t, a), m <= 2 * d + 1,
                          m > MomentOf(c, Tail(q)[1])
                   PROVE  Listed(c, Tail(q), 2, m, a)
        BY DEF Complete
    <2>2. 1 \in 1 .. Len(Tail(q)) /\ Tail(q)[1] = q[2] /\ 2 \in 2 .. Len(q) /\ 2 \in 1 .. Len(q)
        <3>1. Len(Tail(q)) >= 1
            BY <1>1, <2>1, LenProperties, EmptySeq
        <3> QED
            BY <1>1, <3>1
    <2>3. /\ MomentOf(c, q[1]) \in Nat /\ MomentOf(c, q[2]) \in Nat
          /\ MomentOf(c, q[1]) <= MomentOf(c, q[2])
        BY <1>1, <2>2, FirstIsEarliest
    <2>4. m > MomentOf(c, q[1]) /\ m \in Nat /\ m # MomentOf(c, q[2])
        <3>1. m \in Nat
            BY MomentsHave DEF Moments
        <3> QED
            BY <2>1, <2>2, <2>3, <3>1
    <2>5. Listed(c, q, 2, m, a)
        BY <2>1, <2>4 DEF QueueOK, Complete
    <2>6. PICK n \in 2 .. Len(q) : /\ q[n].kind \in Acting(c) /\ MomentOf(c, q[n]) = m
                                   /\ a \in BytesFrom(q[n], 0)
        BY <2>5 DEF Listed
    <2>7. n - 1 \in 2 .. Len(Tail(q)) /\ n - 1 \in 1 .. Len(Tail(q)) /\ (n - 1) + 1 = n
        <3>1. n # 2
            BY <2>4, <2>6
        <3> QED
            BY <1>1, <3>1
    <2>8. Tail(q)[n - 1] = q[n]
        BY <1>1, <2>7
    <2> QED
        BY <2>6, <2>7, <2>8 DEF Listed
<1> QED
    BY <1>1, <1>3, <1>4, <1>6, <1>7, <1>8 DEF QueueOK, Past

(* What an instruction leaves, all of it of one place of the program. *)
Emission(c, t, j, e) ==
    /\ \A n \in 1 .. Len(e) : Fits(c, t, j, e[n]) /\ e[n].ctxt[2] = j
    /\ InOrder(c, e)
    /\ \A a \in Addr : \A m \in Moments(c, t, a) :
         m > 2 * j - 1 /\ m <= 2 * j + 1 => Listed(c, e, 1, m, a)

LEMMA QueueGrows ==
    ASSUME NEW c \in Clients, NEW t \in Thread, NEW d \in Nat, NEW q \in Seq(Record),
           NEW e \in Seq(Record), QueueOK(c, t, d, q), Emission(c, t, d + 1, e)
    PROVE  /\ QueueOK(c, t, d + 1, q \o e)
           /\ \A a \in Addr : Past(c, t, d + 1, q \o e, 0, a) = Past(c, t, d, q, 0, a)
<1> DEFINE s == q \o e
           l == Len(q)
<1>1. /\ l \in Nat /\ Len(e) \in Nat /\ s \in Seq(Record) /\ Len(s) = l + Len(e)
      /\ \A n \in 1 .. l : s[n] = q[n] /\ n \in 1 .. Len(s)
      /\ \A n \in 1 .. Len(e) : s[l + n] = e[n] /\ l + n \in 1 .. Len(s)
      /\ \A n \in 1 .. Len(s) : n \in 1 .. l \/ (n - l \in 1 .. Len(e) /\ l + (n - l) = n)
    <2>1. l \in Nat /\ Len(e) \in Nat /\ s \in Seq(Record) /\ Len(s) = l + Len(e)
        BY LenProperties, ConcatProperties
    <2>2. \A n \in 1 .. l : s[n] = q[n] /\ n \in 1 .. Len(s)
        BY <2>1, ConcatProperties
    <2>3. \A n \in 1 .. Len(e) : l + n \in 1 .. Len(s) /\ ~ (l + n <= l) /\ (l + n) - l = n
        BY <2>1
    <2>4. \A n \in 1 .. Len(s) : s[n] = IF n <= Len(q) THEN q[n] ELSE e[n - Len(q)]
        BY ConcatProperties
    <2>5. \A n \in 1 .. Len(e) : s[l + n] = e[n]
        BY <2>3, <2>4
    <2>6. \A n \in 1 .. Len(s) : n \in 1 .. l \/ (n - l \in 1 .. Len(e) /\ l + (n - l) = n)
        BY <2>1
    <2> QED
        BY <2>1, <2>2, <2>3, <2>5, <2>6
<1> HIDE DEF s, l
<1>2. \A n \in 1 .. l : q[n] \in Record /\ Fits(c, t, d, q[n])
    BY ElementOfSeq DEF QueueOK, l
<1>3. \A n \in 1 .. Len(e) : e[n] \in Record /\ Fits(c, t, d + 1, e[n]) /\ e[n].ctxt[2] = d + 1
    BY ElementOfSeq DEF Emission
<1>4. \A n \in 1 .. l : /\ Fits(c, t, d + 1, q[n])
                        /\ MomentOf(c, q[n]) \in Nat /\ MomentOf(c, q[n]) <= 2 * d + 1
    <2> TAKE n \in 1 .. l
    <2>1. 1 .. d \subseteq 1 .. (d + 1)
        OBVIOUS
    <2>2. Fits(c, t, d + 1, q[n])
        BY <1>2, <2>1 DEF Fits
    <2> QED
        BY <1>2, <2>2, RecordFits
<1>5. \A n \in 1 .. Len(e) : /\ MomentOf(c, e[n]) \in Nat /\ MomentOf(c, e[n]) > 2 * d + 1
                             /\ MomentOf(c, e[n]) <= 2 * (d + 1) + 1
    <2> TAKE n \in 1 .. Len(e)
    <2>1. MomentOf(c, e[n]) = Moment(c, d + 1, e[n].kind)
        BY <1>3 DEF MomentOf
    <2>2. /\ Moment(c, d + 1, e[n].kind) \in Nat /\ Moment(c, d + 1, e[n].kind) >= 2 * (d + 1)
          /\ Moment(c, d + 1, e[n].kind) <= 2 * (d + 1) + 1
        BY MomentIsNumber
    <2> QED
        BY <2>1, <2>2
<1>6. \A n \in 1 .. Len(s) : Fits(c, t, d + 1, s[n])
    <2> TAKE n \in 1 .. Len(s)
    <2>1. CASE n \in 1 .. l
        BY <1>1, <1>4, <2>1
    <2>2. CASE n - l \in 1 .. Len(e) /\ l + (n - l) = n
        <3>1. s[n] = e[n - l]
            BY <1>1, <2>2
        <3> QED
            BY <1>3, <2>2, <3>1
    <2> QED
        BY <1>1, <2>1, <2>2
<1>7. InOrder(c, s)
    <2>1. SUFFICES ASSUME NEW n \in 1 .. Len(s), NEW m \in 1 .. (n - 1)
                   PROVE  \/ MomentOf(c, s[m]) < MomentOf(c, s[n])
                          \/ /\ MomentOf(c, s[m]) = MomentOf(c, s[n])
                             /\ BytesFrom(s[m], 0) \cap BytesFrom(s[n], 0) = {}
        BY DEF InOrder
    <2>2. m \in 1 .. Len(s)
        BY <1>1
    <2>3. CASE n \in 1 .. l
        <3>1. m \in 1 .. l
            BY <1>1, <2>3
        <3> QED
            BY <1>1, <2>3, <3>1 DEF QueueOK, InOrder, l
    <2>4. CASE n - l \in 1 .. Len(e) /\ l + (n - l) = n
        <3>1. CASE m \in 1 .. l
            <4>1. s[n] = e[n - l] /\ s[m] = q[m]
                BY <1>1, <2>4, <3>1
            <4>2. MomentOf(c, q[m]) <= 2 * d + 1 /\ MomentOf(c, q[m]) \in Nat
                BY <1>4, <3>1
            <4>3. MomentOf(c, e[n - l]) > 2 * d + 1 /\ MomentOf(c, e[n - l]) \in Nat
                BY <1>5, <2>4
            <4> QED
                BY <4>1, <4>2, <4>3
        <3>2. CASE m - l \in 1 .. Len(e) /\ l + (m - l) = m
            <4>1. s[n] = e[n - l] /\ s[m] = e[m - l]
                BY <1>1, <2>4, <3>2
            <4>2. m - l \in 1 .. ((n - l) - 1)
                BY <1>1, <3>2
            <4> QED
                BY <2>4, <4>1, <4>2 DEF Emission, InOrder
        <3> QED
            BY <1>1, <2>2, <3>1, <3>2
    <2> QED
        BY <1>1, <2>3, <2>4
<1>8. ASSUME NEW x, NEW a
      PROVE  Listed(c, s, 1, x, a) <=> Listed(c, q, 1, x, a) \/ Listed(c, e, 1, x, a)
    <2>1. ASSUME NEW n \in 1 .. Len(s), s[n].kind \in Acting(c), MomentOf(c, s[n]) = x, a \in BytesFrom(s[n], 0)
          PROVE  Listed(c, q, 1, x, a) \/ Listed(c, e, 1, x, a)
        BY <1>1, <2>1 DEF Listed, l
    <2>2. ASSUME NEW n \in 1 .. l, q[n].kind \in Acting(c), MomentOf(c, q[n]) = x, a \in BytesFrom(q[n], 0)
          PROVE  Listed(c, s, 1, x, a)
        BY <1>1, <2>2 DEF Listed
    <2>3. ASSUME NEW n \in 1 .. Len(e), e[n].kind \in Acting(c), MomentOf(c, e[n]) = x, a \in BytesFrom(e[n], 0)
          PROVE  Listed(c, s, 1, x, a)
        <3>1. s[l + n] = e[n] /\ l + n \in 1 .. Len(s)
            BY <1>1
        <3> QED
            BY <2>3, <3>1 DEF Listed
    <2> QED
        BY <2>1, <2>2, <2>3 DEF Listed, l
<1>9. ASSUME NEW a \in Addr, NEW m \in Moments(c, t, a), m <= 2 * (d + 1) + 1, m > 2 * d + 1
      PROVE  Listed(c, e, 1, m, a)
    <2>1. m > 2 * (d + 1) - 1
        BY <1>9
    <2> QED
        BY <1>9, <2>1 DEF Emission
<1>10. Complete(c, t, d + 1, s)
    <2>1. SUFFICES ASSUME s # <<>>, NEW a \in Addr, NEW m \in Moments(c, t, a), m <= 2 * (d + 1) + 1,
                          m > MomentOf(c, s[1])
                   PROVE  Listed(c, s, 2, m, a)
        BY DEF Complete
    <2>2. m \in Nat /\ 1 \in 1 .. Len(s)
        BY <1>1, <2>1, MomentsHave, EmptySeq, LenProperties DEF Moments
    <2>3. Listed(c, s, 1, m, a)
        <3>1. CASE m > 2 * d + 1
            BY <1>8, <1>9, <2>1, <3>1
        <3>2. CASE m <= 2 * d + 1 /\ l >= 1
            <4>1. s[1] = q[1] /\ q # <<>> /\ 1 \in 1 .. l
                BY <1>1, <3>2, EmptySeq DEF l
            <4>2. Listed(c, q, 2, m, a)
                BY <2>1, <3>2, <4>1 DEF QueueOK, Complete
            <4>3. 2 .. Len(q) \subseteq 1 .. Len(q)
                BY <1>1 DEF l
            <4>4. Listed(c, q, 1, m, a)
                BY <4>2, <4>3 DEF Listed
            <4> QED
                BY <1>8, <4>4
        <3>3. CASE m <= 2 * d + 1 /\ ~ (l >= 1)
            <4>1. l = 0
                BY <1>1, <3>3
            <4>2. 1 \in 1 .. Len(e) /\ s[l + 1] = e[1] /\ l + 1 = 1
                BY <1>1, <2>2, <4>1
            <4>3. MomentOf(c, e[1]) > 2 * d + 1 /\ MomentOf(c, e[1]) \in Nat
                BY <1>5, <4>2
            <4>4. s[1] = e[1]
                BY <4>2
            <4> QED
                BY <2>1, <2>2, <3>3, <4>3, <4>4
        <3> QED
            BY <1>1, <2>2, <3>1, <3>2, <3>3
    <2>4. PICK n \in 1 .. Len(s) : s[n].kind \in Acting(c) /\ MomentOf(c, s[n]) = m /\ a \in BytesFrom(s[n], 0)
        BY <2>3 DEF Listed
    <2>5. MomentOf(c, s[1]) \in Nat
        BY <1>1, <1>4, <1>5, <2>2
    <2>6. n \in 2 .. Len(s)
        <3>1. n # 1
            BY <2>1, <2>2, <2>4, <2>5
        <3> QED
            BY <1>1, <3>1
    <2> QED
        BY <2>4, <2>6 DEF Listed
<1>11. ASSUME NEW a \in Addr
       PROVE  Past(c, t, d + 1, s, 0, a) = Past(c, t, d, q, 0, a)
    <2>1. ASSUME NEW x \in Moments(c, t, a)
          PROVE  (x <= 2 * (d + 1) + 1 /\ x \notin Pend(c, s, 0, a)) <=>
                 (x <= 2 * d + 1 /\ x \notin Pend(c, q, 0, a))
        <3>1. x \in Nat
            BY MomentsHave DEF Moments
        <3>2. x \in Pend(c, s, 0, a) <=> Listed(c, q, 1, x, a) \/ Listed(c, e, 1, x, a)
            BY <1>8, LeftOfAll
        <3>3. x \in Pend(c, q, 0, a) <=> Listed(c, q, 1, x, a)
            BY LeftOfAll
        <3>4. Listed(c, e, 1, x, a) => x > 2 * d + 1
            BY <1>5 DEF Listed
        <3>5. x <= 2 * d + 1 => x <= 2 * (d + 1) + 1 /\ ~ (x > 2 * d + 1)
            BY <3>1
        <3>6. x <= 2 * (d + 1) + 1 => x <= 2 * d + 1 \/ Listed(c, e, 1, x, a)
            BY <1>9, <3>1
        <3> QED
            BY <3>2, <3>3, <3>4, <3>5, <3>6
    <2> QED
        BY <2>1 DEF Past
<1> QED
    BY <1>6, <1>7, <1>10, <1>11 DEF QueueOK, s

-----------------------------------------------------------------------------
(* The records of an instruction are those of its accesses.                *)

(* The operands of an instruction that are read, and those that are written, *)
(* share no byte among themselves.                                          *)
LEMMA AccessesAre ==
    ASSUME NEW c \in Clients, NEW t \in Thread, NEW j \in Places(c, t), NEW k
    PROVE  /\ c.code[t][j].src \in Seq(Operand) /\ c.code[t][j].dst \in Seq(Operand)
           /\ Accesses(c, t, j, k) \in Seq(Operand)
           /\ Len(Accesses(c, t, j, k)) \in Nat
           /\ DOMAIN Accesses(c, t, j, k) = 1 .. Len(Accesses(c, t, j, k))
           /\ \A n \in DOMAIN Accesses(c, t, j, k) : Accesses(c, t, j, k)[n] \in Operand
           /\ OperandsApart => Apart(Accesses(c, t, j, k))
           /\ c.code[t][j].put \in Value
<1> DEFINE os == Accesses(c, t, j, k)
           i == c.code[t][j]
<1>1. i \in Instruction
    BY CodeOfClient
<1>2. i.src \in Seq(Operand) /\ i.dst \in Seq(Operand) /\ i.put \in Value
    BY <1>1 DEF Instruction
<1>3. os = <<>> \/ os = i.src \/ os = i.dst
    BY DEF Accesses, OpsOf
<1>4. OperandsApart => Apart(i.src) /\ Apart(i.dst)
    <2>1. j \in DOMAIN c.code[t]
        BY CodeOfClient
    <2> QED
        BY <2>1 DEF OperandsApart
<1>5. Apart(<<>>)
    BY DEF Apart
<1>6. os \in Seq(Operand) /\ (OperandsApart => Apart(os))
    BY <1>2, <1>3, <1>4, <1>5, EmptySeq
<1> HIDE DEF os, i
<1>7. Len(os) \in Nat /\ DOMAIN os = 1 .. Len(os) /\ \A n \in DOMAIN os : os[n] \in Operand
    <2>1. Len(os) \in Nat /\ DOMAIN os = 1 .. Len(os)
        BY <1>6, LenProperties
    <2> QED
        BY <1>6, <2>1, ElementOfSeq
<1> QED
    BY <1>2, <1>6, <1>7 DEF os, i

(* A record of each access of a kind, in their order. *)
AllOf(c, t, j, k, p) ==
    /\ Len(p) = Len(Accesses(c, t, j, k))
    /\ \A n \in 1 .. Len(p) : /\ Fits(c, t, j, p[n]) /\ p[n].ctxt = <<t, j>> /\ p[n].kind = k
                              /\ IsOp(c, t, p[n], n)
AllOrNone(c, t, j, k, p) == (k \notin Acting(c) /\ p = <<>>) \/ AllOf(c, t, j, k, p)

LEMMA BothParts ==
    ASSUME NEW p \in Seq(Record), NEW r \in Seq(Record)
    PROVE  /\ p \o r \in Seq(Record) /\ Len(p) \in Nat /\ Len(r) \in Nat
           /\ Len(p \o r) = Len(p) + Len(r)
           /\ \A n \in 1 .. Len(p) : (p \o r)[n] = p[n] /\ n \in 1 .. Len(p \o r)
           /\ \A n \in 1 .. Len(r) : (p \o r)[Len(p) + n] = r[n] /\ Len(p) + n \in 1 .. Len(p \o r)
           /\ \A n \in 1 .. Len(p \o r) :
                \/ n \in 1 .. Len(p) /\ (p \o r)[n] = p[n]
                \/ n - Len(p) \in 1 .. Len(r) /\ n = Len(p) + (n - Len(p)) /\ (p \o r)[n] = r[n - Len(p)]
<1> DEFINE s == p \o r
           l == Len(p)
           h == Len(r)
<1>1. l \in Nat /\ h \in Nat /\ s \in Seq(Record) /\ Len(s) = l + h
    BY LenProperties, ConcatProperties
<1>2. \A n \in 1 .. Len(s) : s[n] = IF n <= l THEN p[n] ELSE r[n - l]
    BY ConcatProperties
<1> HIDE DEF s, l, h
<1>3. \A n \in 1 .. l : n \in 1 .. Len(s) /\ n <= l
    BY <1>1
<1>4. \A n \in 1 .. h : l + n \in 1 .. Len(s) /\ ~ (l + n <= l) /\ (l + n) - l = n
    BY <1>1
<1>5. \A n \in 1 .. h : s[l + n] = r[n]
    BY <1>2, <1>4
<1>6. \A n \in 1 .. Len(s) : \/ n \in 1 .. l /\ n <= l
                             \/ n - l \in 1 .. h /\ n = l + (n - l) /\ ~ (n <= l)
    BY <1>1
<1> QED
    BY <1>1, <1>2, <1>3, <1>4, <1>5, <1>6 DEF s, l, h

LEMMA RecordOfAccess ==
    ASSUME NEW c \in Clients, NEW t \in Thread, NEW j \in Places(c, t), NEW k, NEW p \in Seq(Record),
           AllOf(c, t, j, k, p), NEW n \in 1 .. Len(p)
    PROVE  /\ MomentOf(c, p[n]) = Moment(c, j, k) /\ p[n].kind = k
           /\ n \in DOMAIN Accesses(c, t, j, k)
           /\ BytesFrom(p[n], 0) = BytesFrom(Accesses(c, t, j, k)[n], 0)
           /\ BytesFrom(p[n], 0) = OperandBytes(Accesses(c, t, j, k)[n])
<1>1. p[n].ctxt = <<t, j>> /\ p[n].kind = k /\ IsOp(c, t, p[n], n)
    BY DEF AllOf
<1>2. p[n].ctxt[2] = j
    BY <1>1
<1> QED
    BY <1>1, <1>2 DEF MomentOf, IsOp, BytesFrom, OperandBytes

LEMMA EmissionOfTwo ==
    ASSUME NEW c \in Clients, NEW t \in Thread, NEW j \in Places(c, t), OperandsApart,
           NEW k, NEW l, k = FirstKind(c), l # FirstKind(c), Acting(c) \subseteq {k, l},
           NEW p \in Seq(Record), NEW r \in Seq(Record),
           AllOrNone(c, t, j, k, p), AllOrNone(c, t, j, l, r)
    PROVE  Emission(c, t, j, p \o r)
<1> DEFINE e == p \o r
<1>0. j \in Nat /\ Len(<<>>) = 0
    BY CodeOfClient
<1>1. ASSUME NEW x \in {k, l}, NEW y \in Seq(Record), AllOrNone(c, t, j, x, y), NEW n \in 1 .. Len(y)
      PROVE  /\ AllOf(c, t, j, x, y) /\ Fits(c, t, j, y[n]) /\ y[n].ctxt[2] = j
             /\ MomentOf(c, y[n]) = Moment(c, j, x)
    <2>1. y # <<>>
        BY <1>0
    <2>2. AllOf(c, t, j, x, y)
        BY <1>1, <2>1 DEF AllOrNone
    <2>3. MomentOf(c, y[n]) = Moment(c, j, x)
        BY <2>2, RecordOfAccess
    <2>4. Fits(c, t, j, y[n]) /\ y[n].ctxt = <<t, j>>
        BY <2>2 DEF AllOf
    <2> QED
        BY <2>2, <2>3, <2>4
<1>2. \A n \in 1 .. Len(e) : Fits(c, t, j, e[n]) /\ e[n].ctxt[2] = j
    BY <1>1, BothParts
<1>3. Moment(c, j, k) = 2 * j /\ Moment(c, j, l) = 2 * j + 1
    BY DEF Moment
<1>4. ASSUME NEW x \in {k, l}, NEW y \in Seq(Record), AllOrNone(c, t, j, x, y),
             NEW n \in 1 .. Len(y), NEW m \in 1 .. Len(y), m # n
      PROVE  BytesFrom(y[m], 0) \cap BytesFrom(y[n], 0) = {}
    <2>1. AllOf(c, t, j, x, y)
        BY <1>1, <1>4
    <2> DEFINE os == Accesses(c, t, j, x)
    <2>2. /\ m \in DOMAIN os /\ BytesFrom(y[m], 0) = BytesFrom(os[m], 0)
          /\ n \in DOMAIN os /\ BytesFrom(y[n], 0) = BytesFrom(os[n], 0)
        BY <2>1, RecordOfAccess
    <2>3. Apart(os)
        BY AccessesAre
    <2> QED
        BY <1>4, <2>2, <2>3 DEF Apart
<1>5. InOrder(c, e)
    <2>1. SUFFICES ASSUME NEW n \in 1 .. Len(e), NEW m \in 1 .. (n - 1)
                   PROVE  \/ MomentOf(c, e[m]) < MomentOf(c, e[n])
                          \/ /\ MomentOf(c, e[m]) = MomentOf(c, e[n])
                             /\ BytesFrom(e[m], 0) \cap BytesFrom(e[n], 0) = {}
        BY DEF InOrder
    <2> DEFINE h == Len(p)
    <2>2. h \in Nat /\ Len(r) \in Nat /\ Len(e) \in Nat /\ n \in Nat /\ m \in Nat /\ m < n /\ m \in 1 .. Len(e)
        <3>1. h \in Nat /\ Len(r) \in Nat /\ Len(e) = h + Len(r)
            BY BothParts
        <3> HIDE DEF h, e
        <3> QED
            BY <3>1
    <2>3. /\ \/ n \in 1 .. h /\ e[n] = p[n]
             \/ n - h \in 1 .. Len(r) /\ n = h + (n - h) /\ e[n] = r[n - h]
          /\ \/ m \in 1 .. h /\ e[m] = p[m]
             \/ m - h \in 1 .. Len(r) /\ m = h + (m - h) /\ e[m] = r[m - h]
        BY <2>2, BothParts
    <2> HIDE DEF e, h
    <2>4. CASE n \in 1 .. h /\ e[n] = p[n]
        <3>1. m \in 1 .. h /\ e[m] = p[m]
            BY <2>2, <2>3, <2>4
        <3>2. n \in 1 .. Len(p) /\ m \in 1 .. Len(p) /\ m # n
            BY <2>2, <2>4, <3>1 DEF h
        <3>3. MomentOf(c, p[n]) = Moment(c, j, k) /\ MomentOf(c, p[m]) = Moment(c, j, k)
            BY <1>1, <3>2
        <3>4. BytesFrom(p[m], 0) \cap BytesFrom(p[n], 0) = {}
            BY <1>4, <3>2
        <3> QED
            BY <2>4, <3>1, <3>3, <3>4
    <2>5. CASE n - h \in 1 .. Len(r) /\ n = h + (n - h) /\ e[n] = r[n - h]
        <3>1. MomentOf(c, e[n]) = 2 * j + 1
            <4>1. MomentOf(c, r[n - h]) = Moment(c, j, l)
                BY <1>1, <2>5
            <4> QED
                BY <1>3, <2>5, <4>1
        <3>2. CASE m \in 1 .. h /\ e[m] = p[m]
            <4>1. MomentOf(c, e[m]) = 2 * j
                <5>1. MomentOf(c, p[m]) = Moment(c, j, k)
                    BY <1>1, <3>2 DEF h
                <5> QED
                    BY <1>3, <3>2, <5>1
            <4> QED
                BY <1>0, <3>1, <4>1
        <3>3. CASE m - h \in 1 .. Len(r) /\ m = h + (m - h) /\ e[m] = r[m - h]
            <4>1. m - h # n - h
                BY <2>2
            <4>2. BytesFrom(r[m - h], 0) \cap BytesFrom(r[n - h], 0) = {}
                BY <1>4, <2>5, <3>3, <4>1
            <4>3. MomentOf(c, e[m]) = 2 * j + 1
                BY <1>1, <1>3, <3>3
            <4> QED
                BY <2>5, <3>1, <3>3, <4>2, <4>3
        <3> QED
            BY <2>3, <3>2, <3>3
    <2> QED
        BY <2>3, <2>4, <2>5
<1>6. ASSUME NEW a \in Addr, NEW m \in Moments(c, t, a), m > 2 * j - 1, m <= 2 * j + 1
      PROVE  Listed(c, e, 1, m, a)
    <2>1. PICK i \in Places(c, t), x \in Acting(c) : m = Moment(c, i, x) /\ a \in BytesOf(Accesses(c, t, i, x))
        BY DEF Moments, MomentsIn
    <2>2. i = j
        <3>1. i \in Nat /\ m >= 2 * i /\ m <= 2 * i + 1 /\ m \in Nat
            BY <2>1, CodeOfClient, MomentIsNumber
        <3> QED
            BY <1>0, <1>6, <3>1
    <2> DEFINE os == Accesses(c, t, j, x)
    <2>3. PICK n \in DOMAIN os : a \in OperandBytes(os[n])
        BY <2>1, <2>2 DEF BytesOf
    <2>4. ASSUME NEW y \in Seq(Record), AllOf(c, t, j, x, y)
          PROVE  /\ n \in 1 .. Len(y) /\ y[n].kind \in Acting(c) /\ MomentOf(c, y[n]) = m
                 /\ a \in BytesFrom(y[n], 0)
        <3>1. n \in 1 .. Len(y)
            BY <2>4, AccessesAre DEF AllOf
        <3> QED
            BY <2>1, <2>2, <2>3, <2>4, <3>1, RecordOfAccess
    <2>5. CASE x = k
        <3>1. AllOf(c, t, j, x, p)
            BY <2>5 DEF AllOrNone
        <3>2. /\ n \in 1 .. Len(p) /\ p[n].kind \in Acting(c) /\ MomentOf(c, p[n]) = m
              /\ a \in BytesFrom(p[n], 0)
            BY <2>4, <3>1
        <3>3. n \in 1 .. Len(e) /\ e[n] = p[n]
            BY <3>2, BothParts
        <3> QED
            BY <3>2, <3>3 DEF Listed
    <2>6. CASE x = l
        <3>1. AllOf(c, t, j, x, r)
            BY <2>6 DEF AllOrNone
        <3>2. /\ n \in 1 .. Len(r) /\ r[n].kind \in Acting(c) /\ MomentOf(c, r[n]) = m
              /\ a \in BytesFrom(r[n], 0)
            BY <2>4, <3>1
        <3>3. Len(p) + n \in 1 .. Len(e) /\ e[Len(p) + n] = r[n]
            BY <3>2, BothParts
        <3> QED
            BY <3>2, <3>3 DEF Listed
    <2> QED
        BY <2>1, <2>5, <2>6
<1> QED
    BY <1>2, <1>5, <1>6 DEF Emission

-----------------------------------------------------------------------------
(* What an instruction leaves is an emission.                              *)

LEMMA TracesAre ==
    ASSUME client \in Clients
    PROVE  /\ client.name = "deadspy" => Traces = {Read, Before}
           /\ client.name = "loadspy" => Traces = {Read}
           /\ client.name = "redspy" => Traces = {Before, After}
           /\ client.name \in {"deadspy", "loadspy", "redspy"}
           /\ client.naive => client.name \in {"deadspy", "loadspy"}
           /\ Acting(client) \subseteq Traces
           /\ \A k \in Traces : k = After \/ k \in Acting(client) \cup {Before}
<1>1. client.name \in {"deadspy", "loadspy", "redspy"}
      /\ (client.naive => client.name \in {"deadspy", "loadspy"})
    BY ClientsAssumption
<1>2. client.name = "deadspy" => Traces = {Read, Before}
    BY Zenon DEF Traces, Read, Before
<1>3. client.name = "loadspy" => Traces = {Read}
    <2>1. "loadspy" # "deadspy"
        OBVIOUS
    <2> QED
        BY <2>1, Zenon DEF Traces, Read
<1>4. client.name = "redspy" => Traces = {Before, After}
    <2>1. "redspy" # "deadspy" /\ "redspy" # "loadspy"
        OBVIOUS
    <2> QED
        BY <2>1, Zenon DEF Traces, Before, After
<1> QED
    BY <1>1, <1>2, <1>3, <1>4 DEF Acting

LEMMA EmitsAre ==
    ASSUME NEW i, NEW m, NEW c
    PROVE  /\ Emits(i, m, c) = IF ~ Watches(i) THEN <<>>
                ELSE RecordsOf(i.dst, Before, m, c) \o RecordsOf(i.src, Read, m, c)
                       \o IF i.cti THEN <<>> ELSE RecordsOf(i.dst, After, Put(m, i), c)
           /\ CallsOf(i, m, c) = IF ~ Watches(i) THEN <<>>
                ELSE RecordsOf(i.src, Read, m, c) \o RecordsOf(i.dst, Before, m, c)
           /\ \A os, k : k \notin Traces => RecordsOf(os, k, m, c) = <<>>
           /\ \A os : After \notin Traces => RecordsOf(os, After, Put(m, i), c) = <<>>
BY Zenon DEF Emits, CallsOf, RecordsOf, Read, Before, After

LEMMA RecordsAreAll ==
    ASSUME client \in Clients, NEW t \in Thread, NEW j \in Places(client, t),
           NEW k \in {Read, Before, After}, k \in Traces, NEW m \in [Addr -> Value],
           NEW os, os = Accesses(client, t, j, k), <<t, j>> \in Contexts,
           \A n \in DOMAIN os : \A a \in OperandBytes(os[n]) : PrivateByte(client, t, a) =>
               m[a] = IF k = After THEN client.code[t][j].put ELSE Given(client, t, j, a)
    PROVE  /\ RecordsOf(os, k, m, <<t, j>>) \in Seq(Record)
           /\ AllOf(client, t, j, k, RecordsOf(os, k, m, <<t, j>>))
<1> DEFINE R == RecordsOf(os, k, m, <<t, j>>)
           Of(n) == [kind |-> k, addr |-> os[n].addr, size |-> os[n].size,
                     ctxt |-> <<t, j>>, val |-> Contents(m, os[n])]
           L == Len(os)
<1>1. os \in Seq(Operand) /\ L \in Nat /\ DOMAIN os = 1 .. L /\ \A n \in DOMAIN os : os[n] \in Operand
    BY AccessesAre
<1>2. R \in Seq(Record)
    BY <1>1, RecordsOfSeq, Zenon DEF Read, Before, After
<1>3. R = [n \in DOMAIN os |-> Of(n)]
    BY Zenon DEF RecordsOf
<1>4. \A n : /\ Of(n).kind = k /\ Of(n).addr = os[n].addr /\ Of(n).size = os[n].size
             /\ Of(n).ctxt = <<t, j>> /\ Of(n).val = Contents(m, os[n])
    OBVIOUS
<1>5. j \in Nat /\ j \in 1 .. j
    <2>1. j \in Nat /\ j >= 1
        BY CodeOfClient DEF Places
    <2> QED
        BY <2>1
<1>6. ASSUME NEW n \in 1 .. L
      PROVE  /\ Fits(client, t, j, Of(n)) /\ Of(n).ctxt = <<t, j>> /\ Of(n).kind = k
             /\ IsOp(client, t, Of(n), n)
    <2>1. Of(n).ctxt[1] = t /\ Of(n).ctxt[2] = j
        BY <1>4
    <2>2. IsOp(client, t, Of(n), n)
        <3> HIDE DEF Of
        <3> QED
            BY <1>1, <1>4, <2>1 DEF IsOp
    <2>3. os[n] \in Operand /\ os[n].size \in 1 .. PageSize
        BY <1>1 DEF Operand
    <2>4. ASSUME NEW x \in 0 .. (os[n].size - 1), PrivateByte(client, t, Plus(os[n].addr, x))
          PROVE  Contents(m, os[n])[x] = IF k = After THEN client.code[t][j].put
                                         ELSE Given(client, t, j, Plus(os[n].addr, x))
        <3> DEFINE a == Plus(os[n].addr, x)
        <3>1. a \in OperandBytes(os[n])
            BY DEF OperandBytes
        <3>2. Contents(m, os[n])[x] = m[a]
            BY DEF Contents
        <3>3. PrivateByte(client, t, a)
            BY <2>4
        <3>4. n \in DOMAIN os
            BY <1>1
        <3> HIDE DEF a
        <3>5. m[a] = IF k = After THEN client.code[t][j].put ELSE Given(client, t, j, a)
            BY <3>1, <3>3, <3>4
        <3> QED
            BY <3>2, <3>5, Zenon DEF a
    <2>5. k = After \/ k \in Acting(client) \cup {Before}
        BY TracesAre
    <2>6. n \in DOMAIN Accesses(client, t, j, k)
        BY <1>1
    <2> HIDE DEF Of
    <2>7. \A x \in 0 .. (Of(n).size - 1) : PrivateByte(client, t, Plus(Of(n).addr, x)) =>
             Of(n).val[x] = IF Of(n).kind = After THEN client.code[t][Of(n).ctxt[2]].put
                            ELSE Given(client, t, Of(n).ctxt[2], Plus(Of(n).addr, x))
        BY <1>4, <2>1, <2>4
    <2> QED
        BY <1>4, <1>5, <2>1, <2>2, <2>5, <2>6, <2>7 DEF Fits
<1> HIDE DEF Of, L
<1> HIDE DEF R
<1>7. Len(R) = L /\ \A n \in 1 .. L : R[n] = Of(n)
    <2>1. DOMAIN R = 1 .. L /\ \A n \in 1 .. L : R[n] = Of(n)
        BY <1>1, <1>3, Zenon
    <2>2. Len(R) \in Nat /\ DOMAIN R = 1 .. Len(R)
        BY <1>2, LenProperties, Zenon
    <2>3. \A a, b \in Nat : 1 .. a = 1 .. b => a = b
        OBVIOUS
    <2>4. L = Len(R)
        BY <1>1, <2>1, <2>2, <2>3
    <2> QED
        BY <2>1, <2>4
<1>8. AllOf(client, t, j, k, R)
    BY <1>6, <1>7 DEF AllOf, L
<1> QED
    BY <1>2, <1>8 DEF R

LEMMA NoAccessNoRecord ==
    ASSUME NEW c \in Clients, NEW t, NEW j, NEW k, Accesses(c, t, j, k) = <<>>
    PROVE  AllOf(c, t, j, k, <<>>)
<1>1. Len(<<>>) = 0 /\ 1 .. 0 = {}
    OBVIOUS
<1> QED
    BY <1>1 DEF AllOf

(* Of a redspy client the records before and after the writes follow each   *)
(* other.                                                                   *)
TwoRuns(c, t, j, e) ==
    \E p \in Seq(Record), r \in Seq(Record) :
        e = p \o r /\ AllOf(c, t, j, Before, p) /\ AllOf(c, t, j, After, r)

LEMMA InstrEmission ==
    ASSUME RecordsOK, OperandsApart, NEW t \in Thread, ip[t] \in DOMAIN Code(t),
           \A a \in Addr : PrivateByte(client, t, a) => ValueOK(t, a)
    PROVE  /\ ip[t] \in Places(client, t)
           /\ ~ client.naive => Emission(client, t, ip[t], Emits(Instr(t), mem, <<t, ip[t]>>))
           /\ client.name = "redspy" => TwoRuns(client, t, ip[t], Emits(Instr(t), mem, <<t, ip[t]>>))
           /\ client.naive => Emission(client, t, ip[t], CallsOf(Instr(t), mem, <<t, ip[t]>>))
<1> DEFINE c == client
           j == ip[t]
           i == c.code[t][j]
           x == <<t, j>>
           P == RecordsOf(i.dst, Before, mem, x)
           R == RecordsOf(i.src, Read, mem, x)
           A == IF i.cti THEN <<>> ELSE RecordsOf(i.dst, After, Put(mem, i), x)
<1>1. c \in Clients /\ j \in Places(c, t) /\ x \in Contexts /\ mem \in [Addr -> Value] /\ Instr(t) = i
      /\ Put(mem, i) \in [Addr -> Value]
    <2>1. client \in Clients /\ mem \in [Addr -> Value]
        BY DEF RecordsOK
    <2>2. j \in Places(c, t)
        BY <2>1, CodeOfClient DEF Code
    <2>3. Instr(t) = i
        BY DEF Instr, Code
    <2> QED
        BY <2>1, <2>2, <2>3, InstrAt
<1>2. /\ Emits(i, mem, x) = IF ~ Watches(i) THEN <<>> ELSE P \o R \o A
      /\ CallsOf(i, mem, x) = IF ~ Watches(i) THEN <<>> ELSE R \o P
    <2> HIDE DEF i, x
    <2> QED
        BY EmitsAre, Zenon
<1>3. Read \notin Acting(c) \/ Read \in Traces
    BY <1>1, TracesAre
<1>4. Watches(i) <=> ~ (i.cti /\ c.name # "deadspy")
    BY DEF Watches
<1>5. \A k : Accesses(c, t, j, k) = IF Watches(i) THEN OpsOf(i, k) ELSE <<>>
    BY <1>4 DEF Accesses
<1>6. \A a \in Addr : PrivateByte(c, t, a) => mem[a] = Given(c, t, j, a)
    BY DEF ValueOK
<1>7. ASSUME NEW k \in {Read, Before}, Watches(i), NEW os, os = OpsOf(i, k)
      PROVE  AllOrNone(c, t, j, k, RecordsOf(os, k, mem, x)) /\ RecordsOf(os, k, mem, x) \in Seq(Record)
    <2>1. os = Accesses(c, t, j, k) /\ k # After
        BY <1>5, <1>7, KindsDiffer
    <2>2. CASE k \in Traces
        <3>1. \A n \in DOMAIN os : \A a \in OperandBytes(os[n]) : a \in Addr
            <4>1. \A n \in DOMAIN os : os[n] \in Operand
                BY <1>1, <2>1, AccessesAre
            <4>2. \A o \in Operand : OperandBytes(o) \subseteq Addr
                <5> TAKE o \in Operand
                <5>1. o.addr \in Addr /\ o.size \in 1 .. PageSize
                    BY DEF Operand
                <5> QED
                    BY <5>1, BytesOfRecord
            <4> QED
                BY <4>1, <4>2
        <3>2. \A n \in DOMAIN os : \A a \in OperandBytes(os[n]) : PrivateByte(c, t, a) =>
                 mem[a] = IF k = After THEN c.code[t][j].put ELSE Given(c, t, j, a)
            BY <1>6, <2>1, <3>1
        <3>3. AllOf(c, t, j, k, RecordsOf(os, k, mem, x)) /\ RecordsOf(os, k, mem, x) \in Seq(Record)
            <4> HIDE DEF j
            <4> QED
                BY <1>1, <1>7, <2>1, <2>2, <3>2, RecordsAreAll
        <3> QED
            BY <3>3 DEF AllOrNone
    <2>3. CASE k \notin Traces
        <3>1. RecordsOf(os, k, mem, x) = <<>>
            BY <2>3, EmitsAre
        <3>2. k \notin Acting(c)
            BY <1>1, <2>3, TracesAre
        <3> QED
            BY <3>1, <3>2, EmptySeq DEF AllOrNone
    <2> QED
        BY <2>2, <2>3
<1>8. ASSUME Watches(i)
      PROVE  AllOrNone(c, t, j, Before, P) /\ AllOrNone(c, t, j, Read, R) /\ P \in Seq(Record) /\ R \in Seq(Record)
    <2>1. OpsOf(i, Before) = i.dst /\ OpsOf(i, Read) = i.src
        BY KindsDiffer DEF OpsOf
    <2> HIDE DEF i, c
    <2> QED
        BY <1>7, <1>8, <2>1
<1>9. ASSUME Watches(i)
      PROVE  /\ A \in Seq(Record) /\ AllOrNone(c, t, j, After, A)
             /\ c.name # "redspy" => A = <<>>
    <2>1. CASE c.name # "redspy"
        <3>1. After \notin Traces /\ After \notin Acting(c)
            BY <1>1, <2>1, TracesAre, KindsDiffer
        <3>2. A = <<>>
            BY <3>1, EmitsAre, Zenon
        <3> QED
            BY <2>1, <3>1, <3>2, EmptySeq DEF AllOrNone
    <2>2. CASE c.name = "redspy"
        <3>1. ~ i.cti /\ After \in Traces
            BY <1>1, <1>4, <1>9, <2>2, TracesAre
        <3>2. A = RecordsOf(i.dst, After, Put(mem, i), x)
            BY <3>1, Zenon
        <3>3. i.dst = Accesses(c, t, j, After)
            BY <1>5, <1>9, KindsDiffer DEF OpsOf
        <3>4. \A n \in DOMAIN i.dst : \A a \in OperandBytes(i.dst[n]) : Put(mem, i)[a] = i.put
            <4>1. \A n \in DOMAIN i.dst : i.dst[n] \in Operand
                BY <1>1, <3>3, AccessesAre
            <4>2. ASSUME NEW n \in DOMAIN i.dst, NEW a \in OperandBytes(i.dst[n]) PROVE Put(mem, i)[a] = i.put
                <5>1. i.dst[n].addr \in Addr /\ i.dst[n].size \in 1 .. PageSize
                    BY <4>1 DEF Operand
                <5>2. a \in Addr
                    BY <5>1, BytesOfRecord
                <5> HIDE DEF i
                <5> QED
                    BY <5>2 DEF Put, Stores, BytesOf
            <4> QED
                BY <4>2
        <3>5. \A n \in DOMAIN i.dst : \A a \in OperandBytes(i.dst[n]) : PrivateByte(c, t, a) =>
                 Put(mem, i)[a] = IF After = After THEN c.code[t][j].put ELSE Given(c, t, j, a)
            BY <3>4
        <3> DEFINE os == i.dst
        <3>6. /\ AllOf(c, t, j, After, RecordsOf(os, After, Put(mem, i), x))
              /\ RecordsOf(os, After, Put(mem, i), x) \in Seq(Record)
            <4> DEFINE m == Put(mem, i)
            <4>1. /\ m \in [Addr -> Value] /\ os = Accesses(c, t, j, After)
                  /\ \A n \in DOMAIN os : \A a \in OperandBytes(os[n]) : PrivateByte(c, t, a) =>
                        m[a] = IF After = After THEN c.code[t][j].put ELSE Given(c, t, j, a)
                BY <1>1, <3>3, <3>5
            <4> HIDE DEF os, m, j
            <4>2. /\ AllOf(c, t, j, After, RecordsOf(os, After, m, x))
                  /\ RecordsOf(os, After, m, x) \in Seq(Record)
                BY <1>1, <3>1, <4>1, RecordsAreAll
            <4> QED
                BY <4>2 DEF m
        <3> QED
            BY <2>2, <3>2, <3>6 DEF AllOrNone
    <2> QED
        BY <2>1, <2>2
<1>10. ASSUME ~ Watches(i)
       PROVE  /\ \A k : AllOf(c, t, j, k, <<>>)
              /\ Emits(i, mem, x) = <<>> /\ CallsOf(i, mem, x) = <<>>
              /\ <<>> \in Seq(Record) /\ <<>> \o <<>> = <<>>
    <2>1. \A k : AllOf(c, t, j, k, <<>>)
        BY <1>1, <1>5, <1>10, NoAccessNoRecord
    <2> QED
        BY <1>2, <1>10, <2>1, EmptySeq, ConcatEmptySeq
<1>11. c.name = "redspy" => R = <<>> \/ ~ Watches(i)
    <2>1. c.name = "redspy" => Read \notin Traces
        BY <1>1, TracesAre, KindsDiffer
    <2> QED
        BY <2>1, EmitsAre
<1>12. c.name = "redspy" => Before \in Traces /\ After \in Acting(c) /\ Acting(c) \subseteq {Before, After}
    BY <1>1, TracesAre DEF Acting
<1>13. c.name # "redspy" => Acting(c) \subseteq {Before, Read}
    BY <1>1, TracesAre DEF Acting
<1>14. c.name = "redspy" /\ Watches(i) => AllOf(c, t, j, Before, P)
    <2>1. ASSUME c.name = "redspy", Watches(i) PROVE AllOf(c, t, j, Before, P)
        <3>1. i.dst = Accesses(c, t, j, Before)
            BY <1>5, <2>1, KindsDiffer DEF OpsOf
        <3>2. AllOrNone(c, t, j, Before, P)
            BY <1>8, <2>1
        <3>3. Before \in Traces
            BY <1>12, <2>1
        <3> DEFINE os == i.dst
        <3>4. \A n \in DOMAIN os : os[n] \in Operand
            BY <1>1, <3>1, AccessesAre
        <3>5. \A n \in DOMAIN os : \A a \in OperandBytes(os[n]) : PrivateByte(c, t, a) =>
                 mem[a] = IF Before = After THEN c.code[t][j].put ELSE Given(c, t, j, a)
            <4>1. \A o \in Operand : OperandBytes(o) \subseteq Addr
                <5> TAKE o \in Operand
                <5>1. o.addr \in Addr /\ o.size \in 1 .. PageSize
                    BY DEF Operand
                <5> QED
                    BY <5>1, BytesOfRecord
            <4> QED
                BY <1>6, <3>4, <4>1, KindsDiffer
        <3>6. os = Accesses(c, t, j, Before)
            BY <3>1
        <3> HIDE DEF os, j
        <3>7. AllOf(c, t, j, Before, RecordsOf(os, Before, mem, x))
            BY <1>1, <3>3, <3>5, <3>6, RecordsAreAll
        <3> QED
            BY <3>7 DEF os
    <2> QED
        BY <2>1
<1> HIDE DEF P, R, A, i, j, x
<1>15. ASSUME ~ c.naive PROVE Emission(c, t, j, Emits(i, mem, x))
    <2>1. FirstKind(c) = Before
        BY <1>15 DEF FirstKind
    <2>2. CASE ~ Watches(i)
        <3>1. AllOrNone(c, t, j, Before, <<>>) /\ \A k : AllOrNone(c, t, j, k, <<>>)
            BY <1>10, <2>2 DEF AllOrNone
        <3>2. \E l \in {Read, After} : Acting(c) \subseteq {Before, l}
            BY <1>12, <1>13
        <3>3. PICK l \in {Read, After} : Acting(c) \subseteq {Before, l}
            BY <3>2
        <3>4. Emission(c, t, j, <<>> \o <<>>)
            <4>1. l # FirstKind(c)
                BY <2>1, KindsDiffer
            <4>2. <<>> \in Seq(Record)
                BY EmptySeq
            <4> QED
                BY <1>1, <2>1, <3>1, <3>3, <4>1, <4>2, EmissionOfTwo
        <3> QED
            BY <1>10, <2>2, <3>4
    <2>3. CASE Watches(i) /\ c.name # "redspy"
        <3>1. A = <<>> /\ Emits(i, mem, x) = P \o R \o A
            BY <1>2, <1>9, <2>3
        <3>2. P \o R \in Seq(Record) /\ (P \o R) \o <<>> = P \o R
            BY <1>8, <2>3, BothParts, ConcatEmptySeq
        <3>3. Emission(c, t, j, P \o R)
            BY <1>1, <1>8, <1>13, <2>1, <2>3, KindsDiffer, EmissionOfTwo
        <3> QED
            BY <3>1, <3>2, <3>3
    <2>4. CASE Watches(i) /\ c.name = "redspy"
        <3>1. R = <<>> /\ Emits(i, mem, x) = P \o R \o A
            BY <1>2, <1>11, <2>4
        <3>2. P \o <<>> = P
            BY <1>8, <2>4, ConcatEmptySeq
        <3>3. Emission(c, t, j, P \o A)
            BY <1>1, <1>8, <1>9, <1>12, <2>1, <2>4, KindsDiffer, EmissionOfTwo
        <3> QED
            BY <3>1, <3>2, <3>3
    <2> QED
        BY <2>2, <2>3, <2>4
<1>16. ASSUME c.naive PROVE Emission(c, t, j, CallsOf(i, mem, x))
    <2>1. FirstKind(c) = Read /\ c.name # "redspy"
        BY <1>1, <1>16, TracesAre DEF FirstKind
    <2>2. CASE ~ Watches(i)
        <3>1. \A k : AllOrNone(c, t, j, k, <<>>)
            BY <1>10, <2>2 DEF AllOrNone
        <3>2. Emission(c, t, j, <<>> \o <<>>)
            <4>2. <<>> \in Seq(Record) /\ Acting(c) \subseteq {Read, Before}
                BY <1>13, <2>1, EmptySeq
            <4> QED
                BY <1>1, <2>1, <3>1, <4>2, KindsDiffer, EmissionOfTwo
        <3> QED
            BY <1>10, <2>2, <3>2
    <2>3. CASE Watches(i)
        <3>1. CallsOf(i, mem, x) = R \o P
            BY <1>2, <2>3
        <3>2. Emission(c, t, j, R \o P)
            <4>1. Acting(c) \subseteq {Read, Before}
                BY <1>13, <2>1
            <4> QED
                BY <1>1, <1>8, <2>1, <2>3, <4>1, KindsDiffer, EmissionOfTwo
        <3> QED
            BY <3>1, <3>2
    <2> QED
        BY <2>2, <2>3
<1>17. ASSUME c.name = "redspy" PROVE TwoRuns(c, t, j, Emits(i, mem, x))
    <2>1. CASE ~ Watches(i)
        <3>1. AllOf(c, t, j, Before, <<>>) /\ AllOf(c, t, j, After, <<>>)
            BY <1>10, <2>1
        <3>2. Emits(i, mem, x) = <<>> \o <<>> /\ <<>> \in Seq(Record)
            BY <1>10, <2>1
        <3> QED
            BY <3>1, <3>2 DEF TwoRuns
    <2>2. CASE Watches(i)
        <3>1. R = <<>> /\ Emits(i, mem, x) = P \o R \o A
            BY <1>2, <1>11, <1>17, <2>2
        <3>2. P \o <<>> = P /\ P \in Seq(Record) /\ A \in Seq(Record)
            BY <1>8, <1>9, <2>2, ConcatEmptySeq
        <3>3. AllOf(c, t, j, After, A) /\ AllOf(c, t, j, Before, P)
            BY <1>9, <1>12, <1>14, <1>17, <2>2 DEF AllOrNone
        <3> QED
            BY <3>1, <3>2, <3>3 DEF TwoRuns
    <2> QED
        BY <2>1, <2>2
<1> QED
    BY <1>1, <1>15, <1>16, <1>17 DEF j, x

-----------------------------------------------------------------------------
(* What the steps of a client do to the cells.                             *)

LEMMA WriteMoves ==
  ASSUME IInv, NEW t \in Thread, NEW a \in Addr, NEW c, WriteCell(t, a, c)
  PROVE  \A d \in Addr : CellAt(d)' = IF d = a THEN c ELSE CellAt(d)
<1>0. ShadowTypeOK /\ SlotsOwn /\ a[3] \in Offset
  BY BaseOfAddr DEF IInv
<1>1. /\ <<a[1], a[2]>> = at[t]
      /\ v2[t] \in PageId /\ v2[t] = PageAt(at[t]) /\ at[t] \in Base
  BY HeldCell DEF WriteCell
<1>2. directory' = directory /\ table' = table
  BY DEF WriteCell, slots
<1>3. ASSUME NEW d \in Addr PROVE CellAt(d)' = IF d = a THEN c ELSE CellAt(d)
  <2>1. PICK b \in Base : b = BaseOf(d)
    BY BaseOfAddr
  <2>2. PageAt(b)' = PageAt(b)
    BY <1>2, SlotsSame
  <2>3. /\ CellAt(d) = IF PageAt(b) = NULL THEN Zero ELSE page[PageAt(b)][d[3]]
        /\ CellAt(d)' = IF PageAt(b) = NULL THEN Zero ELSE page'[PageAt(b)][d[3]]
    BY <2>1, <2>2, CellByPage
  <2>4. CASE PageAt(b) = NULL
    <3>1. d # a
      BY <1>1, <2>1, <2>4, Ids DEF BaseOf
    <3> QED
      BY <2>3, <2>4, <3>1
  <2>5. CASE PageAt(b) # NULL
    <3>1. PageAt(b) \in PageId /\ PageAt(b)[1] = b /\ d[3] \in Offset
      BY <1>0, <2>5, BaseOfAddr DEF SlotsOwn, PageAt, ShadowTypeOK, Base
    <3>2. PageAt(b) = v2[t] <=> b = at[t]
      BY <1>0, <1>1, <2>5, <3>1, Ids DEF SlotsOwn
    <3>3. page'[PageAt(b)][d[3]] =
            IF PageAt(b) = v2[t] /\ d[3] = a[3] THEN c ELSE page[PageAt(b)][d[3]]
      BY <1>0, <1>1, <3>1 DEF WriteCell, ShadowTypeOK
    <3>4. b = at[t] /\ d[3] = a[3] <=> d = a
      BY <1>1, <2>1 DEF BaseOf, Addr
    <3> QED
      BY <2>3, <2>5, <3>2, <3>3, <3>4
  <2> QED
    BY <2>4, <2>5
<1> QED
  BY <1>3

(* No cell changes. *)
CellsKept == \A a \in Addr : CellAt(a)' = CellAt(a)

LEMMA CellsAreKept ==
    ASSUME Cells' = Cells
    PROVE  CellsKept
BY DEF Cells, CellsKept

LEMMA CellsTyped ==
    ASSUME IInv, NEW a \in Addr
    PROVE  CellAt(a) \in Cell
<1>1. PICK b \in Base : b = BaseOf(a) /\ a[3] \in Offset
    BY BaseOfAddr
<1>2. CellAt(a) = IF PageAt(b) = NULL THEN Zero ELSE page[PageAt(b)][a[3]]
    BY <1>1, CellByPage
<1>3. PageAt(b) = NULL \/ PageAt(b) \in PageId
    BY DEF IInv, ShadowTypeOK, PageAt, Base
<1> QED
    BY <1>1, <1>2, <1>3, ShadowMemoryAssumption DEF IInv, ShadowTypeOK

LEMMA StepKeepsCells ==
    ASSUME IInv, NEW t \in Thread,
           \/ LookupStep(t) \/ \E b \in Base, c \in BOOLEAN : Ask(t, b, c)
           \/ \E a \in Addr : ReadCell(t, a)
    PROVE  CellsKept
<1>1. Effects(t)
    BY EffectsOfStep DEF ThreadNext
<1>2. CASE \E b \in Base, c \in BOOLEAN : Ask(t, b, c)
    BY <1>2 DEF Ask, memory, CellsKept, CellAt
<1>3. CASE \E a \in Addr : ReadCell(t, a)
    BY <1>3 DEF ReadCell, memory, CellsKept, CellAt
<1>4. CASE FindTable(t) \/ AllocTable(t) \/ InstallTable(t) \/ LoseTable(t) \/ AdoptTable(t)
           \/ AllocPage(t) \/ LosePage(t)
    BY <1>1, <1>4, LookupStutters, CellsAreKept DEF Promise!vars
<1>5. CASE FindPage(t) \/ InstallPage(t) \/ AdoptPage(t)
    BY <1>1, <1>5, GrantRefines, CellsAreKept DEF Promise!Grant
<1>6. CASE NoTable(t) \/ NoPage(t)
    BY <1>6, DenyRefines, CellsAreKept DEF Promise!Deny
<1> QED
    BY <1>2, <1>3, <1>4, <1>5, <1>6 DEF LookupStep

(* A look-up that misses: the page is one on which every cell is zero.     *)
LEMMA MissSaysZero ==
    ASSUME IInv, NEW t \in Thread, LookupStep(t)
    PROVE  /\ at' = at
           /\ step'[t] = "missed" => \A a \in Addr : BaseOf(a) = at[t] => CellAt(a) = Zero
           /\ \A u \in Thread \ {t} : step'[u] = step[u]
<1>0. ShadowTypeOK
    BY DEF IInv
<1>1. at' = at
    <2>1. CASE FindTable(t) \/ NoTable(t) \/ AllocTable(t) \/ InstallTable(t)
        BY <2>1 DEF FindTable, AllocTable, InstallTable, NoTable
    <2>2. CASE LoseTable(t) \/ AdoptTable(t) \/ AllocPage(t) \/ LosePage(t)
        BY <2>2 DEF LoseTable, AdoptTable, AllocPage, LosePage
    <2>3. CASE FindPage(t) \/ NoPage(t) \/ InstallPage(t) \/ AdoptPage(t)
        BY <2>3 DEF FindPage, InstallPage, AdoptPage, NoPage
    <2> QED
        BY <2>1, <2>2, <2>3 DEF LookupStep
<1>2. ASSUME NoTable(t) \/ NoPage(t)
      PROVE  \A a \in Addr : BaseOf(a) = at[t] => CellAt(a) = Zero
    <2>1. Promise!Deny(t)
        BY <1>2, DenyRefines
    <2>2. \A a \in Addr : <<a[1], a[2]>> = at[t] => Cells[a] = Zero
        BY <2>1 DEF Promise!Deny, Promise!OnPage
    <2> QED
        BY <2>2 DEF Cells, BaseOf
<1>3. ASSUME ~ (NoTable(t) \/ NoPage(t)) PROVE step'[t] # "missed"
    <2>1. PICK s \in Lookup \cup {"held"} : step' = [step EXCEPT ![t] = s]
        <3>1. CASE FindTable(t) \/ AllocTable(t) \/ InstallTable(t) \/ LoseTable(t) \/ AdoptTable(t)
            BY <3>1 DEF FindTable, AllocTable, InstallTable, LoseTable, AdoptTable, Lookup
        <3>2. CASE AllocPage(t) \/ LosePage(t)
            BY <3>2 DEF AllocPage, LosePage, Lookup
        <3>3. CASE FindPage(t) \/ InstallPage(t) \/ AdoptPage(t)
            BY <3>3 DEF FindPage, InstallPage, AdoptPage
        <3> QED
            BY <1>3, <3>1, <3>2, <3>3 DEF LookupStep
    <2>2. s # "missed"
        BY DEF Lookup
    <2>3. step'[t] # "missed"
        BY <1>0, <2>1, <2>2 DEF ShadowTypeOK
    <2> QED
        BY <2>3
<1>4. \A u \in Thread \ {t} : step'[u] = step[u]
    <2>1. Effects(t)
        BY EffectsOfStep DEF ThreadNext
    <2> QED
        BY <2>1 DEF Effects, OthersSame
<1> QED
    BY <1>1, <1>2, <1>3, <1>4

LEMMA ReadSees ==
    ASSUME IInv, RecordsOK, NEW t \in Thread, pass[t] \notin {"none", "end"}, ReadCell(t, Byte(t))
    PROVE  /\ seen'[t] = CellAt(Byte(t)) /\ CellsKept
           /\ step' = step /\ at' = at
<1>1. Byte(t) \in Addr
    BY ByteInAddr
<1>2. Cells[Byte(t)] = page[v2[t]][Byte(t)[3]]
    BY <1>1, HeldCell DEF ReadCell
<1>3. seen'[t] = page[v2[t]][Byte(t)[3]]
    BY DEF ReadCell, IInv, ShadowTypeOK
<1> QED
    BY <1>1, <1>2, <1>3, StepKeepsCells DEF Cells, ReadCell

LEMMA StoreMoves ==
    ASSUME IInv, RecordsOK, NEW t \in Thread, pass[t] \notin {"none", "end"}, NEW f, NEW x,
           \A c \in Cell : [c EXCEPT ![f] = x] \in Cell, Store(t, f, x)
    PROVE  /\ \A a \in Addr : CellAt(a)' = IF a = Byte(t) THEN [CellAt(a) EXCEPT ![f] = x] ELSE CellAt(a)
           /\ CellAt(Byte(t)) \in Cell /\ Byte(t) \in Addr
           /\ step' = step /\ at' = at
<1>1. Holds(t, Byte(t)) /\ Byte(t) \in Addr
    BY ByteInAddr DEF Store, WriteCell
<1>2. CellAt(Byte(t)) = page[v2[t]][Byte(t)[3]] /\ CellAt(Byte(t)) \in Cell
    BY <1>1, HeldCell, CellsTyped DEF Cells
<1> DEFINE c == [CellAt(Byte(t)) EXCEPT ![f] = x]
<1>3. c \in Cell /\ WriteCell(t, Byte(t), c)
    BY <1>2 DEF Store
<1> HIDE DEF c
<1>4. \A d \in Addr : CellAt(d)' = IF d = Byte(t) THEN c ELSE CellAt(d)
    BY <1>1, <1>3, WriteMoves
<1>5. step' = step /\ at' = at
    BY DEF Store, WriteCell, look
<1> QED
    BY <1>1, <1>2, <1>4, <1>5 DEF c

LEMMA MarkMoves ==
    ASSUME IInv, RecordsOK, NEW t \in Thread, pass[t] \notin {"none", "end"}, NEW x,
           \A c \in Cell : [c EXCEPT !.mark = x] \in Cell, Store(t, "mark", x)
    PROVE  /\ \A a \in Addr : /\ CellAt(a)'.ctxt = CellAt(a).ctxt
                              /\ a # Byte(t) => CellAt(a)' = CellAt(a)
                              /\ a = Byte(t) => CellAt(a)'.mark = x
           /\ step' = step /\ at' = at
<1>1. /\ \A a \in Addr : CellAt(a)' = IF a = Byte(t) THEN [CellAt(a) EXCEPT !.mark = x] ELSE CellAt(a)
      /\ CellAt(Byte(t)) \in Cell /\ Byte(t) \in Addr
      /\ step' = step /\ at' = at
    BY StoreMoves
<1>2. DOMAIN CellAt(Byte(t)) = {"ctxt", "mark"}
    BY <1>1, CellAssumption
<1> QED
    BY <1>1, <1>2

LEMMA CtxtMoves ==
    ASSUME IInv, RecordsOK, NEW t \in Thread, pass[t] \notin {"none", "end"}, NEW x,
           \A c \in Cell : [c EXCEPT !.ctxt = x] \in Cell, Store(t, "ctxt", x)
    PROVE  /\ \A a \in Addr : /\ CellAt(a)'.mark = CellAt(a).mark
                              /\ a # Byte(t) => CellAt(a)' = CellAt(a)
                              /\ a = Byte(t) => CellAt(a)'.ctxt = x
           /\ step' = step /\ at' = at
<1>1. /\ \A a \in Addr : CellAt(a)' = IF a = Byte(t) THEN [CellAt(a) EXCEPT !.ctxt = x] ELSE CellAt(a)
      /\ CellAt(Byte(t)) \in Cell /\ Byte(t) \in Addr
      /\ step' = step /\ at' = at
    BY StoreMoves
<1>2. DOMAIN CellAt(Byte(t)) = {"ctxt", "mark"}
    BY <1>1, CellAssumption
<1> QED
    BY <1>1, <1>2

-----------------------------------------------------------------------------
(* How a step moves on in a record.                                        *)

(* The counters after the step, of the record it began with. *)
Progress(t, y, z, w) ==
    /\ client' = client /\ ip'[t] = ip[t] /\ called'[t] = called[t] /\ buffer'[t] = buffer[t]
    /\ \/ queue'[t] = queue[t] /\ MarkedAt(t)' = y /\ StampedAt(t)' = z /\ ReviewedAt(t)' = w
       \/ /\ queue'[t] = Tail(queue[t]) /\ pass'[t] = "none"
          /\ \A n \in {y, z, w} :
               n = Rec(t).size \/ (n = 0 /\ Rec(t).kind \notin Acting(client))

(* What is known where a thread has a record. *)
AtRecord(t) ==
    /\ RecordsOK /\ queue[t] # <<>> /\ HeldOnce(t) /\ Done(t) \in Nat
    /\ QueueOK(client, t, Done(t), queue[t])

LEMMA FirstIsRec ==
    ASSUME NEW t \in Thread, AtRecord(t)
    PROVE  /\ queue[t] \in Seq(Record) /\ client \in Clients /\ queue[t] # <<>>
           /\ Rec(t) = queue[t][1] /\ Rec(t) \in Record /\ Todo(t) = queue[t]
           /\ RecMoment(t) = MomentOf(client, queue[t][1])
           /\ Fits(client, t, Done(t), Rec(t))
<1>1. queue[t] \in Seq(Record) /\ client \in Clients /\ queue[t] # <<>>
    BY DEF AtRecord, RecordsOK
<1>2. Rec(t) = queue[t][1] /\ Rec(t) \in Record
    BY <1>1, RecOfQueue, HeadTailProperties DEF Rec, AtRecord
<1>3. Fits(client, t, Done(t), queue[t][1])
    <2>1. 1 \in 1 .. Len(queue[t])
        BY <1>1, LenProperties, EmptySeq
    <2> QED
        BY <2>1 DEF AtRecord, QueueOK
<1> QED
    BY <1>1, <1>2, <1>3 DEF Todo, RecMoment

LEMMA NowAfter ==
    ASSUME NEW t \in Thread, AtRecord(t), NEW y, NEW z, NEW w, Progress(t, y, z, w)
    PROVE  /\ \A a : /\ MarkNow(t, a)' = LastPast(client, t, Done(t), queue[t], y, a)
                     /\ StampNow(t, a)' = LastPast(client, t, Done(t), queue[t], z, a)
                     /\ PastNow(t, a)' = Past(client, t, Done(t), queue[t], w, a)
           /\ Done(t)' = Done(t) /\ HeldOnce(t)' /\ Todo(t)' = queue'[t]
           /\ QueueOK(client, t, Done(t), queue'[t])
<1> DEFINE c == client
           q == queue[t]
           d == Done(t)
<1>1. Done(t)' = d /\ c' = c
    BY DEF Progress, Done
<1>2. CASE queue'[t] = q /\ MarkedAt(t)' = y /\ StampedAt(t)' = z /\ ReviewedAt(t)' = w
    <2>1. Todo(t)' = q /\ HeldOnce(t)'
        BY <1>2, FirstIsRec DEF Todo, HeldOnce, AtRecord, Progress
    <2> QED
        BY <1>1, <1>2, <2>1 DEF MarkNow, StampNow, PastNow, AtRecord
<1>3. CASE /\ queue'[t] = Tail(q) /\ pass'[t] = "none"
           /\ \A n \in {y, z, w} : n = Rec(t).size \/ (n = 0 /\ Rec(t).kind \notin Acting(c))
    <2>1. Todo(t)' = Tail(q) /\ HeldOnce(t)'
        BY <1>3 DEF Todo, HeldOnce, AtRecord, Progress
    <2>2. MarkedAt(t)' = 0 /\ StampedAt(t)' = 0 /\ ReviewedAt(t)' = 0
        BY <1>3 DEF MarkedAt, StampedAt, ReviewedAt, Marked, Stamped, Reviewed
    <2>3. \A n \in {y, z, w} : \A a : Past(c, t, d, q, n, a) = Past(c, t, d, Tail(q), 0, a)
        <3>1. /\ \A a : Past(c, t, d, q, Rec(t).size, a) = Past(c, t, d, Tail(q), 0, a)
              /\ Rec(t).kind \notin Acting(c) =>
                    \A a : Past(c, t, d, q, 0, a) = Past(c, t, d, Tail(q), 0, a)
            BY FirstIsRec, QueueTail DEF AtRecord
        <3> QED
            BY <1>3, <3>1
    <2>4. QueueOK(c, t, d, Tail(q))
        BY FirstIsRec, QueueTail DEF AtRecord
    <2>5. \A a : /\ MarkNow(t, a)' = LastPast(c, t, d, Tail(q), 0, a)
                 /\ StampNow(t, a)' = LastPast(c, t, d, Tail(q), 0, a)
                 /\ PastNow(t, a)' = Past(c, t, d, Tail(q), 0, a)
        BY <1>1, <2>1, <2>2 DEF MarkNow, StampNow, PastNow
    <2>6. \A n \in {y, z, w} : \A a : LastPast(c, t, d, q, n, a) = LastPast(c, t, d, Tail(q), 0, a)
        BY <2>3 DEF LastPast
    <2> QED
        BY <1>1, <1>3, <2>1, <2>3, <2>4, <2>5, <2>6
<1> QED
    BY <1>2, <1>3 DEF Progress

(* One byte further in a record that acts. *)
LEMMA OneByteOn ==
    ASSUME NEW t \in Thread, AtRecord(t), Rec(t).kind \in Acting(client),
           NEW k \in 0 .. (Rec(t).size - 1), NEW b, b = Plus(Rec(t).addr, k)
    PROVE  /\ b \in Addr /\ RecMoment(t) \in Moments(client, t, b)
           /\ Past(client, t, Done(t), queue[t], k, b)
                = Earlier(client, t, RecMoment(t), b)
           /\ Past(client, t, Done(t), queue[t], k + 1, b)
                = UpTo(client, t, RecMoment(t), b)
           /\ LastPast(client, t, Done(t), queue[t], k, b) = Prev(client, t, RecMoment(t), b)
           /\ LastPast(client, t, Done(t), queue[t], k + 1, b) = RecMoment(t)
           /\ \A a : a # b =>
                /\ Past(client, t, Done(t), queue[t], k + 1, a) = Past(client, t, Done(t), queue[t], k, a)
                /\ LastPast(client, t, Done(t), queue[t], k + 1, a)
                     = LastPast(client, t, Done(t), queue[t], k, a)
<1> DEFINE c == client
           q == queue[t]
           d == Done(t)
           m == RecMoment(t)
<1>1. /\ q \in Seq(Record) /\ c \in Clients /\ q # <<>> /\ Rec(t) = q[1] /\ d \in Nat
      /\ QueueOK(c, t, d, q) /\ m = MomentOf(c, q[1])
    BY FirstIsRec DEF AtRecord
<1>2. /\ b \in Addr /\ m \in Moments(c, t, b)
      /\ Past(c, t, d, q, k, b) = Earlier(c, t, m, b)
      /\ Past(c, t, d, q, k + 1, b) = UpTo(c, t, m, b)
    <2>1. q[1].kind \in Acting(c) /\ k \in 0 .. (q[1].size - 1) /\ b = Plus(q[1].addr, k)
        BY <1>1
    <2> HIDE DEF c, q, d, m
    <2> QED
        BY <1>1, <2>1, PastOfFirst
<1>3. /\ LastPast(c, t, d, q, k, b) = Prev(c, t, m, b)
      /\ LastPast(c, t, d, q, k + 1, b) = m
    <2>1. /\ Latest(Earlier(c, t, m, b)) = Prev(c, t, m, b)
          /\ Latest(UpTo(c, t, m, b)) = m
        <3> HIDE DEF c, m
        <3> QED
            BY <1>1, <1>2, LatestBefore
    <2> HIDE DEF c, q, d, m
    <2> QED
        BY <1>2, <2>1 DEF LastPast
<1>4. \A a : a # b => Past(c, t, d, q, k + 1, a) = Past(c, t, d, q, k, a)
    BY <1>1, PastOfOthers
<1> QED
    BY <1>2, <1>3, <1>4 DEF LastPast

MarksOK(t) == \A a \in Addr : PrivateByte(client, t, a) => MarkOK(t, a)
CtxtsOK(t) == \A a \in Addr : PrivateByte(client, t, a) => CtxtOK(t, a)
ValuesOK(t) == \A a \in Addr : PrivateByte(client, t, a) => ValueOK(t, a)

(* The mark of a byte changes when, and only when, the byte is passed.      *)
LEMMA MarksStay ==
    ASSUME NEW t \in Thread, AtRecord(t), NEW y, NEW z, NEW w, Progress(t, y, z, w), MarksOK(t),
           y = MarkedAt(t), \A a \in Addr : CellAt(a)'.mark = CellAt(a).mark
    PROVE  MarksOK(t)'
<1>1. \A a : MarkNow(t, a)' = MarkNow(t, a)
    BY NowAfter, FirstIsRec DEF MarkNow
<1>2. client' = client
    BY DEF Progress
<1>3. \A a \in Addr : CellAt(a)'.mark = CellAt(a).mark
    OBVIOUS
<1> QED
    BY <1>1, <1>2, <1>3 DEF MarksOK, MarkOK

LEMMA MarkOfByte ==
    ASSUME NEW t \in Thread, AtRecord(t), NEW y, NEW z, NEW w, Progress(t, y, z, w), MarksOK(t),
           Rec(t).kind \in Acting(client), nth[t] \in 0 .. (Rec(t).size - 1),
           MarkedAt(t) = nth[t], y = nth[t] + 1,
           \A a \in Addr : a # Byte(t) => CellAt(a)'.mark = CellAt(a).mark,
           NEW b, b = Byte(t),
           PrivateByte(client, t, b) => CellAt(b)'.mark = MarkAfter(client, t, RecMoment(t), b)
    PROVE  MarksOK(t)'
<1>1. /\ b \in Addr /\ LastPast(client, t, Done(t), queue[t], y, b) = RecMoment(t)
      /\ \A a : a # b => LastPast(client, t, Done(t), queue[t], y, a)
                           = LastPast(client, t, Done(t), queue[t], nth[t], a)
    BY OneByteOn DEF Byte
<1>2. MarkNow(t, b)' = RecMoment(t)
    BY <1>1, NowAfter
<1>3. \A a : a # b => MarkNow(t, a)' = MarkNow(t, a)
    BY <1>1, NowAfter, FirstIsRec DEF MarkNow
<1>4. client' = client
    BY DEF Progress
<1>5. ASSUME NEW a \in Addr, PrivateByte(client, t, a), client.name # "redspy"
      PROVE  CellAt(a)'.mark = MarkAfter(client, t, MarkNow(t, a)', a)
    <2>1. CASE a = b
        BY <1>2, <1>5, <2>1
    <2>2. CASE a # b
        <3>1. CellAt(a)'.mark = CellAt(a).mark /\ MarkNow(t, a)' = MarkNow(t, a)
            BY <1>3, <2>2
        <3> QED
            BY <1>5, <3>1 DEF MarksOK, MarkOK
    <2> QED
        BY <2>1, <2>2
<1> QED
    BY <1>4, <1>5 DEF MarksOK, MarkOK

LEMMA CtxtsStay ==
    ASSUME NEW t \in Thread, AtRecord(t), NEW y, NEW z, NEW w, Progress(t, y, z, w), CtxtsOK(t),
           z = StampedAt(t), \A a \in Addr : CellAt(a)'.ctxt = CellAt(a).ctxt
    PROVE  CtxtsOK(t)'
<1>1. \A a : StampNow(t, a)' = StampNow(t, a)
    BY NowAfter, FirstIsRec DEF StampNow
<1>2. client' = client
    BY DEF Progress
<1>3. \A a \in Addr : CellAt(a)'.ctxt = CellAt(a).ctxt
    OBVIOUS
<1> QED
    BY <1>1, <1>2, <1>3 DEF CtxtsOK, CtxtOK

(* A moment at which deadspy reads says nothing of the context. *)
LEMMA CtxtOfByte ==
    ASSUME NEW t \in Thread, AtRecord(t), NEW y, NEW z, NEW w, Progress(t, y, z, w), CtxtsOK(t),
           Rec(t).kind \in Acting(client), nth[t] \in 0 .. (Rec(t).size - 1),
           StampedAt(t) = nth[t], z = nth[t] + 1,
           \A a \in Addr : a # Byte(t) => CellAt(a)'.ctxt = CellAt(a).ctxt,
           NEW b, b = Byte(t),
           (client.name = "deadspy" => RecMoment(t) \in Writes(client, t, b)) =>
               CellAt(b)'.ctxt = CtxtAfter(t, RecMoment(t))
    PROVE  CtxtsOK(t)'
<1>1. /\ b \in Addr /\ LastPast(client, t, Done(t), queue[t], z, b) = RecMoment(t)
      /\ \A a : a # b => LastPast(client, t, Done(t), queue[t], z, a)
                           = LastPast(client, t, Done(t), queue[t], nth[t], a)
    BY OneByteOn DEF Byte
<1>2. StampNow(t, b)' = RecMoment(t)
    BY <1>1, NowAfter
<1>3. \A a : a # b => StampNow(t, a)' = StampNow(t, a)
    BY <1>1, NowAfter, FirstIsRec DEF StampNow
<1>4. client' = client
    BY DEF Progress
<1>5. ASSUME NEW a \in Addr, PrivateByte(client, t, a),
             client.name = "deadspy" => StampNow(t, a)' \in Writes(client, t, a)
      PROVE  CellAt(a)'.ctxt = CtxtAfter(t, StampNow(t, a)')
    <2>1. CASE a = b
        BY <1>2, <1>5, <2>1
    <2>2. CASE a # b
        <3>1. CellAt(a)'.ctxt = CellAt(a).ctxt /\ StampNow(t, a)' = StampNow(t, a)
            BY <1>3, <2>2
        <3> QED
            BY <1>5, <3>1 DEF CtxtsOK, CtxtOK
    <2> QED
        BY <2>1, <2>2
<1> QED
    BY <1>4, <1>5 DEF CtxtsOK, CtxtOK

-----------------------------------------------------------------------------
(* What a step does to the pairs counted.                                  *)

LEMMA JudgedActs ==
    ASSUME NEW c \in Clients
    PROVE  JudgedKind(c) \in Acting(c)
BY ClientsAssumption DEF JudgedKind, Acting

LEMMA CountedAfter ==
    ASSUME NEW t, NEW b, IsABag(b), NEW x, FiniteBag(found[t]), found'[t] = BagAdd(found[t], x)
    PROVE  \A y : Counted(t, y)' = Counted(t, y) + IF y = x THEN 1 ELSE 0
<1> DEFINE f == found[t]
<1>1. IsABag(f)
    BY DEF FiniteBag
<1>2. \A y \in DOMAIN f : f[y] \in Nat
    BY <1>1 DEF IsABag
<1>3. found'[t] = IF x \in DOMAIN f THEN [e \in DOMAIN f |-> IF e = x THEN f[e] + 1 ELSE f[e]]
                  ELSE [e \in DOMAIN f \cup {x} |-> IF e = x THEN 1 ELSE f[e]]
    BY DEF BagAdd
<1> HIDE DEF f
<1>4. CASE x \in DOMAIN f
    <2>1. /\ DOMAIN (found'[t]) = DOMAIN f
          /\ \A y \in DOMAIN f : found'[t][y] = IF y = x THEN f[y] + 1 ELSE f[y]
        BY <1>3, <1>4
    <2>2. \A y : Counted(t, y)' = IF y \in DOMAIN f THEN found'[t][y] ELSE 0
        BY <2>1 DEF Counted, BagIn, BagToSet
    <2>3. \A y : Counted(t, y) = IF y \in DOMAIN f THEN f[y] ELSE 0
        BY DEF Counted, BagIn, BagToSet, f
    <2> QED
        BY <1>2, <1>4, <2>1, <2>2, <2>3
<1>5. CASE x \notin DOMAIN f
    <2>1. /\ DOMAIN (found'[t]) = DOMAIN f \cup {x}
          /\ \A y \in DOMAIN f \cup {x} : found'[t][y] = IF y = x THEN 1 ELSE f[y]
        BY <1>3, <1>5
    <2>2. \A y : Counted(t, y)' = IF y \in DOMAIN f \cup {x} THEN found'[t][y] ELSE 0
        BY <2>1 DEF Counted, BagIn, BagToSet
    <2>3. \A y : Counted(t, y) = IF y \in DOMAIN f THEN f[y] ELSE 0
        BY DEF Counted, BagIn, BagToSet, f
    <2> QED
        BY <1>2, <1>5, <2>1, <2>2, <2>3
<1> QED
    BY <1>4, <1>5

LEMMA WasteInAddr ==
    ASSUME NEW c \in Clients, NEW t \in Thread, NEW i, NEW j \in Places(c, t)
    PROVE  /\ WasteOf(c, t, i, j) \subseteq Addr /\ IsFiniteSet(WasteOf(c, t, i, j))
           /\ WasteOf(c, t, i, j) \subseteq BytesOf(Accesses(c, t, j, JudgedKind(c)))
<1> DEFINE os == Accesses(c, t, j, JudgedKind(c))
           m == Moment(c, j, JudgedKind(c))
<1>1. \A n \in DOMAIN os : os[n] \in Operand
    BY AccessesAre
<1>2. \A n \in DOMAIN os : BytesFrom(os[n], 0) \subseteq Addr /\ BytesFrom(os[n], 0) = OperandBytes(os[n])
    <2> TAKE n \in DOMAIN os
    <2>1. os[n].addr \in Addr /\ os[n].size \in 1 .. PageSize
        BY <1>1 DEF Operand
    <2> QED
        BY <2>1, BytesOfRecord
<1>3. \A n \in DOMAIN os : WasteIn(c, t, m, os[n]) \subseteq OperandBytes(os[n])
    BY <1>2 DEF WasteIn
<1>4. WasteOf(c, t, i, j) \subseteq UNION {WasteIn(c, t, m, os[n]) : n \in DOMAIN os}
    BY DEF WasteOf
<1> HIDE DEF os, m
<1>5. \A a \in WasteOf(c, t, i, j) : \E n \in DOMAIN os : a \in OperandBytes(os[n])
    BY <1>3, <1>4
<1>6. WasteOf(c, t, i, j) \subseteq BytesOf(os) /\ WasteOf(c, t, i, j) \subseteq Addr
    BY <1>2, <1>5 DEF BytesOf
<1>7. IsFiniteSet(Addr)
    <2>1. DirEntries \in Nat /\ TableEntries \in Nat /\ PageSize \in Nat
        BY ShadowMemoryAssumption
    <2>2. IsFiniteSet(DirSlot) /\ IsFiniteSet(TableSlot) /\ IsFiniteSet(Offset)
        BY <2>1, FS_Interval DEF DirSlot, TableSlot, Offset
    <2>3. IsFiniteSet(TableSlot \X Offset)
        BY <2>2, FS_Product
    <2>4. IsFiniteSet(DirSlot \X (TableSlot \X Offset))
        BY <2>2, <2>3, FS_Product
    <2> DEFINE f == [x \in DirSlot \X (TableSlot \X Offset) |-> <<x[1], x[2][1], x[2][2]>>]
    <2>5. f \in Surjection(DirSlot \X (TableSlot \X Offset), Addr)
        <3>1. \A x \in DirSlot \X (TableSlot \X Offset) : f[x] \in Addr
            BY DEF Addr
        <3>2. \A a \in Addr : <<a[1], <<a[2], a[3]>>>> \in DirSlot \X (TableSlot \X Offset)
                              /\ f[<<a[1], <<a[2], a[3]>>>>] = a
            BY DEF Addr
        <3> QED
            BY <3>1, <3>2 DEF Surjection
    <2> QED
        BY <2>4, <2>5, FS_Surjection
<1> QED
    BY <1>6, <1>7, FS_Subset DEF os

LEMMA CountsStay ==
    ASSUME NEW t \in Thread, AtRecord(t), NEW y, NEW z, NEW w, Progress(t, y, z, w), CountOK(t),
           w = ReviewedAt(t), found'[t] = found[t]
    PROVE  CountOK(t)'
<1>1. \A a : PastNow(t, a)' = PastNow(t, a)
    BY NowAfter, FirstIsRec DEF PastNow
<1>2. client' = client
    BY DEF Progress
<1>3. \A i, j : Reported(t, i, j)' = Reported(t, i, j)
    BY <1>1, <1>2 DEF Reported
<1>4. \A x : Counted(t, x)' = Counted(t, x)
    BY DEF Counted
<1> QED
    BY <1>2, <1>3, <1>4 DEF CountOK

(* A byte is reviewed. *)
LEMMA ReviewOfByte ==
    ASSUME NEW t \in Thread, AtRecord(t), NEW y, NEW z, NEW w, Progress(t, y, z, w),
           NEW k \in 0 .. (Rec(t).size - 1), Rec(t).kind \in Acting(client),
           k = ReviewedAt(t), w = k + 1, NEW b, b = Plus(Rec(t).addr, k)
    PROVE  /\ b \in Addr /\ RecMoment(t) \notin PastNow(t, b)
           /\ \A a, x : x \in PastNow(t, a)' <=> x \in PastNow(t, a) \/ (a = b /\ x = RecMoment(t))
<1> DEFINE m == RecMoment(t)
           P(n, a) == Past(client, t, Done(t), queue[t], n, a)
<1>1. \A a : PastNow(t, a) = P(k, a) /\ PastNow(t, a)' = P(w, a)
    BY NowAfter, FirstIsRec DEF PastNow
<1>2. /\ b \in Addr /\ m \in Moments(client, t, b)
      /\ P(k, b) = Earlier(client, t, m, b) /\ P(w, b) = UpTo(client, t, m, b)
      /\ \A a : a # b => P(w, a) = P(k, a)
    <2>1. /\ b \in Addr /\ RecMoment(t) \in Moments(client, t, b)
          /\ Past(client, t, Done(t), queue[t], k, b) = Earlier(client, t, RecMoment(t), b)
          /\ Past(client, t, Done(t), queue[t], k + 1, b) = UpTo(client, t, RecMoment(t), b)
        BY OneByteOn
    <2>2. \A a : a # b => Past(client, t, Done(t), queue[t], k + 1, a) = Past(client, t, Done(t), queue[t], k, a)
        BY OneByteOn
    <2> QED
        BY <2>1, <2>2
<1>3. m \in Nat /\ \A x \in Moments(client, t, b) : x \in Nat
    BY <1>2, MomentsHave, FirstIsRec DEF Moments
<1> HIDE DEF P, m
<1>4. \A x : x \in UpTo(client, t, m, b) <=> x \in Earlier(client, t, m, b) \/ x = m
    <2> DEFINE S == Moments(client, t, b)
    <2>1. m \in S /\ m \in Nat /\ \A x \in S : x \in Nat
        BY <1>2, <1>3
    <2>2. /\ \A x : x \in UpTo(client, t, m, b) <=> x \in S /\ x <= m
          /\ \A x : x \in Earlier(client, t, m, b) <=> x \in S /\ x < m
        BY DEF UpTo, Earlier
    <2> HIDE DEF S
    <2>3. ASSUME NEW x \in S PROVE x <= m <=> x < m \/ x = m
        <3>1. x \in Nat /\ m \in Nat
            BY <2>1
        <3> QED
            BY <3>1
    <2> QED
        BY <2>1, <2>2, <2>3
<1>5. m \notin Earlier(client, t, m, b)
    BY <1>3 DEF Earlier
<1> QED
    BY <1>1, <1>2, <1>4, <1>5 DEF m

(* Of the moments of the judged kind that of the record is the one of its   *)
(* instruction.                                                            *)
LEMMA JudgedMoment ==
    ASSUME NEW t \in Thread, AtRecord(t), Rec(t).kind \in Acting(client),
           NEW j \in Places(client, t), Moment(client, j, JudgedKind(client)) = RecMoment(t)
    PROVE  j = Rec(t).ctxt[2] /\ Rec(t).kind = JudgedKind(client)
<1>1. client \in Clients /\ Rec(t) \in Record /\ Fits(client, t, Done(t), Rec(t))
      /\ RecMoment(t) = Moment(client, Rec(t).ctxt[2], Rec(t).kind)
    BY FirstIsRec DEF RecMoment, MomentOf
<1>2. j \in Nat /\ Rec(t).ctxt[2] \in Nat /\ JudgedKind(client) \in Acting(client)
    <2>1. JudgedKind(client) \in Acting(client)
        BY <1>1, ClientsAssumption DEF JudgedKind, Acting
    <2>2. Places(client, t) \subseteq Nat
        BY <1>1, CodeOfClient
    <2>3. Rec(t).ctxt[2] \in Nat
        BY <1>1, RecordFits DEF AtRecord
    <2> QED
        BY <2>1, <2>2, <2>3
<1> QED
    BY <1>1, <1>2, MomentsDiffer

(* The bytes of a judged record of an instruction are among those judged. *)
LEMMA JudgedPrivate ==
    ASSUME NEW t \in Thread, AtRecord(t), Rec(t).kind = JudgedKind(client),
           \A a \in BytesOf(Accesses(client, t, Rec(t).ctxt[2], JudgedKind(client))) : PrivateByte(client, t, a)
    PROVE  PrivateRec(t)
<1>1. client \in Clients /\ Rec(t) \in Record /\ Fits(client, t, Done(t), Rec(t))
    BY FirstIsRec
<1>2. \A a \in BytesFrom(Rec(t), 0) : a \in BytesOf(Accesses(client, t, Rec(t).ctxt[2], Rec(t).kind))
    BY <1>1, RecordFits DEF AtRecord
<1> QED
    BY <1>2 DEF PrivateRec

LEMMA CountsSkip ==
    ASSUME NEW t \in Thread, AtRecord(t), NEW y, NEW z, NEW w, Progress(t, y, z, w), CountOK(t),
           NEW k \in 0 .. (Rec(t).size - 1), Rec(t).kind \in Acting(client),
           k = ReviewedAt(t), w = k + 1, NEW b, b = Plus(Rec(t).addr, k), found'[t] = found[t],
           Rec(t).kind = JudgedKind(client) /\ PrivateRec(t) =>
               \A i : b \notin WasteOf(client, t, i, Rec(t).ctxt[2])
    PROVE  CountOK(t)'
<1> DEFINE M(j) == Moment(client, j, JudgedKind(client))
<1>1. \A a, x : x \in PastNow(t, a)' <=> x \in PastNow(t, a) \/ (a = b /\ x = RecMoment(t))
    BY ReviewOfByte
<1>2. client' = client
    BY DEF Progress
<1>3. \A x : Counted(t, x)' = Counted(t, x)
    BY DEF Counted
<1>4. ASSUME NEW j \in Places(client, t), NEW i \in {0} \cup Places(client, t),
             \A a \in BytesOf(Accesses(client, t, j, JudgedKind(client))) : PrivateByte(client, t, a)
      PROVE  Reported(t, i, j)' = Reported(t, i, j)
    <2>1. ASSUME NEW a \in WasteOf(client, t, i, j)
          PROVE  M(j) \in PastNow(t, a)' <=> M(j) \in PastNow(t, a)
        <3>1. ASSUME a = b, M(j) = RecMoment(t) PROVE FALSE
            <4>1. j = Rec(t).ctxt[2] /\ Rec(t).kind = JudgedKind(client)
                BY <3>1, JudgedMoment
            <4>2. PrivateRec(t)
                BY <1>4, <4>1, JudgedPrivate
            <4> QED
                BY <2>1, <3>1, <4>1, <4>2
        <3> QED
            BY <1>1, <3>1
    <2>2. Reported(t, i, j) = {a \in WasteOf(client, t, i, j) : M(j) \in PastNow(t, a)}
        BY DEF Reported
    <2>3. Reported(t, i, j)' = {a \in WasteOf(client, t, i, j) : M(j) \in PastNow(t, a)'}
        BY <1>2 DEF Reported
    <2> HIDE DEF M
    <2> QED
        BY <2>1, <2>2, <2>3
<1> QED
    BY <1>2, <1>3, <1>4 DEF CountOK

LEMMA CountsReport ==
    ASSUME NEW t \in Thread, AtRecord(t), NEW y, NEW z, NEW w, Progress(t, y, z, w), CountOK(t),
           NEW k \in 0 .. (Rec(t).size - 1), Rec(t).kind = JudgedKind(client), Rec(t).kind \in Acting(client),
           k = ReviewedAt(t), w = k + 1, NEW b, b = Plus(Rec(t).addr, k), FiniteBag(found[t]),
           NEW s, found'[t] = BagAdd(found[t], <<s, Rec(t).ctxt>>),
           PrivateRec(t) => \A i \in {0} \cup Places(client, t) :
               b \in WasteOf(client, t, i, Rec(t).ctxt[2]) <=> s = CtxtOf(t, i)
    PROVE  CountOK(t)'
<1> DEFINE M(j) == Moment(client, j, JudgedKind(client))
           o == Rec(t).ctxt[2]
           x == <<s, Rec(t).ctxt>>
<1>1. /\ RecMoment(t) \notin PastNow(t, b)
      /\ \A a, u : u \in PastNow(t, a)' <=> u \in PastNow(t, a) \/ (a = b /\ u = RecMoment(t))
    BY ReviewOfByte
<1>2. client' = client
    BY DEF Progress
<1>3. \A u : Counted(t, u)' = Counted(t, u) + IF u = x THEN 1 ELSE 0
    <2>1. IsABag(found[t])
        BY DEF FiniteBag
    <2> HIDE DEF x
    <2> QED
        BY <2>1, CountedAfter DEF x
<1>4. Rec(t).ctxt = <<t, o>> /\ o \in Places(client, t) /\ o \in Nat /\ o # 0 /\ client \in Clients
      /\ RecMoment(t) = M(o)
    <2>1. client \in Clients /\ Rec(t) \in Record /\ Fits(client, t, Done(t), Rec(t))
        BY FirstIsRec
    <2>2. Rec(t).ctxt \in Contexts
        BY <2>1, RecordHas
    <2>3. \A v \in Contexts : v = <<v[1], v[2]>>
        BY DEF Contexts
    <2>4. o \in Places(client, t) /\ o \in Nat /\ Rec(t).ctxt[1] = t
        BY <2>1, CodeOfClient DEF Fits
    <2>5. o # 0
        BY <2>4 DEF Places
    <2>6. RecMoment(t) = M(o)
        BY DEF RecMoment, MomentOf
    <2> QED
        BY <2>1, <2>2, <2>3, <2>4, <2>5, <2>6
<1>5. ASSUME NEW j \in Places(client, t), NEW i \in {0} \cup Places(client, t),
             \A a \in BytesOf(Accesses(client, t, j, JudgedKind(client))) : PrivateByte(client, t, a),
             Counted(t, <<CtxtOf(t, i), CtxtOf(t, j)>>) = Cardinality(Reported(t, i, j))
      PROVE  Counted(t, <<CtxtOf(t, i), CtxtOf(t, j)>>)' = Cardinality(Reported(t, i, j)')
    <2>0. CtxtOf(t, j) = <<t, j>> /\ (CtxtOf(t, j) = Rec(t).ctxt <=> j = o)
        <3>1. j # 0
            BY DEF Places
        <3> QED
            BY <1>4, <3>1 DEF CtxtOf
    <2>1. Reported(t, i, j) = {a \in WasteOf(client, t, i, j) : M(j) \in PastNow(t, a)}
        BY DEF Reported
    <2>2. Reported(t, i, j)' = {a \in WasteOf(client, t, i, j) : M(j) \in PastNow(t, a)'}
        BY <1>2 DEF Reported
    <2>3. CASE j # o
        <3>1. M(j) # RecMoment(t)
            BY <2>3, JudgedMoment
        <3>2. \A a : M(j) \in PastNow(t, a)' <=> M(j) \in PastNow(t, a)
            BY <1>1, <3>1
        <3>3. Reported(t, i, j)' = Reported(t, i, j)
            <4> HIDE DEF M
            <4> QED
                BY <2>1, <2>2, <3>2
        <3>4. Counted(t, <<CtxtOf(t, i), CtxtOf(t, j)>>)' = Counted(t, <<CtxtOf(t, i), CtxtOf(t, j)>>)
            <4> DEFINE u == <<CtxtOf(t, i), CtxtOf(t, j)>>
            <4>1. u # x
                BY <2>0, <2>3
            <4>2. Counted(t, u) \in Nat
                <5> HIDE DEF u
                <5>1. \A v \in DOMAIN found[t] : found[t][v] \in Nat
                    BY DEF FiniteBag, IsABag
                <5>2. CASE u \in DOMAIN found[t]
                    <6>1. found[t][u] \in Nat
                        BY <5>1, <5>2
                    <6> QED
                        BY <5>2, <6>1 DEF Counted, BagIn, BagToSet
                <5>3. CASE u \notin DOMAIN found[t]
                    BY <5>3 DEF Counted, BagIn, BagToSet
                <5> QED
                    BY <5>2, <5>3
            <4> HIDE DEF u, x
            <4>3. Counted(t, u)' = Counted(t, u) + 0
                BY <1>3, <4>1
            <4> QED
                BY <4>2, <4>3 DEF u
        <3> QED
            BY <1>5, <3>3, <3>4
    <2>4. CASE j = o
        <3>0. PrivateRec(t)
            BY <1>5, <2>4, JudgedPrivate
        <3>1. b \in WasteOf(client, t, i, j) <=> s = CtxtOf(t, i)
            BY <2>4, <3>0
        <3>2. M(j) = RecMoment(t)
            BY <1>4, <2>4
        <3> DEFINE u == <<CtxtOf(t, i), CtxtOf(t, j)>>
                   W == WasteOf(client, t, i, j)
                   R == Reported(t, i, j)
        <3>3. u = x <=> b \in W
            BY <2>0, <2>4, <3>1
        <3>4. Reported(t, i, j)' = IF b \in W THEN R \cup {b} ELSE R
            <4>1. \A a : M(j) \in PastNow(t, a)' <=> M(j) \in PastNow(t, a) \/ a = b
                BY <1>1, <3>2
            <4> DEFINE R1 == Reported(t, i, j)'
            <4>2. /\ \A a : a \in R <=> a \in W /\ M(j) \in PastNow(t, a)
                  /\ \A a : a \in R1 <=> a \in W /\ M(j) \in PastNow(t, a)'
                <5> HIDE DEF M
                <5> QED
                    BY <2>1, <2>2
            <4>3. \A a : a \in R1 <=> a \in R \/ (a \in W /\ a = b)
                <5> HIDE DEF M, W, R, R1
                <5> QED
                    BY <4>1, <4>2
            <4>4. R1 = IF b \in W THEN R \cup {b} ELSE R
                <5>1. /\ \A a : a \in R1 => a \in R \cup {b}
                      /\ b \in W => b \in R1
                      /\ \A a : a \in R => a \in R1
                      /\ b \notin W => \A a : a \in R1 => a \in R
                    BY <4>3
                <5> HIDE DEF W, R, R1
                <5> QED
                    BY <5>1
            <4> QED
                BY <4>4
        <3>5. b \notin R
            BY <1>1, <2>1, <3>2
        <3>6. IsFiniteSet(R)
            <4>1. IsFiniteSet(W) /\ R \subseteq W
                BY <1>4, <2>1, WasteInAddr
            <4> QED
                BY <4>1, FS_Subset
        <3>7. Cardinality(R \cup {b}) = Cardinality(R) + 1 /\ Cardinality(R) \in Nat
            BY <3>5, <3>6, FS_AddElement, FS_CardinalityType
        <3>8. Counted(t, u)' = Counted(t, u) + IF u = x THEN 1 ELSE 0
            BY <1>3
        <3>9. Counted(t, u) = Cardinality(R)
            BY <1>5
        <3> HIDE DEF u, x, R, W
        <3> QED
            <4>1. CASE b \in W
                BY <3>3, <3>4, <3>7, <3>8, <3>9, <4>1 DEF u
            <4>2. CASE b \notin W
                BY <3>3, <3>4, <3>7, <3>8, <3>9, <4>2 DEF u
            <4> QED
                BY <4>1, <4>2
    <2> QED
        BY <2>3, <2>4
<1> QED
    BY <1>2, <1>5 DEF CountOK

-----------------------------------------------------------------------------
(* Of what a record wastes a byte speaks, and what a record judges.        *)

RecWastes(c, t, r, b) ==
    IF c.name = "deadspy" THEN Wastes(c, t, MomentOf(c, r), b)
    ELSE \A a \in BytesFrom(r, 0) : Wastes(c, t, MomentOf(c, r), a)

LEMMA SameBytes ==
    ASSUME NEW r, NEW o, r.addr = o.addr, r.size = o.size
    PROVE  \A n : BytesFrom(r, n) = BytesFrom(o, n)
BY DEF BytesFrom

LEMMA WasteOfByte ==
    ASSUME NEW c \in Clients, NEW t \in Thread, NEW d \in Nat, NEW r \in Record, Fits(c, t, d, r),
           r.kind = JudgedKind(c), OperandsApart,
           NEW k \in 0 .. (r.size - 1), NEW b, b = Plus(r.addr, k)
    PROVE  \A i : b \in WasteOf(c, t, i, r.ctxt[2]) <=>
               RecWastes(c, t, r, b) /\ CtxtAfter(t, Prev(c, t, MomentOf(c, r), b)) = CtxtOf(t, i)
<1> DEFINE j == r.ctxt[2]
           os == Accesses(c, t, j, JudgedKind(c))
           m == MomentOf(c, r)
<1>1. j \in Places(c, t) /\ m = Moment(c, j, JudgedKind(c))
    BY RecordFits DEF MomentOf
<1>2. PICK n \in DOMAIN os : r.addr = os[n].addr /\ r.size = os[n].size
    BY DEF Fits, IsOp
<1>3. BytesFrom(r, 0) = BytesFrom(os[n], 0)
    BY <1>2, SameBytes
<1>4. b \in BytesFrom(r, 0)
    BY RecordHas, BytesOfRecord
<1>5. \A l \in DOMAIN os : l # n => b \notin BytesFrom(os[l], 0)
    <2>1. Apart(os)
        BY <1>1, AccessesAre
    <2> HIDE DEF os
    <2> QED
        BY <1>2, <1>3, <1>4, <2>1 DEF Apart
<1>6. \A l \in DOMAIN os : b \in WasteIn(c, t, m, os[l]) <=> l = n /\ RecWastes(c, t, r, b)
    <2> TAKE l \in DOMAIN os
    <2>1. b \in WasteIn(c, t, m, os[l]) <=>
            /\ b \in BytesFrom(os[l], 0)
            /\ IF c.name = "deadspy" THEN Wastes(c, t, m, b)
               ELSE \A a \in BytesFrom(os[l], 0) : Wastes(c, t, m, a)
        BY DEF WasteIn
    <2>2. CASE l = n
        <3>1. RecWastes(c, t, r, b) <=> IF c.name = "deadspy" THEN Wastes(c, t, m, b)
               ELSE \A a \in BytesFrom(os[l], 0) : Wastes(c, t, m, a)
            BY <1>3, <2>2 DEF RecWastes
        <3> QED
            BY <1>3, <1>4, <2>1, <2>2, <3>1
    <2>3. CASE l # n
        BY <1>5, <2>1, <2>3
    <2> QED
        BY <2>2, <2>3
<1> TAKE i
<1>7. b \in WasteOf(c, t, i, j) <=>
        /\ \E l \in DOMAIN os : b \in WasteIn(c, t, m, os[l])
        /\ CtxtAfter(t, Prev(c, t, m, b)) = CtxtOf(t, i)
    <2>1. WasteOf(c, t, i, j) =
            {a \in UNION {WasteIn(c, t, m, os[l]) : l \in DOMAIN os} :
                CtxtAfter(t, Prev(c, t, m, a)) = CtxtOf(t, i)}
        BY <1>1 DEF WasteOf
    <2> HIDE DEF os, m, j
    <2> QED
        BY <2>1
<1> HIDE DEF os, m
<1>8. (\E l \in DOMAIN os : b \in WasteIn(c, t, m, os[l])) <=> RecWastes(c, t, r, b)
    BY <1>2, <1>6
<1> QED
    BY <1>7, <1>8 DEF m

(* What a private byte holds when it comes next. *)
LEMMA CellOfByte ==
    ASSUME NEW t \in Thread, AtRecord(t), Rec(t).kind \in Acting(client), MarksOK(t), CtxtsOK(t),
           NEW k \in 0 .. (Rec(t).size - 1), NEW b, b = Plus(Rec(t).addr, k),
           PrivateByte(client, t, b)
    PROVE  /\ MarkedAt(t) = k /\ client.name # "redspy" =>
                CellAt(b).mark = MarkAfter(client, t, Prev(client, t, RecMoment(t), b), b)
           /\ StampedAt(t) = k =>
                ((client.name = "deadspy" => Prev(client, t, RecMoment(t), b) \in Writes(client, t, b)) =>
                    CellAt(b).ctxt = CtxtAfter(t, Prev(client, t, RecMoment(t), b)))
<1>1. b \in Addr /\ LastPast(client, t, Done(t), queue[t], k, b) = Prev(client, t, RecMoment(t), b)
    BY OneByteOn
<1>2. Todo(t) = queue[t]
    BY FirstIsRec
<1>3. /\ MarkedAt(t) = k => MarkNow(t, b) = Prev(client, t, RecMoment(t), b)
      /\ StampedAt(t) = k => StampNow(t, b) = Prev(client, t, RecMoment(t), b)
    BY <1>1, <1>2 DEF MarkNow, StampNow
<1> QED
    BY <1>1, <1>3 DEF MarksOK, MarkOK, CtxtsOK, CtxtOK

(* deadspy's mark says whether the byte is wasted. *)
LEMMA MarkSays ==
    ASSUME NEW t \in Thread, AtRecord(t), Rec(t).kind \in Acting(client), MarksOK(t), CtxtsOK(t),
           NEW k \in 0 .. (Rec(t).size - 1), NEW b, b = Plus(Rec(t).addr, k),
           PrivateByte(client, t, b), MarkedAt(t) = k, client.name = "deadspy"
    PROVE  /\ CellAt(b).mark = WriteAction <=> Wastes(client, t, RecMoment(t), b)
           /\ StampedAt(t) = k /\ Wastes(client, t, RecMoment(t), b) =>
                CellAt(b).ctxt = CtxtAfter(t, Prev(client, t, RecMoment(t), b))
<1>1. CellAt(b).mark = MarkAfter(client, t, Prev(client, t, RecMoment(t), b), b)
    BY CellOfByte
<1>2. Wastes(client, t, RecMoment(t), b) <=> Prev(client, t, RecMoment(t), b) \in Writes(client, t, b)
    BY DEF Wastes
<1>3. WriteAction # ReadAction
    BY DEF WriteAction, ReadAction
<1>4. StampedAt(t) = k /\ Prev(client, t, RecMoment(t), b) \in Writes(client, t, b) =>
          CellAt(b).ctxt = CtxtAfter(t, Prev(client, t, RecMoment(t), b))
    BY CellOfByte
<1> QED
    BY <1>1, <1>2, <1>3, <1>4 DEF MarkAfter

(* A write that is done leaves deadspy's mark. *)
LEMMA MarkOfMoment ==
    ASSUME NEW t \in Thread, AtRecord(t), Rec(t).kind \in Acting(client),
           NEW k \in 0 .. (Rec(t).size - 1), NEW b, b = Plus(Rec(t).addr, k), client.name = "deadspy"
    PROVE  /\ Rec(t).kind = Before <=> RecMoment(t) \in Writes(client, t, b)
           /\ MarkAfter(client, t, RecMoment(t), b) = IF Rec(t).kind = Before THEN WriteAction ELSE ReadAction
<1>1. client \in Clients /\ Rec(t) \in Record /\ Fits(client, t, Done(t), Rec(t))
      /\ RecMoment(t) = Moment(client, Rec(t).ctxt[2], Rec(t).kind)
    BY FirstIsRec DEF RecMoment, MomentOf
<1>2. b \in BytesFrom(Rec(t), 0)
    BY <1>1, RecordHas, BytesOfRecord
<1>3. b \in BytesOf(Accesses(client, t, Rec(t).ctxt[2], Rec(t).kind)) /\ Rec(t).ctxt[2] \in Places(client, t)
    BY <1>1, <1>2, RecordFits DEF AtRecord
<1>4. {Before} \in SUBSET Acting(client)
    BY DEF Acting
<1>5. Rec(t).kind = Before => RecMoment(t) \in Writes(client, t, b)
    BY <1>1, <1>3, MomentsHave DEF Writes
<1>6. RecMoment(t) \in Writes(client, t, b) => Rec(t).kind = Before
    BY <1>1, <1>3, <1>4, MomentOfByte DEF Writes
<1> QED
    BY <1>5, <1>6 DEF MarkAfter

-----------------------------------------------------------------------------
(* A step in a record, put together from its parts.                        *)

LEMMA PassesDiffer ==
    /\ Reading \notin {Testing, Setting, "none", "end", "report", "stamp", "compare", "copy"}
    /\ Testing \notin {Setting, "none", "end", "report", "stamp", "compare", "copy"}
    /\ Setting \notin {"none", "end", "report", "stamp", "compare", "copy"}
BY Zenon DEF Reading, Testing, Setting

LEMMA CountersAre ==
    ASSUME NEW c, NEW n, NEW size
    PROVE  /\ \A p \in {Reading, Testing, Setting} :
                Marked(c, p, n, size) = n /\ Stamped(p, n, size) = n /\ Reviewed(p, n, size) = n
           /\ Marked(c, "none", n, size) = 0 /\ Marked(c, "compare", n, size) = 0
           /\ Marked(c, "copy", n, size) = n /\ Marked(c, "end", n, size) = size
           /\ Marked(c, "report", n, size) = (IF c.name = "deadspy" THEN n ELSE size)
           /\ Marked(c, "stamp", n, size) = (IF c.name = "deadspy" THEN n + 1 ELSE size)
           /\ Stamped("none", n, size) = 0 /\ Reviewed("none", n, size) = 0
           /\ Stamped("compare", n, size) = 0 /\ Reviewed("compare", n, size) = 0
           /\ Stamped("copy", n, size) = 0 /\ Reviewed("copy", n, size) = 0
           /\ Stamped("report", n, size) = n /\ Reviewed("report", n, size) = n
           /\ Stamped("stamp", n, size) = n /\ Reviewed("stamp", n, size) = n + 1
           /\ Stamped("end", n, size) = size /\ Reviewed("end", n, size) = size
<1>1. \A p \in {Reading, Testing, Setting} :
          Marked(c, p, n, size) = n /\ Stamped(p, n, size) = n /\ Reviewed(p, n, size) = n
    BY PassesDiffer DEF Marked, Stamped, Reviewed
<1> QED
    BY <1>1 DEF Marked, Stamped, Reviewed

(* The same record. *)
LEMMA RecSame ==
    ASSUME NEW t \in Thread, client' = client, queue'[t] = queue[t]
    PROVE  /\ Rec(t)' = Rec(t) /\ RecMoment(t)' = RecMoment(t)
           /\ PrivateRec(t)' = PrivateRec(t) /\ Byte(t)' = Plus(Rec(t).addr, nth'[t])
           /\ JudgedKind(client)' = JudgedKind(client)
<1>1. Rec(t)' = Rec(t)
    BY DEF Rec
<1> QED
    BY <1>1 DEF RecMoment, PrivateRec, Byte

LEMMA NextByteDoes ==
    ASSUME RecordsOK, TallyOK, NEW t \in Thread, NEW p, p # "none", NEW e, NextByte(t, p, e)
    PROVE  /\ nth[t] + 1 < Rec(t).size =>
                pass'[t] = p /\ nth'[t] = nth[t] + 1 /\ queue'[t] = queue[t]
           /\ ~ (nth[t] + 1 < Rec(t).size) =>
                pass'[t] = e /\ nth'[t] = 0
                /\ queue'[t] = IF e = "none" THEN Tail(queue[t]) ELSE queue[t]
           /\ fetched'[t] => OnOnePage(Rec(t))
<1>1. CASE nth[t] + 1 < Rec(t).size
    <2>1. pass' = [pass EXCEPT ![t] = p] /\ nth' = [nth EXCEPT ![t] = @ + 1] /\ queue' = queue
          /\ fetched' = [fetched EXCEPT ![t] = OnOnePage(Rec(t)) /\ p # "none"]
        BY <1>1 DEF NextByte
    <2> QED
        BY <1>1, <2>1 DEF RecordsOK, TallyOK
<1>2. CASE ~ (nth[t] + 1 < Rec(t).size)
    <2>1. /\ pass' = [pass EXCEPT ![t] = e] /\ nth' = [nth EXCEPT ![t] = 0]
          /\ fetched' = [fetched EXCEPT ![t] = OnOnePage(Rec(t)) /\ e # "none"]
          /\ queue' = IF e = "none" THEN [queue EXCEPT ![t] = Tail(queue[t])] ELSE queue
        BY <1>2 DEF NextByte, RecordsOK
    <2> QED
        BY <1>2, <2>1 DEF RecordsOK, TallyOK
<1> QED
    BY <1>1, <1>2

(* What a step of a thread in its own record leaves alone. *)
Inside(t) ==
    /\ client' = client /\ ip' = ip /\ called' = called /\ buffer' = buffer /\ mem' = mem

LEMMA StayProgress ==
    ASSUME NEW t \in Thread, Inside(t), queue'[t] = queue[t]
    PROVE  Progress(t, Marked(client, pass'[t], nth'[t], Rec(t).size),
                       Stamped(pass'[t], nth'[t], Rec(t).size), Reviewed(pass'[t], nth'[t], Rec(t).size))
<1>1. Rec(t)' = Rec(t)
    BY RecSame DEF Inside
<1> QED
    BY <1>1 DEF Progress, Inside, MarkedAt, StampedAt, ReviewedAt

LEMMA NextByteProgress ==
    ASSUME RecordsOK, TallyOK, NEW t \in Thread, Inside(t), pass[t] \notin {"none", "end"},
           NEW p, p # "none", NEW e, NextByte(t, p, e), NEW y, NEW z, NEW w,
           nth[t] + 1 < Rec(t).size =>
                /\ y = Marked(client, p, nth[t] + 1, Rec(t).size)
                /\ z = Stamped(p, nth[t] + 1, Rec(t).size)
                /\ w = Reviewed(p, nth[t] + 1, Rec(t).size),
           nth[t] + 1 = Rec(t).size =>
                IF e = "none" THEN y = Rec(t).size /\ z = Rec(t).size /\ w = Rec(t).size
                ELSE /\ y = Marked(client, e, 0, Rec(t).size)
                     /\ z = Stamped(e, 0, Rec(t).size)
                     /\ w = Reviewed(e, 0, Rec(t).size)
    PROVE  Progress(t, y, z, w)
<1>1. nth[t] \in Nat /\ Rec(t).size \in Nat /\ nth[t] < Rec(t).size
    <2>1. InRecord(t) /\ nth[t] \in Nat
        BY DEF RecordsOK
    <2>2. queue[t] # <<>>
        BY <2>1 DEF InRecord
    <2> QED
        BY <2>1, <2>2, RecOfQueue DEF InRecord
<1>2. CASE nth[t] + 1 < Rec(t).size
    <2>1. pass'[t] = p /\ nth'[t] = nth[t] + 1 /\ queue'[t] = queue[t]
        BY <1>2, NextByteDoes
    <2> QED
        BY <1>2, <2>1, StayProgress
<1>3. CASE nth[t] + 1 = Rec(t).size
    <2>1. pass'[t] = e /\ nth'[t] = 0 /\ queue'[t] = IF e = "none" THEN Tail(queue[t]) ELSE queue[t]
        BY <1>1, <1>3, NextByteDoes
    <2>2. CASE e = "none"
        BY <1>3, <2>1, <2>2 DEF Progress, Inside
    <2>3. CASE e # "none"
        BY <1>3, <2>1, <2>3, StayProgress
    <2> QED
        BY <2>2, <2>3
<1> QED
    BY <1>1, <1>2, <1>3

(* A thread that is in no record. *)
LEMMA NoPass ==
    ASSUME NEW t \in Thread, pass'[t] = "none"
    PROVE  KindOK(t)' /\ PassOK(t)' /\ MissOK(t)'
BY PassesDiffer DEF KindOK, PassOK, MissOK

LEMMA HasRecord ==
    ASSUME RecordsOK, NEW t \in Thread, Placed(t), ThreadOK(t), queue[t] # <<>>
    PROVE  /\ AtRecord(t) /\ MarksOK(t) /\ CtxtsOK(t) /\ ValuesOK(t) /\ KindOK(t) /\ PassOK(t)
           /\ MissOK(t) /\ NaiveOK(t) /\ CountOK(t) /\ SlotsOK(t)
<1>1. Done(t) \in Nat
    BY DEF Placed, Done, RecordsOK
<1>2. Todo(t) = queue[t]
    BY DEF Todo
<1>3. AtRecord(t)
    BY <1>1, <1>2 DEF ThreadOK, AtRecord
<1>4. MarksOK(t) /\ CtxtsOK(t) /\ ValuesOK(t)
    BY DEF ThreadOK, BytesOK, MarksOK, CtxtsOK, ValuesOK
<1> QED
    BY <1>3, <1>4 DEF ThreadOK

LEMMA ThreadKept ==
    ASSUME NEW t \in Thread, AtRecord(t), Inside(t), NEW y, NEW z, NEW w, Progress(t, y, z, w),
           ValuesOK(t), NaiveOK(t), MarksOK(t)', CtxtsOK(t)', KindOK(t)', PassOK(t)', MissOK(t)',
           CountOK(t)', SlotsOK(t)'
    PROVE  ThreadOK(t)'
<1>1. /\ Done(t)' = Done(t) /\ HeldOnce(t)' /\ Todo(t)' = queue'[t]
      /\ QueueOK(client, t, Done(t), queue'[t])
    BY NowAfter
<1>2. client' = client /\ QueueOK(client, t, Done(t), Todo(t))'
    BY <1>1 DEF Inside
<1>3. ValuesOK(t)'
    BY DEF ValuesOK, ValueOK, Inside
<1>4. BytesOK(t)'
    BY <1>3 DEF BytesOK, MarksOK, CtxtsOK, ValuesOK
<1>5. NaiveOK(t)'
    <2>1. queue'[t] = queue[t] \/ queue'[t] = Tail(queue[t])
        BY DEF Progress
    <2>2. queue[t] \in Seq(Record) /\ queue[t] # <<>>
        BY FirstIsRec
    <2>3. \A n \in DOMAIN Tail(queue[t]) : n + 1 \in DOMAIN queue[t] /\ Tail(queue[t])[n] = queue[t][n + 1]
        <3> DEFINE q == queue[t]
        <3>1. q \in Seq(Record) /\ q # <<>>
            BY <2>2
        <3> HIDE DEF q
        <3>2. \A n \in DOMAIN Tail(q) : n + 1 \in DOMAIN q /\ Tail(q)[n] = q[n + 1]
            BY <3>1
        <3> QED
            BY <3>2 DEF q
    <2>4. CASE queue'[t] = queue[t]
        BY <2>4 DEF NaiveOK, Inside
    <2>5. CASE queue'[t] = Tail(queue[t])
        <3>1. ASSUME client.naive, NEW n \in DOMAIN Tail(queue[t])
              PROVE  Tail(queue[t])[n].ctxt[2] = ip[t]
            BY <2>3, <3>1 DEF NaiveOK
        <3> QED
            BY <2>5, <3>1 DEF NaiveOK, Inside
    <2> QED
        BY <2>1, <2>4, <2>5
<1> QED
    BY <1>1, <1>2, <1>4, <1>5 DEF ThreadOK

-----------------------------------------------------------------------------
(* The steps in a record of deadspy, and those that touch no counter.      *)

LEMMA NotRedspy ==
    ASSUME NEW t \in Thread, client.name # "redspy", client' = client
    PROVE  SlotsOK(t)'
BY DEF SlotsOK

(* The record stays, and nothing of it is done. *)
LEMMA StayKept ==
    ASSUME RecordsOK, NEW t \in Thread, Placed(t), ThreadOK(t), queue[t] # <<>>, Inside(t), CellsKept,
           queue'[t] = queue[t], found'[t] = found[t],
           Marked(client, pass'[t], nth'[t], Rec(t).size) = MarkedAt(t),
           Stamped(pass'[t], nth'[t], Rec(t).size) = StampedAt(t),
           Reviewed(pass'[t], nth'[t], Rec(t).size) = ReviewedAt(t),
           KindOK(t)', PassOK(t)', MissOK(t)', SlotsOK(t)'
    PROVE  ThreadOK(t)'
<1> DEFINE y == MarkedAt(t)
           z == StampedAt(t)
           w == ReviewedAt(t)
<1>1. /\ AtRecord(t) /\ MarksOK(t) /\ CtxtsOK(t) /\ ValuesOK(t) /\ NaiveOK(t) /\ CountOK(t)
    BY HasRecord
<1>2. Progress(t, y, z, w)
    BY StayProgress
<1>3. /\ \A a \in Addr : CellAt(a)'.mark = CellAt(a).mark
      /\ \A a \in Addr : CellAt(a)'.ctxt = CellAt(a).ctxt
    BY DEF CellsKept
<1> HIDE DEF y, z, w
<1>4. MarksOK(t)'
    BY <1>1, <1>2, <1>3, MarksStay DEF y
<1>5. CtxtsOK(t)'
    BY <1>1, <1>2, <1>3, CtxtsStay DEF z
<1>6. CountOK(t)'
    BY <1>1, <1>2, CountsStay DEF w
<1> QED
    BY <1>1, <1>2, <1>4, <1>5, <1>6, ThreadKept

LEMMA SameMemory ==
    ASSUME memory' = memory PROVE CellsKept
BY DEF memory, CellsKept, CellAt

(* A record is begun. *)
LEMMA TakeKept ==
    ASSUME RecordsOK, TallyOK, NEW t \in Thread, Placed(t), ThreadOK(t),
           TakeDeadspyRead(t) \/ TakeDeadspyWrite(t) \/ TakeLoadspyRead(t)
    PROVE  ThreadOK(t)'
<1>1. /\ queue[t] # <<>> /\ pass[t] = "none" /\ Inside(t) /\ memory' = memory
      /\ queue' = queue /\ found' = found
      /\ client.name = "deadspy" \/ client.name = "loadspy"
    BY DEF TakeDeadspyRead, TakeDeadspyWrite, TakeLoadspyRead, Taking, Inside, program, tally
<1>2. /\ nth'[t] = 0 /\ ~ fetched'[t]
      /\ \/ client.name = "deadspy" /\ pass'[t] = Reading /\ Rec(t).kind = Read
         \/ client.name = "deadspy" /\ pass'[t] = Testing /\ Rec(t).kind = Before
         \/ client.name = "loadspy" /\ pass'[t] = "compare" /\ Rec(t).kind = Read
    <2>1. CASE TakeDeadspyRead(t)
        <3>1. Begin(t, Reading) /\ Rec(t).kind = Read /\ client.name = "deadspy"
            BY <2>1, Zenon DEF TakeDeadspyRead, Taking, Reading, Read
        <3> QED
            BY <3>1 DEF Begin, RecordsOK, TallyOK
    <2>2. CASE TakeDeadspyWrite(t)
        <3>1. Begin(t, Testing) /\ Rec(t).kind = Before /\ client.name = "deadspy"
            BY <2>2, Zenon DEF TakeDeadspyWrite, Taking, Testing, Before
        <3> QED
            BY <3>1 DEF Begin, RecordsOK, TallyOK
    <2>3. CASE TakeLoadspyRead(t)
        <3>1. Begin(t, "compare") /\ Rec(t).kind = Read /\ client.name = "loadspy"
            BY <2>3, Zenon DEF TakeLoadspyRead, Taking, Read
        <3> QED
            BY <3>1 DEF Begin, RecordsOK, TallyOK
    <2> QED
        BY <2>1, <2>2, <2>3
<1>3. MarkedAt(t) = 0 /\ StampedAt(t) = 0 /\ ReviewedAt(t) = 0
    BY <1>1, CountersAre DEF MarkedAt, StampedAt, ReviewedAt
<1>4. /\ Marked(client, pass'[t], nth'[t], Rec(t).size) = 0
      /\ Stamped(pass'[t], nth'[t], Rec(t).size) = 0
      /\ Reviewed(pass'[t], nth'[t], Rec(t).size) = 0
    BY <1>2, CountersAre
<1>5. Rec(t)' = Rec(t) /\ client' = client /\ JudgedKind(client)' = JudgedKind(client)
    BY <1>1, RecSame DEF Inside
<1>6. KindOK(t)'
    BY <1>2, <1>5, PassesDiffer DEF KindOK, JudgedKind
<1>7. PassOK(t)'
    <2>1. nth'[t] - 1 = -1 /\ 0 .. (nth'[t] - 1) = {}
        BY <1>2
    <2> QED
        BY <1>2, <1>5, <2>1, PassesDiffer DEF PassOK
<1>8. MissOK(t)'
    BY <1>2 DEF MissOK
<1>9. SlotsOK(t)'
    BY <1>1, <1>5, NotRedspy
<1> QED
    BY <1>1, <1>3, <1>4, <1>6, <1>7, <1>8, <1>9, StayKept, SameMemory

(* A look-up begins and goes on. *)
LEMMA LookupKept ==
    ASSUME IInv, RecordsOK, TallyOK, NEW t \in Thread, Placed(t), ThreadOK(t), queue[t] # <<>>,
           StartLookup(t) \/ Advance(t)
    PROVE  ThreadOK(t)'
<1>1. /\ Inside(t) /\ queue' = queue /\ found' = found /\ pass' = pass /\ nth' = nth /\ same' = same
      /\ UNCHANGED <<slot, slotNum, readIndex>>
    BY DEF StartLookup, Advance, Inside, program, tally, applying, slotting
<1>2. CellsKept
    <2>1. CASE StartLookup(t)
        <3>1. BaseOf(Byte(t)) \in Base
            BY <2>1, ByteInAddr DEF StartLookup
        <3>2. \E b \in Base, c \in BOOLEAN : Ask(t, b, c)
            BY <2>1, <3>1 DEF StartLookup
        <3> QED
            BY <3>2, StepKeepsCells
    <2>2. CASE Advance(t)
        BY <2>2, StepKeepsCells DEF Advance
    <2> QED
        BY <2>1, <2>2
<1>3. /\ Rec(t)' = Rec(t) /\ RecMoment(t)' = RecMoment(t) /\ PrivateRec(t)' = PrivateRec(t)
      /\ Byte(t)' = Byte(t) /\ client' = client /\ JudgedKind(client)' = JudgedKind(client)
    BY <1>1, RecSame DEF Inside, Byte
<1>4. KindOK(t) /\ PassOK(t) /\ MissOK(t) /\ SlotsOK(t)
    BY HasRecord
<1>5. KindOK(t)' /\ PassOK(t)'
    BY <1>1, <1>3, <1>4 DEF KindOK, PassOK
<1>6. SlotsOK(t)'
    <2>1. Todo(t)' = Todo(t)
        BY <1>1 DEF Todo, Inside
    <2> QED
        BY <1>1, <1>3, <1>4, <2>1 DEF SlotsOK
<1>7. MissOK(t)'
    <2>1. CASE StartLookup(t)
        <3>1. step' = [step EXCEPT ![t] = "load dir"] /\ at' = [at EXCEPT ![t] = BaseOf(Byte(t))]
            BY <2>1, Zenon DEF StartLookup, Ask
        <3>2. at'[t] = BaseOf(Byte(t))
            BY <3>1 DEF IInv, ShadowTypeOK
        <3>3. step'[t] # "missed"
            <4>1. DOMAIN step = Thread
                BY DEF IInv, ShadowTypeOK
            <4> DEFINE s == "load dir"
            <4>2. s # "missed"
                BY Zenon
            <4>3. step' = [step EXCEPT ![t] = s]
                BY <3>1
            <4> HIDE DEF s
            <4> QED
                BY <4>1, <4>2, <4>3
        <3> QED
            BY <1>3, <3>2, <3>3 DEF MissOK
    <2>2. CASE Advance(t)
        <3>1. /\ at' = at /\ fetched' = fetched
              /\ step'[t] = "missed" => \A a \in Addr : BaseOf(a) = at[t] => CellAt(a) = Zero
            BY <2>2, MissSaysZero DEF Advance, applying
        <3>2. ASSUME pass[t] = Reading, fetched[t], step'[t] = "missed"
              PROVE  CellAt(Byte(t))'.mark = ReadAction
            <4>1. Byte(t) \in Addr /\ BaseOf(Byte(t)) = at[t]
                BY <1>4, <3>2, ByteInAddr, PassesDiffer DEF MissOK
            <4>2. CellAt(Byte(t)) = Zero
                BY <3>1, <3>2, <4>1
            <4>3. CellAt(Byte(t))' = Zero
                <5> DEFINE b == Byte(t)
                <5>1. b \in Addr /\ CellAt(b) = Zero /\ b' = b
                    BY <1>3, <4>1, <4>2
                <5>2. PICK a \in Addr : a = b
                    BY <5>1
                <5>3. CellAt(a)' = Zero
                    BY <1>2, <5>1, <5>2 DEF CellsKept
                <5> QED
                    BY <5>1, <5>2, <5>3 DEF CellAt
            <4> QED
                BY <4>3, ZeroAssumption
        <3> QED
            BY <1>1, <1>3, <1>4, <3>1, <3>2 DEF MissOK
    <2> QED
        BY <2>1, <2>2
<1>8. /\ Marked(client, pass'[t], nth'[t], Rec(t).size) = MarkedAt(t)
      /\ Stamped(pass'[t], nth'[t], Rec(t).size) = StampedAt(t)
      /\ Reviewed(pass'[t], nth'[t], Rec(t).size) = ReviewedAt(t)
    BY <1>1 DEF MarkedAt, StampedAt, ReviewedAt
<1> QED
    BY <1>1, <1>2, <1>5, <1>6, <1>7, <1>8, StayKept

-----------------------------------------------------------------------------
(* The steps of deadspy.                                                   *)

(* What is known where a thread is at a byte. *)
AtByte(t) ==
    /\ AtRecord(t) /\ MarksOK(t) /\ CtxtsOK(t) /\ ValuesOK(t) /\ KindOK(t) /\ PassOK(t)
    /\ MissOK(t) /\ NaiveOK(t) /\ CountOK(t) /\ SlotsOK(t)
    /\ client \in Clients /\ Rec(t) \in Record /\ Fits(client, t, Done(t), Rec(t))
    /\ Byte(t) \in Addr /\ Byte(t) = Plus(Rec(t).addr, nth[t])
    /\ nth[t] \in 0 .. (Rec(t).size - 1) /\ Rec(t).size \in Nat /\ nth[t] \in Nat
    /\ Done(t) \in Nat

LEMMA InByte ==
    ASSUME RecordsOK, NEW t \in Thread, Placed(t), ThreadOK(t), pass[t] \notin {"none", "end"}
    PROVE  AtByte(t) /\ queue[t] # <<>>
<1>1. queue[t] # <<>>
    BY DEF RecordsOK, InRecord
<1>2. /\ AtRecord(t) /\ MarksOK(t) /\ CtxtsOK(t) /\ ValuesOK(t) /\ KindOK(t) /\ PassOK(t)
      /\ MissOK(t) /\ NaiveOK(t) /\ CountOK(t) /\ SlotsOK(t)
    BY <1>1, HasRecord
<1>3. client \in Clients /\ Rec(t) \in Record /\ Fits(client, t, Done(t), Rec(t)) /\ Done(t) \in Nat
    BY <1>2, FirstIsRec DEF AtRecord
<1>4. Byte(t) \in Addr /\ nth[t] \in 0 .. (Rec(t).size - 1) /\ Byte(t) = Plus(Rec(t).addr, nth[t])
    BY ByteInAddr DEF Byte
<1>5. Rec(t).size \in Nat /\ nth[t] \in Nat
    BY <1>1, RecOfQueue DEF RecordsOK
<1> QED
    BY <1>1, <1>2, <1>3, <1>4, <1>5 DEF AtByte

LEMMA MarkReadDoes ==
    ASSUME NEW t \in Thread, MarkRead(t) \/ SkipRead(t)
    PROVE  /\ pass[t] = Reading /\ fetched[t] /\ NextByte(t, Reading, "none")
           /\ Inside(t) /\ found' = found
           /\ Store(t, "mark", ReadAction) \/ (memory' = memory /\ step[t] = "missed")
<1>1. CASE MarkRead(t)
    BY <1>1, Zenon DEF MarkRead, At, Inside, program, tally, Reading
<1>2. CASE SkipRead(t)
    BY <1>2, Zenon DEF SkipRead, At, Inside, program, tally, Reading
<1> QED
    BY <1>1, <1>2

LEMMA MarkReadKept ==
    ASSUME IInv, RecordsOK, TallyOK, NEW t \in Thread, Placed(t), ThreadOK(t),
           MarkRead(t) \/ SkipRead(t)
    PROVE  ThreadOK(t)'
<1> DEFINE n == nth[t]
           b == Byte(t)
<1>1. /\ pass[t] = Reading /\ fetched[t] /\ NextByte(t, Reading, "none") /\ Inside(t) /\ found' = found
    BY MarkReadDoes
<1>2. AtByte(t) /\ queue[t] # <<>>
    BY <1>1, InByte, PassesDiffer
<1>3. /\ client.name = "deadspy" /\ Rec(t).kind = Read /\ Rec(t).kind # Before
      /\ Rec(t).kind \in Acting(client) /\ Rec(t).kind # JudgedKind(client)
    BY <1>1, <1>2, KindsDiffer DEF AtByte, KindOK, Acting, JudgedKind
<1>4. MarkedAt(t) = n /\ StampedAt(t) = n /\ ReviewedAt(t) = n
    BY <1>1, CountersAre DEF MarkedAt, StampedAt, ReviewedAt
<1>5. Progress(t, n + 1, n + 1, n + 1)
    <2>1. /\ Marked(client, Reading, n + 1, Rec(t).size) = n + 1
          /\ Stamped(Reading, n + 1, Rec(t).size) = n + 1
          /\ Reviewed(Reading, n + 1, Rec(t).size) = n + 1
        BY CountersAre
    <2> QED
        BY <1>1, <2>1, NextByteProgress, PassesDiffer
<1>6. /\ \A a \in Addr : a # b => CellAt(a)' = CellAt(a)
      /\ \A a \in Addr : CellAt(a)'.ctxt = CellAt(a).ctxt
      /\ PrivateByte(client, t, b) => \A a \in Addr : a = b => CellAt(a)'.mark = ReadAction
    <2>1. CASE Store(t, "mark", ReadAction)
        <3>1. \A c \in Cell : [c EXCEPT !.mark = ReadAction] \in Cell
            BY CellAssumption
        <3> QED
            BY <1>1, <2>1, <3>1, MarkMoves, PassesDiffer
    <2>2. CASE memory' = memory /\ step[t] = "missed"
        <3>1. CellsKept
            BY <2>2, SameMemory
        <3>2. PrivateByte(client, t, b) => CellAt(b).mark = ReadAction
            BY <1>1, <1>2, <2>2 DEF AtByte, MissOK
        <3> QED
            BY <3>1, <3>2 DEF CellsKept
    <2> QED
        BY <2>1, <2>2, MarkReadDoes
<1>7. MarkAfter(client, t, RecMoment(t), b) = ReadAction /\ RecMoment(t) \notin Writes(client, t, b)
    BY <1>2, <1>3, MarkOfMoment DEF AtByte
<1> HIDE DEF n, b
<1>8. PICK d \in Addr : d = b
    BY <1>2 DEF AtByte, b
<1>9. MarksOK(t)'
    <2>1. PrivateByte(client, t, d) => CellAt(d)'.mark = MarkAfter(client, t, RecMoment(t), d)
        BY <1>6, <1>7, <1>8
    <2>2. \A a \in Addr : a # Byte(t) => CellAt(a)'.mark = CellAt(a).mark
        BY <1>6 DEF b
    <2>3. AtRecord(t) /\ MarksOK(t) /\ nth[t] \in 0 .. (Rec(t).size - 1) /\ MarkedAt(t) = nth[t]
          /\ n + 1 = nth[t] + 1 /\ d = Byte(t)
        BY <1>2, <1>4, <1>8 DEF AtByte, n, b
    <2> QED
        BY <1>3, <1>5, <2>1, <2>2, <2>3, MarkOfByte
<1>10. CtxtsOK(t)'
    <2>1. \A a \in Addr : a # Byte(t) => CellAt(a)'.ctxt = CellAt(a).ctxt
        BY <1>6 DEF b
    <2>2. AtRecord(t) /\ CtxtsOK(t) /\ nth[t] \in 0 .. (Rec(t).size - 1) /\ StampedAt(t) = nth[t]
          /\ n + 1 = nth[t] + 1 /\ d = Byte(t)
        BY <1>2, <1>4, <1>8 DEF AtByte, n, b
    <2>3. (client.name = "deadspy" => RecMoment(t) \in Writes(client, t, d)) =>
               CellAt(d)'.ctxt = CtxtAfter(t, RecMoment(t))
        BY <1>3, <1>7, <1>8
    <2> QED
        BY <1>3, <1>5, <2>1, <2>2, <2>3, CtxtOfByte
<1>11. CountOK(t)'
    <2>1. /\ AtRecord(t) /\ CountOK(t) /\ n \in 0 .. (Rec(t).size - 1) /\ n = ReviewedAt(t)
          /\ d = Plus(Rec(t).addr, n)
        BY <1>2, <1>4, <1>8 DEF AtByte, n, b
    <2> QED
        BY <1>1, <1>3, <1>5, <2>1, CountsSkip
<1>12. KindOK(t)' /\ PassOK(t)' /\ MissOK(t)'
    <2>1. CASE pass'[t] = "none"
        BY <2>1, NoPass
    <2>2. CASE pass'[t] # "none"
        <3>1. pass'[t] = Reading /\ queue'[t] = queue[t] /\ ~ fetched'[t]
            BY <1>1, <1>3, <2>2, NextByteDoes, PassesDiffer DEF OnOnePage
        <3>2. Rec(t)' = Rec(t) /\ client' = client /\ JudgedKind(client)' = JudgedKind(client)
            BY <1>1, <3>1, RecSame DEF Inside
        <3> QED
            BY <1>3, <3>1, <3>2, PassesDiffer DEF KindOK, PassOK, MissOK
    <2> QED
        BY <2>1, <2>2
<1>13. SlotsOK(t)'
    BY <1>1, <1>3, NotRedspy DEF Inside
<1> QED
    BY <1>1, <1>2, <1>5, <1>9, <1>10, <1>11, <1>12, <1>13, ThreadKept DEF AtByte

(* The mark is tested. *)
LEMMA TestMarkDoes ==
    ASSUME NEW t \in Thread, TestMark(t)
    PROVE  /\ pass[t] = Testing /\ ReadCell(t, Byte(t)) /\ Inside(t) /\ found' = found
           /\ Turn(t, IF seen'[t].mark = WriteAction THEN "report" ELSE Setting)
BY Zenon DEF TestMark, At, Inside, program, tally, Testing, Setting

LEMMA TestMarkKept ==
    ASSUME IInv, RecordsOK, TallyOK, NEW t \in Thread, Placed(t), ThreadOK(t), TestMark(t)
    PROVE  ThreadOK(t)'
<1> DEFINE b == Byte(t)
<1>1. /\ pass[t] = Testing /\ ReadCell(t, Byte(t)) /\ Inside(t) /\ found' = found
      /\ Turn(t, IF seen'[t].mark = WriteAction THEN "report" ELSE Setting)
    BY TestMarkDoes
<1>2. AtByte(t) /\ queue[t] # <<>>
    BY <1>1, InByte, PassesDiffer
<1>3. /\ client.name = "deadspy" /\ Rec(t).kind = Before /\ Rec(t).kind \in Acting(client)
      /\ Rec(t).kind = JudgedKind(client)
    BY <1>1, <1>2, PassesDiffer DEF AtByte, KindOK, Acting, JudgedKind
<1>4. MarkedAt(t) = nth[t] /\ StampedAt(t) = nth[t] /\ ReviewedAt(t) = nth[t]
    BY <1>1, CountersAre DEF MarkedAt, StampedAt, ReviewedAt
<1>5. seen'[t] = CellAt(Byte(t)) /\ CellsKept
    BY <1>1, ReadSees, PassesDiffer
<1>6. queue'[t] = queue[t] /\ nth'[t] = nth[t]
      /\ pass'[t] = IF CellAt(Byte(t)).mark = WriteAction THEN "report" ELSE Setting
    BY <1>1, <1>5 DEF Turn, RecordsOK
<1>7. /\ Marked(client, pass'[t], nth'[t], Rec(t).size) = MarkedAt(t)
      /\ Stamped(pass'[t], nth'[t], Rec(t).size) = StampedAt(t)
      /\ Reviewed(pass'[t], nth'[t], Rec(t).size) = ReviewedAt(t)
    BY <1>3, <1>4, <1>6, CountersAre
<1>8. /\ Rec(t)' = Rec(t) /\ RecMoment(t)' = RecMoment(t) /\ PrivateRec(t)' = PrivateRec(t)
      /\ Byte(t)' = Byte(t) /\ client' = client /\ JudgedKind(client)' = JudgedKind(client)
    BY <1>1, <1>6, RecSame DEF Inside, Byte
<1>9. KindOK(t)' /\ MissOK(t)'
    BY <1>3, <1>6, <1>8, PassesDiffer DEF KindOK, MissOK
<1>10. PassOK(t)'
    <2>1. ASSUME PrivateByte(client, t, Byte(t))
          PROVE  CellAt(Byte(t)).mark = WriteAction <=> Wastes(client, t, RecMoment(t), Byte(t))
        BY <1>2, <1>3, <1>4, <2>1, MarkSays DEF AtByte
    <2>2. pass'[t] \in {"report", Setting}
        BY <1>6
    <2>3. /\ Wastes(client, t, RecMoment(t), Byte(t))' = Wastes(client, t, RecMoment(t), Byte(t))
          /\ PrivateByte(client, t, Byte(t))' = PrivateByte(client, t, Byte(t))
        BY <1>8
    <2> QED
        BY <1>3, <1>6, <1>8, <2>1, <2>2, <2>3, PassesDiffer DEF PassOK
<1>11. SlotsOK(t)'
    BY <1>3, <1>8, NotRedspy
<1> QED
    BY <1>1, <1>2, <1>5, <1>6, <1>7, <1>9, <1>10, <1>11, StayKept

-----------------------------------------------------------------------------
(* The mark is set, the byte is reported, and its context is replaced.      *)

LEMMA SlotsStay ==
    ASSUME NEW t \in Thread, AtRecord(t), Inside(t), queue'[t] = queue[t], SlotsOK(t),
           UNCHANGED <<slot, slotNum, readIndex>>
    PROVE  SlotsOK(t)'
<1>1. Todo(t)' = Todo(t) /\ client' = client
    BY DEF Todo, Inside
<1> QED
    BY <1>1 DEF SlotsOK

(* A private byte of which a record does not speak for waste. *)
LEMMA NoWaste ==
    ASSUME NEW t \in Thread, AtByte(t), OperandsApart, Rec(t).kind = JudgedKind(client),
           NEW k \in 0 .. (Rec(t).size - 1), NEW b, b = Plus(Rec(t).addr, k),
           ~ RecWastes(client, t, Rec(t), b)
    PROVE  \A i : b \notin WasteOf(client, t, i, Rec(t).ctxt[2])
BY WasteOfByte DEF AtByte

LEMMA SetMarkDoes ==
    ASSUME NEW t \in Thread, SetMark(t)
    PROVE  /\ pass[t] = Setting /\ Inside(t) /\ found' = found
           /\ Store(t, "mark", WriteAction) /\ Turn(t, "stamp")
BY Zenon DEF SetMark, At, Inside, program, tally, Setting

LEMMA SetMarkKept ==
    ASSUME IInv, RecordsOK, TallyOK, NEW t \in Thread, Placed(t), ThreadOK(t), OperandsApart, SetMark(t)
    PROVE  ThreadOK(t)'
<1> DEFINE n == nth[t]
           b == Byte(t)
<1>1. /\ pass[t] = Setting /\ Inside(t) /\ found' = found
      /\ Store(t, "mark", WriteAction) /\ Turn(t, "stamp")
    BY SetMarkDoes
<1>2. AtByte(t) /\ queue[t] # <<>>
    BY <1>1, InByte, PassesDiffer
<1>3. /\ client.name = "deadspy" /\ Rec(t).kind = Before /\ Rec(t).kind \in Acting(client)
      /\ Rec(t).kind = JudgedKind(client)
    BY <1>1, <1>2, PassesDiffer DEF AtByte, KindOK, Acting, JudgedKind
<1>4. MarkedAt(t) = n /\ StampedAt(t) = n /\ ReviewedAt(t) = n
    BY <1>1, CountersAre DEF MarkedAt, StampedAt, ReviewedAt
<1>5. queue'[t] = queue[t] /\ nth'[t] = n /\ pass'[t] = "stamp"
    BY <1>1 DEF Turn, RecordsOK
<1>6. Progress(t, n + 1, n, n + 1)
    <2>1. /\ Marked(client, "stamp", n, Rec(t).size) = n + 1
          /\ Stamped("stamp", n, Rec(t).size) = n /\ Reviewed("stamp", n, Rec(t).size) = n + 1
        BY <1>3, CountersAre
    <2> QED
        BY <1>1, <1>5, <2>1, StayProgress
<1>7. /\ \A a \in Addr : a # b => CellAt(a)' = CellAt(a)
      /\ \A a \in Addr : CellAt(a)'.ctxt = CellAt(a).ctxt
      /\ \A a \in Addr : a = b => CellAt(a)'.mark = WriteAction
    <2>1. \A c \in Cell : [c EXCEPT !.mark = WriteAction] \in Cell
        BY CellAssumption
    <2> QED
        BY <1>1, <2>1, MarkMoves, PassesDiffer
<1>8. MarkAfter(client, t, RecMoment(t), b) = WriteAction
    BY <1>2, <1>3, MarkOfMoment DEF AtByte
<1>9. PrivateByte(client, t, b) => ~ RecWastes(client, t, Rec(t), b)
    BY <1>1, <1>2, <1>3, PassesDiffer DEF AtByte, PassOK, RecWastes, RecMoment
<1> HIDE DEF n, b
<1>10. PICK d \in Addr : d = b
    BY <1>2 DEF AtByte, b
<1>11. MarksOK(t)'
    <2>1. PrivateByte(client, t, d) => CellAt(d)'.mark = MarkAfter(client, t, RecMoment(t), d)
        BY <1>7, <1>8, <1>10
    <2>2. \A a \in Addr : a # Byte(t) => CellAt(a)'.mark = CellAt(a).mark
        BY <1>7 DEF b
    <2>3. AtRecord(t) /\ MarksOK(t) /\ nth[t] \in 0 .. (Rec(t).size - 1) /\ MarkedAt(t) = nth[t]
          /\ n + 1 = nth[t] + 1 /\ d = Byte(t)
        BY <1>2, <1>4, <1>10 DEF AtByte, n, b
    <2> QED
        BY <1>3, <1>6, <2>1, <2>2, <2>3, MarkOfByte
<1>12. CtxtsOK(t)'
    <2>1. AtRecord(t) /\ CtxtsOK(t) /\ n = StampedAt(t)
        BY <1>2, <1>4 DEF AtByte
    <2> QED
        BY <1>6, <1>7, <2>1, CtxtsStay
<1>13. CountOK(t)'
    <2>1. /\ AtRecord(t) /\ CountOK(t) /\ n \in 0 .. (Rec(t).size - 1) /\ n = ReviewedAt(t)
          /\ d = Plus(Rec(t).addr, n)
        BY <1>2, <1>4, <1>10 DEF AtByte, n, b
    <2>2. ASSUME PrivateRec(t) PROVE \A i : d \notin WasteOf(client, t, i, Rec(t).ctxt[2])
        <3>1. PrivateByte(client, t, d)
            BY <1>2, <2>1, <2>2, RecordHas, BytesOfRecord DEF AtByte, PrivateRec
        <3>2. ~ RecWastes(client, t, Rec(t), d)
            BY <1>9, <1>10, <3>1
        <3> QED
            BY <1>2, <1>3, <2>1, <3>2, NoWaste
    <2> QED
        BY <1>1, <1>3, <1>6, <2>1, <2>2, CountsSkip
<1>14. Rec(t)' = Rec(t) /\ client' = client /\ JudgedKind(client)' = JudgedKind(client)
    BY <1>1, <1>5, RecSame DEF Inside
<1>15. KindOK(t)' /\ PassOK(t)' /\ MissOK(t)'
    BY <1>3, <1>5, <1>14, PassesDiffer DEF KindOK, PassOK, MissOK
<1>16. SlotsOK(t)'
    BY <1>3, <1>14, NotRedspy
<1> QED
    BY <1>1, <1>2, <1>6, <1>11, <1>12, <1>13, <1>15, <1>16, ThreadKept DEF AtByte

LEMMA ReportKept ==
    ASSUME IInv, RecordsOK, TallyOK, NEW t \in Thread, Placed(t), ThreadOK(t), OperandsApart, Report(t)
    PROVE  ThreadOK(t)'
<1> DEFINE n == nth[t]
           b == Byte(t)
           s == CellAt(Byte(t)).ctxt
           y == IF client.name = "deadspy" THEN n + 1 ELSE Rec(t).size
<1>1. /\ pass[t] = "report" /\ Inside(t) /\ ReadCell(t, Byte(t)) /\ Turn(t, "stamp")
      /\ found' = [found EXCEPT ![t] = BagAdd(@, <<seen'[t].ctxt, Rec(t).ctxt>>)]
      /\ UNCHANGED <<slot, slotNum, readIndex>>
    BY DEF Report, At, Inside, program, slotting
<1>2. AtByte(t) /\ queue[t] # <<>>
    BY <1>1, InByte
<1>3. /\ Rec(t).kind = JudgedKind(client) /\ Rec(t).kind \in Acting(client)
      /\ client.name = "deadspy" => Rec(t).kind = Before
    <2>1. Rec(t).kind = JudgedKind(client)
        BY <1>1, <1>2, PassesDiffer DEF AtByte, KindOK
    <2> QED
        BY <1>2, <2>1, JudgedActs DEF AtByte, JudgedKind
<1>4. /\ MarkedAt(t) = IF client.name = "deadspy" THEN n ELSE Rec(t).size
      /\ StampedAt(t) = n /\ ReviewedAt(t) = n
    BY <1>1, CountersAre DEF MarkedAt, StampedAt, ReviewedAt
<1>5. queue'[t] = queue[t] /\ nth'[t] = n /\ pass'[t] = "stamp" /\ same'[t] = same[t]
    BY <1>1 DEF Turn, RecordsOK
<1>6. seen'[t] = CellAt(Byte(t)) /\ CellsKept
    BY <1>1, ReadSees
<1>7. found'[t] = BagAdd(found[t], <<s, Rec(t).ctxt>>) /\ FiniteBag(found[t])
    BY <1>1, <1>6 DEF TallyOK
<1>8. Progress(t, y, n, n + 1)
    <2>1. /\ Marked(client, "stamp", n, Rec(t).size) = y
          /\ Stamped("stamp", n, Rec(t).size) = n /\ Reviewed("stamp", n, Rec(t).size) = n + 1
        BY CountersAre
    <2> HIDE DEF y
    <2> QED
        BY <1>1, <1>5, <2>1, StayProgress
<1>9. /\ \A a \in Addr : CellAt(a)'.mark = CellAt(a).mark
      /\ \A a \in Addr : CellAt(a)'.ctxt = CellAt(a).ctxt
      /\ \A a \in Addr : CellAt(a)' = CellAt(a)
    BY <1>6 DEF CellsKept
<1>10. Rec(t)' = Rec(t) /\ RecMoment(t)' = RecMoment(t) /\ client' = client
       /\ JudgedKind(client)' = JudgedKind(client) /\ PrivateRec(t)' = PrivateRec(t) /\ Byte(t)' = Byte(t)
    BY <1>1, <1>5, RecSame DEF Inside, Byte
<1>11. PrivateRec(t) => PrivateByte(client, t, b)
    BY <1>2, RecordHas, BytesOfRecord DEF AtByte, PrivateRec
(* The byte speaks for waste. *)
<1>12. /\ client.name = "deadspy" /\ PrivateByte(client, t, b) => Wastes(client, t, RecMoment(t), b)
       /\ PrivateRec(t) => RecWastes(client, t, Rec(t), b)
    <2>1. CASE client.name = "deadspy"
        BY <1>1, <1>2, <1>11, <2>1 DEF AtByte, PassOK, RecWastes, RecMoment
    <2>2. CASE client.name # "deadspy"
        BY <1>1, <1>2, <2>2 DEF AtByte, PassOK, RecWastes, RecMoment
    <2> QED
        BY <2>1, <2>2
<1>13. PrivateRec(t) => s = CtxtAfter(t, Prev(client, t, RecMoment(t), b))
    <2>1. CASE client.name = "deadspy"
        BY <1>2, <1>3, <1>4, <1>11, <1>12, <2>1, MarkSays DEF AtByte
    <2>2. CASE client.name # "deadspy"
        BY <1>2, <1>3, <1>4, <1>11, <2>2, CellOfByte DEF AtByte
    <2> QED
        BY <2>1, <2>2
<1>14. MarksOK(t)'
    <2>1. CASE client.name = "deadspy"
        <3>1. AtRecord(t) /\ MarksOK(t) /\ nth[t] \in 0 .. (Rec(t).size - 1) /\ MarkedAt(t) = nth[t]
              /\ y = nth[t] + 1
            BY <1>2, <1>4, <2>1 DEF AtByte
        <3>2. PICK d \in Addr : d = b
            BY <1>2 DEF AtByte
        <3>3. PrivateByte(client, t, d) => CellAt(d)'.mark = MarkAfter(client, t, RecMoment(t), d)
            <4>1. PrivateByte(client, t, b) => CellAt(b).mark = WriteAction
                BY <1>2, <1>3, <1>4, <1>12, <2>1, MarkSays DEF AtByte
            <4>2. MarkAfter(client, t, RecMoment(t), b) = WriteAction
                BY <1>2, <1>3, <2>1, MarkOfMoment DEF AtByte
            <4> HIDE DEF b
            <4> QED
                BY <1>9, <3>2, <4>1, <4>2
        <3> HIDE DEF y, n
        <3> QED
            BY <1>3, <1>8, <1>9, <3>1, <3>2, <3>3, MarkOfByte DEF b
    <2>2. CASE client.name # "deadspy"
        <3>1. AtRecord(t) /\ MarksOK(t) /\ y = MarkedAt(t)
            BY <1>2, <1>4, <2>2 DEF AtByte
        <3> HIDE DEF y, n
        <3> QED
            BY <1>8, <1>9, <3>1, MarksStay
    <2> QED
        BY <2>1, <2>2
<1> HIDE DEF y
<1>15. CtxtsOK(t)'
    <2>1. AtRecord(t) /\ CtxtsOK(t) /\ n = StampedAt(t)
        BY <1>2, <1>4 DEF AtByte
    <2> HIDE DEF n
    <2> QED
        BY <1>8, <1>9, <2>1, CtxtsStay
<1>16. CountOK(t)'
    <2>1. /\ AtRecord(t) /\ CountOK(t) /\ n \in 0 .. (Rec(t).size - 1) /\ n = ReviewedAt(t)
          /\ b = Plus(Rec(t).addr, n)
        BY <1>2, <1>4 DEF AtByte
    <2>2. PICK d, v : d = b /\ v = s
        OBVIOUS
    <2>3. ASSUME PrivateRec(t)
          PROVE  \A i \in {0} \cup Places(client, t) :
                    d \in WasteOf(client, t, i, Rec(t).ctxt[2]) <=> v = CtxtOf(t, i)
        <3>1. \A i : b \in WasteOf(client, t, i, Rec(t).ctxt[2]) <=>
                 RecWastes(client, t, Rec(t), b)
                 /\ CtxtAfter(t, Prev(client, t, MomentOf(client, Rec(t)), b)) = CtxtOf(t, i)
            BY <1>2, <1>3, <2>1, WasteOfByte DEF AtByte
        <3> HIDE DEF b, s
        <3> QED
            BY <1>12, <1>13, <2>2, <2>3, <3>1 DEF RecMoment
    <2> HIDE DEF b, s, n
    <2>4. found'[t] = BagAdd(found[t], <<v, Rec(t).ctxt>>) /\ d = Plus(Rec(t).addr, n)
        BY <1>7, <2>1, <2>2
    <2> QED
        BY <1>3, <1>7, <1>8, <2>1, <2>3, <2>4, CountsReport
<1>17. KindOK(t)' /\ MissOK(t)'
    BY <1>3, <1>5, <1>10, PassesDiffer DEF KindOK, MissOK
<1>18. PassOK(t)'
    <2>1. CASE client.name = "deadspy"
        BY <1>5, <1>10, <2>1, PassesDiffer DEF PassOK
    <2>2. CASE client.name # "deadspy"
        <3>1. PrivateRec(t) => (same[t] <=> \A a \in BytesFrom(Rec(t), 0) : Wastes(client, t, RecMoment(t), a))
            BY <1>1, <1>2, <2>2 DEF AtByte, PassOK
        <3> QED
            BY <1>5, <1>10, <2>2, <3>1 DEF PassOK
    <2> QED
        BY <2>1, <2>2
<1>19. SlotsOK(t)'
    BY <1>1, <1>2, <1>5, SlotsStay DEF AtByte
<1> QED
    BY <1>1, <1>2, <1>8, <1>14, <1>15, <1>16, <1>17, <1>18, <1>19, ThreadKept DEF AtByte

-----------------------------------------------------------------------------
(* The context is replaced.                                                *)

LEMMA AgainIs ==
    ASSUME NEW t \in Thread
    PROVE  /\ client.name = "deadspy" => Again(t) = Testing
           /\ client.name # "deadspy" => Again(t) = IF same[t] THEN "report" ELSE "stamp"
<1>1. CASE client.name = "deadspy"
    <2>1. Again(t) = Testing
        BY <1>1, Zenon DEF Again, Testing
    <2> QED
        BY <1>1, <2>1
<1>2. CASE client.name # "deadspy"
    <2>1. Again(t) = IF same[t] THEN "report" ELSE "stamp"
        BY <1>2 DEF Again
    <2> QED
        BY <1>2, <2>1
<1> QED
    BY <1>1, <1>2

LEMMA CtxtOfMoment ==
    ASSUME NEW t \in Thread, AtRecord(t)
    PROVE  /\ CtxtAfter(t, RecMoment(t)) = Rec(t).ctxt
           /\ Rec(t).ctxt = <<t, Rec(t).ctxt[2]>> /\ Rec(t).ctxt \in Contexts
<1>1. Rec(t) \in Record /\ client \in Clients /\ Fits(client, t, Done(t), Rec(t)) /\ Done(t) \in Nat
    BY FirstIsRec DEF AtRecord
<1>2. RecMoment(t) \div 2 = Rec(t).ctxt[2] /\ Rec(t).ctxt[2] \in Places(client, t)
    BY <1>1, RecordFits DEF RecMoment
<1>3. Rec(t).ctxt[2] # 0 /\ Rec(t).ctxt[1] = t
    BY <1>1, <1>2 DEF Places, Fits
<1>4. Rec(t).ctxt \in Contexts
    BY <1>1, RecordHas
<1>5. Rec(t).ctxt = <<Rec(t).ctxt[1], Rec(t).ctxt[2]>>
    BY <1>4 DEF Contexts
<1> QED
    BY <1>2, <1>3, <1>4, <1>5 DEF CtxtAfter, CtxtOf

LEMMA StampKept ==
    ASSUME IInv, RecordsOK, TallyOK, NEW t \in Thread, Placed(t), ThreadOK(t), OperandsApart, Stamp(t)
    PROVE  ThreadOK(t)'
<1> DEFINE n == nth[t]
           b == Byte(t)
           e == IF client.name = "redspy" THEN "end" ELSE "none"
           y == IF client.name = "deadspy" THEN n + 1 ELSE Rec(t).size
           skip == n + 1 < Rec(t).size /\ client.name # "deadspy" /\ ~ same[t]
           w == IF skip THEN n + 2 ELSE n + 1
<1>1. /\ pass[t] = "stamp" /\ Inside(t) /\ NextByte(t, Again(t), e)
      /\ Store(t, "ctxt", Rec(t).ctxt) /\ found' = found /\ same' = same
      /\ UNCHANGED <<slot, slotNum, readIndex>>
    BY DEF Stamp, At, Inside, program, slotting, tally
<1>2. AtByte(t) /\ queue[t] # <<>>
    BY <1>1, InByte
<1>3. Rec(t).kind = JudgedKind(client) /\ Rec(t).kind \in Acting(client)
    <2>1. Rec(t).kind = JudgedKind(client)
        BY <1>1, <1>2, PassesDiffer DEF AtByte, KindOK
    <2> QED
        BY <1>2, <2>1, JudgedActs DEF AtByte
<1>4. /\ MarkedAt(t) = y /\ StampedAt(t) = n /\ ReviewedAt(t) = n + 1
    BY <1>1, CountersAre DEF MarkedAt, StampedAt, ReviewedAt
<1>5. Again(t) # "none"
    BY AgainIs, PassesDiffer
<1>6. Progress(t, y, n + 1, w)
    <2>1. CASE client.name = "deadspy"
        <3>1. /\ Marked(client, Testing, n + 1, Rec(t).size) = n + 1
              /\ Stamped(Testing, n + 1, Rec(t).size) = n + 1 /\ Reviewed(Testing, n + 1, Rec(t).size) = n + 1
            BY CountersAre
        <3>2. NextByte(t, Testing, "none") /\ y = n + 1 /\ w = n + 1
            BY <1>1, <2>1, AgainIs
        <3> HIDE DEF y, w
        <3> QED
            BY <1>1, <3>1, <3>2, NextByteProgress, PassesDiffer
    <2>2. CASE client.name # "deadspy"
        <3>1. /\ Marked(client, "report", n + 1, Rec(t).size) = Rec(t).size
              /\ Stamped("report", n + 1, Rec(t).size) = n + 1 /\ Reviewed("report", n + 1, Rec(t).size) = n + 1
              /\ Marked(client, "stamp", n + 1, Rec(t).size) = Rec(t).size
              /\ Stamped("stamp", n + 1, Rec(t).size) = n + 1 /\ Reviewed("stamp", n + 1, Rec(t).size) = n + 1 + 1
              /\ Marked(client, "end", 0, Rec(t).size) = Rec(t).size
              /\ Stamped("end", 0, Rec(t).size) = Rec(t).size /\ Reviewed("end", 0, Rec(t).size) = Rec(t).size
            BY <2>2, CountersAre
        <3>2. n + 1 + 1 = n + 2
            BY <1>2 DEF AtByte
        <3>3. y = Rec(t).size
            BY <2>2
        <3>4. CASE same[t]
            <4>1. NextByte(t, "report", e) /\ w = n + 1
                BY <1>1, <2>2, <3>4, AgainIs
            <4> HIDE DEF y, w
            <4> QED
                BY <1>1, <3>1, <3>3, <4>1, NextByteProgress
        <3>5. CASE ~ same[t]
            <4>1. NextByte(t, "stamp", e)
                BY <1>1, <2>2, <3>5, AgainIs
            <4>2. (n + 1 < Rec(t).size => w = n + 1 + 1) /\ (n + 1 = Rec(t).size => w = n + 1)
                BY <1>2, <2>2, <3>2, <3>5 DEF AtByte
            <4> HIDE DEF y, w
            <4> QED
                BY <1>1, <3>1, <3>3, <4>1, <4>2, NextByteProgress
        <3> QED
            BY <3>4, <3>5
    <2> QED
        BY <2>1, <2>2
<1>7. /\ \A a \in Addr : a # b => CellAt(a)' = CellAt(a)
      /\ \A a \in Addr : CellAt(a)'.mark = CellAt(a).mark
      /\ \A a \in Addr : a = b => CellAt(a)'.ctxt = Rec(t).ctxt
    <2> DEFINE x == Rec(t).ctxt
    <2>1. x \in Contexts
        BY <1>2, CtxtOfMoment DEF AtByte
    <2>2. \A c \in Cell : [c EXCEPT !.ctxt = x] \in Cell
        BY <2>1, CellAssumption
    <2>3. Store(t, "ctxt", x) /\ pass[t] \notin {"none", "end"}
        BY <1>1
    <2>4. PICK k : k = x
        OBVIOUS
    <2> HIDE DEF x
    <2>5. Store(t, "ctxt", k) /\ \A c \in Cell : [c EXCEPT !.ctxt = k] \in Cell
        BY <2>2, <2>3, <2>4
    <2>6. /\ \A a \in Addr : a # b => CellAt(a)' = CellAt(a)
          /\ \A a \in Addr : CellAt(a)'.mark = CellAt(a).mark
          /\ \A a \in Addr : a = b => CellAt(a)'.ctxt = k
        BY <2>3, <2>5, CtxtMoves
    <2> QED
        BY <2>4, <2>6 DEF x
<1>8. PICK d \in Addr : d = b
    BY <1>2 DEF AtByte
<1>9. MarksOK(t)'
    <2>1. AtRecord(t) /\ MarksOK(t)
        BY <1>2 DEF AtByte
    <2> HIDE DEF y, w
    <2> QED
        BY <1>4, <1>6, <1>7, <2>1, MarksStay
<1>10. CtxtsOK(t)'
    <2>1. \A a \in Addr : a # Byte(t) => CellAt(a)'.ctxt = CellAt(a).ctxt
        BY <1>7
    <2>2. AtRecord(t) /\ CtxtsOK(t) /\ nth[t] \in 0 .. (Rec(t).size - 1) /\ StampedAt(t) = nth[t]
          /\ n + 1 = nth[t] + 1 /\ d = Byte(t)
        BY <1>2, <1>4, <1>8 DEF AtByte
    <2>3. CellAt(d)'.ctxt = CtxtAfter(t, RecMoment(t))
        BY <1>2, <1>7, <1>8, CtxtOfMoment DEF AtByte
    <2> HIDE DEF y, w, n, b
    <2> QED
        BY <1>3, <1>6, <2>1, <2>2, <2>3, CtxtOfByte
<1>11. CountOK(t)'
    <2>1. AtRecord(t) /\ CountOK(t) /\ found'[t] = found[t]
        BY <1>1, <1>2 DEF AtByte
    <2>2. CASE skip
        <3> DEFINE k == n + 1
        <3>1. k \in 0 .. (Rec(t).size - 1) /\ k = ReviewedAt(t) /\ w = k + 1
            BY <1>2, <1>4, <2>2 DEF AtByte
        <3>2. PICK g : g = Plus(Rec(t).addr, k)
            OBVIOUS
        <3>3. ASSUME PrivateRec(t) PROVE \A i : g \notin WasteOf(client, t, i, Rec(t).ctxt[2])
            <4>1. ~ RecWastes(client, t, Rec(t), g)
                BY <1>1, <1>2, <2>2, <3>3 DEF AtByte, PassOK, RecWastes, RecMoment
            <4> HIDE DEF k
            <4> QED
                BY <1>2, <1>3, <3>1, <3>2, <4>1, NoWaste
        <3> HIDE DEF k, w, y
        <3> QED
            BY <1>3, <1>6, <2>1, <3>1, <3>2, <3>3, CountsSkip
    <2>3. CASE ~ skip
        <3>1. w = ReviewedAt(t)
            BY <1>4, <2>3
        <3> HIDE DEF w, y, n
        <3> QED
            BY <1>6, <2>1, <3>1, CountsStay
    <2> QED
        BY <2>2, <2>3
<1>12. CASE pass'[t] = "none"
    <2>1. client.name # "redspy"
        BY <1>1, <1>5, <1>12, NextByteDoes
    <2>2. SlotsOK(t)'
        BY <1>1, <2>1, NotRedspy DEF Inside
    <2> HIDE DEF y, w, n
    <2> QED
        BY <1>1, <1>2, <1>6, <1>9, <1>10, <1>11, <1>12, <2>2, ThreadKept, NoPass DEF AtByte
<1>13. CASE pass'[t] # "none"
    <2>1. /\ queue'[t] = queue[t] /\ (fetched'[t] => OnOnePage(Rec(t)))
          /\ \/ pass'[t] = Again(t)
             \/ pass'[t] = "end" /\ client.name = "redspy"
        BY <1>1, <1>5, <1>13, NextByteDoes
    <2>2. Rec(t)' = Rec(t) /\ RecMoment(t)' = RecMoment(t) /\ client' = client
          /\ JudgedKind(client)' = JudgedKind(client) /\ PrivateRec(t)' = PrivateRec(t)
        BY <1>1, <2>1, RecSame DEF Inside
    <2>3. /\ client.name = "deadspy" => pass'[t] = Testing
          /\ client.name # "deadspy" =>
               \/ pass'[t] = "end" /\ client.name = "redspy"
               \/ pass'[t] = IF same[t] THEN "report" ELSE "stamp"
        BY <2>1, AgainIs
    <2>4. SlotsOK(t)'
        BY <1>1, <1>2, <2>1, SlotsStay DEF AtByte
    <2>5. KindOK(t)' /\ MissOK(t)'
        BY <1>3, <2>2, <2>3, PassesDiffer DEF KindOK, MissOK
    <2>6. PassOK(t)'
        <3>1. CASE client.name = "deadspy"
            BY <2>2, <2>3, <3>1, PassesDiffer DEF PassOK
        <3>2. CASE client.name # "deadspy"
            <4>1. PrivateRec(t) => (same[t] <=> \A a \in BytesFrom(Rec(t), 0) : Wastes(client, t, RecMoment(t), a))
                BY <1>1, <1>2, <3>2 DEF AtByte, PassOK
            <4>2. pass'[t] = "end" \/ pass'[t] = (IF same[t] THEN "report" ELSE "stamp")
                BY <2>3, <3>2
            <4> QED
                BY <1>1, <2>2, <3>2, <4>1, <4>2 DEF PassOK
        <3> QED
            BY <3>1, <3>2
    <2> HIDE DEF y, w, n
    <2> QED
        BY <1>1, <1>2, <1>6, <1>9, <1>10, <1>11, <2>4, <2>5, <2>6, ThreadKept DEF AtByte
<1> QED
    BY <1>12, <1>13

-----------------------------------------------------------------------------
(* The steps of loadspy.                                                   *)

(* What is past of a byte does not depend on those before it. *)
LEMMA PastAhead ==
    ASSUME NEW c, NEW t, NEW d, NEW q, q \in Seq(Record), q # <<>>,
           NEW k, k \in 0 .. (q[1].size - 1), NEW s, s \in 0 .. k, NEW b, b = Plus(q[1].addr, k)
    PROVE  LastPast(c, t, d, q, s, b) = LastPast(c, t, d, q, k, b)
<1>1. q[1] \in Record /\ q[1].size \in Nat
    <2>1. 1 \in 1 .. Len(q)
        BY EmptySeq, LenProperties
    <2>2. q[1] \in Record
        BY <2>1, ElementOfSeq
    <2> QED
        BY <2>2, RecordHas, SizesAreNumbers
<1>2. b \in BytesFrom(q[1], s) /\ b \in BytesFrom(q[1], k)
    <2>1. k \in s .. (q[1].size - 1) /\ k \in k .. (q[1].size - 1)
        BY <1>1
    <2> QED
        BY <2>1 DEF BytesFrom
<1>3. \A n : b \in RestOf(q, s, n) <=> b \in RestOf(q, k, n)
    BY <1>2 DEF RestOf
<1>4. Pend(c, q, s, b) = Pend(c, q, k, b)
    BY <1>3 DEF Pend
<1> QED
    BY <1>4 DEF LastPast, Past

LEMMA LoadedIs ==
    ASSUME RecordsOK, NEW t \in Thread, AtByte(t), client.name = "loadspy", Rec(t).kind = Read
    PROVE  /\ Loaded(t) \in Value
           /\ PrivateByte(client, t, Byte(t)) => Loaded(t) = Given(client, t, Rec(t).ctxt[2], Byte(t))
<1>1. CASE client.naive
    <2>1. Loaded(t) = mem[Byte(t)] /\ mem[Byte(t)] \in Value
        BY <1>1 DEF Loaded, RecordsOK, AtByte
    <2>2. Rec(t).ctxt[2] = ip[t]
        <3>1. Rec(t) = queue[t][1] /\ queue[t] \in Seq(Record) /\ queue[t] # <<>>
            BY FirstIsRec DEF AtByte
        <3>2. 1 \in DOMAIN queue[t]
            BY <3>1
        <3> QED
            BY <1>1, <3>1, <3>2 DEF AtByte, NaiveOK
    <2>3. PrivateByte(client, t, Byte(t)) => mem[Byte(t)] = Given(client, t, ip[t], Byte(t))
        BY DEF AtByte, ValuesOK, ValueOK
    <2> QED
        BY <2>1, <2>2, <2>3
<1>2. CASE ~ client.naive
    <2>1. Loaded(t) = Rec(t).val[nth[t]]
        BY <1>2 DEF Loaded
    <2>2. Rec(t).val \in [0 .. (Rec(t).size - 1) -> Value]
        BY RecordHas DEF AtByte
    <2>3. PrivateByte(client, t, Byte(t)) =>
            Rec(t).val[nth[t]] = Given(client, t, Rec(t).ctxt[2], Byte(t))
        BY KindsDiffer DEF AtByte, Fits
    <2> QED
        BY <2>1, <2>2, <2>3 DEF AtByte
<1> QED
    BY <1>1, <1>2

(* The value loaded is what the shadow has kept. *)
LEMMA LoadSays ==
    ASSUME RecordsOK, NEW t \in Thread, AtByte(t), client.name = "loadspy", Rec(t).kind = Read,
           PrivateByte(client, t, Byte(t))
    PROVE  /\ MarkedAt(t) \in 0 .. nth[t] =>
                (CellAt(Byte(t)).mark = Loaded(t) <=> Wastes(client, t, RecMoment(t), Byte(t)))
           /\ MarkAfter(client, t, RecMoment(t), Byte(t)) = Loaded(t)
<1> DEFINE m == RecMoment(t)
           b == Byte(t)
<1>1. m \div 2 = Rec(t).ctxt[2] /\ m >= 2 /\ m \in Nat
    BY RecordFits DEF AtByte, RecMoment
<1>2. Loaded(t) = Given(client, t, m \div 2, b)
    BY <1>1, LoadedIs
<1>3. Rec(t).kind \in Acting(client)
    BY DEF Acting
<1>4. MarkedAt(t) \in 0 .. nth[t] => CellAt(b).mark = MarkAfter(client, t, Prev(client, t, m, b), b)
    <2> SUFFICES ASSUME MarkedAt(t) \in 0 .. nth[t]
                 PROVE  CellAt(b).mark = MarkAfter(client, t, Prev(client, t, m, b), b)
        OBVIOUS
    <2>1. /\ queue[t] \in Seq(Record) /\ queue[t] # <<>> /\ Rec(t) = queue[t][1] /\ Todo(t) = queue[t]
        BY FirstIsRec DEF AtByte
    <2>2. LastPast(client, t, Done(t), queue[t], nth[t], b) = Prev(client, t, m, b)
        BY <1>3, OneByteOn DEF AtByte
    <2> DEFINE k == nth[t]
               s == MarkedAt(t)
               q == queue[t]
               d == Done(t)
               c == client
    <2>3. /\ q \in Seq(Record) /\ q # <<>>
          /\ k \in 0 .. (q[1].size - 1) /\ s \in 0 .. k /\ b = Plus(q[1].addr, k)
        BY <2>1 DEF AtByte
    <2>4. LastPast(c, t, d, q, s, b) = LastPast(c, t, d, q, k, b)
        <3> HIDE DEF k, s, b, q, d, c
        <3> QED
            BY <2>3, PastAhead
    <2>5. MarkNow(t, b) = Prev(client, t, m, b)
        BY <2>1, <2>2, <2>4 DEF MarkNow
    <2> QED
        BY <2>5 DEF AtByte, MarksOK, MarkOK
<1>5. Wastes(client, t, m, b) <=>
        Given(client, t, m \div 2, b) = MarkAfter(client, t, Prev(client, t, m, b), b)
    BY DEF Wastes
<1>6. MarkAfter(client, t, m, b) = Given(client, t, m \div 2, b)
    <2>1. m # 0
        BY <1>1
    <2> HIDE DEF m
    <2> QED
        BY <2>1 DEF MarkAfter
<1> HIDE DEF m, b
<1> QED
    BY <1>2, <1>4, <1>5, <1>6 DEF m, b

LEMMA LoadspyAt ==
    ASSUME NEW t \in Thread, AtByte(t), pass[t] \in {"compare", "copy"}
    PROVE  /\ client.name = "loadspy" /\ Rec(t).kind = Read /\ Rec(t).kind = JudgedKind(client)
           /\ Rec(t).kind \in Acting(client)
BY PassesDiffer DEF AtByte, KindOK, JudgedKind, Acting

LEMMA CompareKept ==
    ASSUME IInv, RecordsOK, TallyOK, NEW t \in Thread, Placed(t), ThreadOK(t), Compare(t)
    PROVE  ThreadOK(t)'
<1> DEFINE n == nth[t]
           b == Byte(t)
           eq == CellAt(Byte(t)).mark = Loaded(t)
           on == eq /\ n + 1 < Rec(t).size
<1>1. /\ pass[t] = "compare" /\ Inside(t) /\ ReadCell(t, Byte(t)) /\ found' = found /\ queue' = queue
    BY DEF Compare, At, Inside, program, tally
<1>2. AtByte(t) /\ queue[t] # <<>>
    BY <1>1, InByte
<1>3. /\ client.name = "loadspy" /\ Rec(t).kind = Read /\ Rec(t).kind = JudgedKind(client)
      /\ Rec(t).kind \in Acting(client)
    BY <1>1, <1>2, LoadspyAt
<1>4. seen'[t] = CellAt(Byte(t)) /\ CellsKept
    BY <1>1, ReadSees
<1>5. /\ same'[t] = eq /\ pass'[t] = (IF on THEN "compare" ELSE "copy")
      /\ nth'[t] = (IF on THEN n + 1 ELSE 0)
    BY <1>4 DEF Compare, RecordsOK, TallyOK
<1>6. MarkedAt(t) = 0 /\ StampedAt(t) = 0 /\ ReviewedAt(t) = 0
    BY <1>1, CountersAre DEF MarkedAt, StampedAt, ReviewedAt
<1>7. /\ Marked(client, pass'[t], nth'[t], Rec(t).size) = 0
      /\ Stamped(pass'[t], nth'[t], Rec(t).size) = 0
      /\ Reviewed(pass'[t], nth'[t], Rec(t).size) = 0
    <2>1. /\ \A x : Marked(client, "compare", x, Rec(t).size) = 0 /\ Stamped("compare", x, Rec(t).size) = 0
                    /\ Reviewed("compare", x, Rec(t).size) = 0
          /\ \A x : Marked(client, "copy", x, Rec(t).size) = x /\ Stamped("copy", x, Rec(t).size) = 0
                    /\ Reviewed("copy", x, Rec(t).size) = 0
        BY CountersAre
    <2> HIDE DEF on
    <2> QED
        BY <1>5, <2>1
<1>8. /\ Rec(t)' = Rec(t) /\ RecMoment(t)' = RecMoment(t) /\ PrivateRec(t)' = PrivateRec(t)
      /\ client' = client /\ JudgedKind(client)' = JudgedKind(client)
    BY <1>1, RecSame DEF Inside
<1>9. KindOK(t)' /\ MissOK(t)'
    BY <1>3, <1>5, <1>8, PassesDiffer DEF KindOK, MissOK
<1>10. PassOK(t)'
    <2> DEFINE W(a) == Wastes(client, t, RecMoment(t), a)
               P(k) == Plus(Rec(t).addr, k)
    <2>1. ASSUME PrivateRec(t)
          PROVE  /\ pass'[t] = "compare" => \A k \in 0 .. (nth'[t] - 1) : W(P(k))
                 /\ pass'[t] # "compare" => (eq <=> \A a \in BytesFrom(Rec(t), 0) : W(a))
        <3>1. b \in BytesFrom(Rec(t), 0) /\ b = P(n)
            BY <1>2, RecordHas, BytesOfRecord DEF AtByte
        <3>2. eq <=> W(b)
            <4>1. PrivateByte(client, t, b)
                BY <2>1, <3>1 DEF PrivateRec
            <4>2. MarkedAt(t) \in 0 .. nth[t]
                BY <1>2, <1>6 DEF AtByte
            <4> QED
                BY <1>2, <1>3, <4>1, <4>2, LoadSays
        <3>3. \A k \in 0 .. (n - 1) : W(P(k))
            BY <1>1, <1>2, <1>3, <2>1 DEF AtByte, PassOK
        <3>4. \A a \in BytesFrom(Rec(t), 0) : \E k \in 0 .. (Rec(t).size - 1) : a = P(k)
            BY DEF BytesFrom
        <3>5. n \in Nat /\ Rec(t).size \in Nat /\ n < Rec(t).size
            BY <1>2 DEF AtByte
        <3> HIDE DEF W, P, b, n, eq
        <3>6. CASE on
            <4>1. pass'[t] = "compare" /\ nth'[t] = n + 1
                BY <1>5, <3>6
            <4>2. \A k \in 0 .. (nth'[t] - 1) : k = n \/ k \in 0 .. (n - 1)
                BY <3>5, <4>1
            <4> QED
                BY <3>1, <3>2, <3>3, <3>6, <4>1, <4>2
        <3>7. CASE ~ on
            <4>1. pass'[t] = "copy"
                BY <1>5, <3>7
            <4>2. CASE eq
                <5>1. n + 1 = Rec(t).size
                    BY <3>5, <3>7, <4>2
                <5>2. \A k \in 0 .. (Rec(t).size - 1) : k = n \/ k \in 0 .. (n - 1)
                    BY <3>5, <5>1
                <5>3. \A k \in 0 .. (Rec(t).size - 1) : W(P(k))
                    BY <3>1, <3>2, <3>3, <4>2, <5>2
                <5> QED
                    BY <3>4, <4>1, <4>2, <5>3
            <4>3. CASE ~ eq
                BY <3>1, <3>2, <4>1, <4>3
            <4> QED
                BY <4>2, <4>3
        <3> QED
            BY <3>6, <3>7
    <2>2. pass'[t] \in {"compare", "copy"} /\ same'[t] = eq
        BY <1>5
    <2> HIDE DEF eq, on, n, b
    <2> QED
        BY <1>3, <1>8, <2>1, <2>2 DEF PassOK
<1>11. SlotsOK(t)'
    BY <1>3, <1>8, NotRedspy
<1> HIDE DEF eq, on, n, b
<1> QED
    BY <1>1, <1>2, <1>4, <1>6, <1>7, <1>9, <1>10, <1>11, StayKept

-----------------------------------------------------------------------------
(* The value loaded is kept.                                               *)

LEMMA CopyKept ==
    ASSUME IInv, RecordsOK, TallyOK, NEW t \in Thread, Placed(t), ThreadOK(t), OperandsApart, Copy(t)
    PROVE  ThreadOK(t)'
<1> DEFINE n == nth[t]
           b == Byte(t)
           x == Loaded(t)
           e == IF same[t] THEN "report" ELSE "stamp"
           skip == n + 1 = Rec(t).size /\ ~ same[t]
           w == IF skip THEN 1 ELSE 0
<1>1. /\ pass[t] = "copy" /\ Inside(t) /\ NextByte(t, "copy", e)
      /\ Store(t, "mark", x) /\ found' = found /\ same' = same
    BY DEF Copy, At, Inside, program, tally
<1>2. AtByte(t) /\ queue[t] # <<>>
    BY <1>1, InByte
<1>3. /\ client.name = "loadspy" /\ Rec(t).kind = Read /\ Rec(t).kind = JudgedKind(client)
      /\ Rec(t).kind \in Acting(client)
    BY <1>1, <1>2, LoadspyAt
<1>4. MarkedAt(t) = n /\ StampedAt(t) = 0 /\ ReviewedAt(t) = 0
    BY <1>1, CountersAre DEF MarkedAt, StampedAt, ReviewedAt
<1>5. Progress(t, n + 1, 0, w)
    <2>1. /\ Marked(client, "copy", n + 1, Rec(t).size) = n + 1
          /\ Stamped("copy", n + 1, Rec(t).size) = 0 /\ Reviewed("copy", n + 1, Rec(t).size) = 0
          /\ Marked(client, "report", 0, Rec(t).size) = Rec(t).size
          /\ Stamped("report", 0, Rec(t).size) = 0 /\ Reviewed("report", 0, Rec(t).size) = 0
          /\ Marked(client, "stamp", 0, Rec(t).size) = Rec(t).size
          /\ Stamped("stamp", 0, Rec(t).size) = 0 /\ Reviewed("stamp", 0, Rec(t).size) = 0 + 1
        BY <1>3, CountersAre
    <2>2. n + 1 < Rec(t).size => w = 0
        BY <1>2 DEF AtByte
    <2>3. n + 1 = Rec(t).size => w = IF same[t] THEN 0 ELSE 0 + 1
        OBVIOUS
    <2>4. CASE same[t]
        <3>1. NextByte(t, "copy", "report")
            BY <1>1, <2>4
        <3> HIDE DEF w
        <3> QED
            BY <1>1, <2>1, <2>2, <2>3, <2>4, <3>1, NextByteProgress
    <2>5. CASE ~ same[t]
        <3>1. NextByte(t, "copy", "stamp")
            BY <1>1, <2>5
        <3> HIDE DEF w
        <3> QED
            BY <1>1, <2>1, <2>2, <2>3, <2>5, <3>1, NextByteProgress
    <2> QED
        BY <2>4, <2>5
<1>6. /\ \A a \in Addr : a # b => CellAt(a)' = CellAt(a)
      /\ \A a \in Addr : CellAt(a)'.ctxt = CellAt(a).ctxt
      /\ \A a \in Addr : a = b => CellAt(a)'.mark = x
    <2>1. x \in Value
        BY <1>2, <1>3, LoadedIs
    <2>2. \A c \in Cell : [c EXCEPT !.mark = x] \in Cell
        BY <2>1, CellAssumption
    <2>3. PICK k : k = x
        OBVIOUS
    <2> HIDE DEF x
    <2>4. Store(t, "mark", k) /\ \A c \in Cell : [c EXCEPT !.mark = k] \in Cell
        BY <1>1, <2>2, <2>3
    <2>5. /\ \A a \in Addr : a # b => CellAt(a)' = CellAt(a)
          /\ \A a \in Addr : CellAt(a)'.ctxt = CellAt(a).ctxt
          /\ \A a \in Addr : a = b => CellAt(a)'.mark = k
        BY <1>1, <2>4, MarkMoves
    <2> QED
        BY <2>3, <2>5 DEF x
<1>7. PICK d \in Addr : d = b
    BY <1>2 DEF AtByte
<1>8. MarksOK(t)'
    <2>1. \A a \in Addr : a # Byte(t) => CellAt(a)'.mark = CellAt(a).mark
        BY <1>6
    <2>2. AtRecord(t) /\ MarksOK(t) /\ nth[t] \in 0 .. (Rec(t).size - 1) /\ MarkedAt(t) = nth[t]
          /\ n + 1 = nth[t] + 1 /\ d = Byte(t)
        BY <1>2, <1>4, <1>7 DEF AtByte
    <2>3. PrivateByte(client, t, d) => CellAt(d)'.mark = MarkAfter(client, t, RecMoment(t), d)
        <3>1. PrivateByte(client, t, b) => MarkAfter(client, t, RecMoment(t), b) = x
            BY <1>2, <1>3, LoadSays
        <3> HIDE DEF b, x
        <3> QED
            BY <1>6, <1>7, <3>1
    <2> HIDE DEF w, n, b
    <2> QED
        BY <1>3, <1>5, <2>1, <2>2, <2>3, MarkOfByte
<1>9. CtxtsOK(t)'
    <2>1. AtRecord(t) /\ CtxtsOK(t) /\ 0 = StampedAt(t)
        BY <1>2, <1>4 DEF AtByte
    <2> HIDE DEF w, n
    <2> QED
        BY <1>5, <1>6, <2>1, CtxtsStay
<1>10. CountOK(t)'
    <2>1. AtRecord(t) /\ CountOK(t) /\ found'[t] = found[t]
        BY <1>1, <1>2 DEF AtByte
    <2>2. CASE skip
        <3> DEFINE k == 0
        <3>1. k \in 0 .. (Rec(t).size - 1) /\ k = ReviewedAt(t) /\ w = k + 1
            BY <1>2, <1>4, <2>2 DEF AtByte
        <3>2. PICK g : g = Plus(Rec(t).addr, k)
            OBVIOUS
        <3>3. ASSUME PrivateRec(t) PROVE \A i : g \notin WasteOf(client, t, i, Rec(t).ctxt[2])
            <4>1. ~ RecWastes(client, t, Rec(t), g)
                BY <1>1, <1>2, <1>3, <2>2, <3>3 DEF AtByte, PassOK, RecWastes, RecMoment
            <4> HIDE DEF k
            <4> QED
                BY <1>2, <1>3, <3>1, <3>2, <4>1, NoWaste
        <3> HIDE DEF k, w
        <3> QED
            BY <1>3, <1>5, <2>1, <3>1, <3>2, <3>3, CountsSkip
    <2>3. CASE ~ skip
        <3>1. w = ReviewedAt(t)
            BY <1>4, <2>3
        <3> HIDE DEF w, n
        <3> QED
            BY <1>5, <2>1, <3>1, CountsStay
    <2> QED
        BY <2>2, <2>3
<1>11. queue'[t] = queue[t] /\ pass'[t] \in {"copy", e}
    BY <1>1, NextByteDoes
<1>12. /\ Rec(t)' = Rec(t) /\ RecMoment(t)' = RecMoment(t) /\ PrivateRec(t)' = PrivateRec(t)
       /\ client' = client /\ JudgedKind(client)' = JudgedKind(client)
    BY <1>1, <1>11, RecSame DEF Inside
<1>13. KindOK(t)' /\ MissOK(t)'
    BY <1>3, <1>11, <1>12, PassesDiffer DEF KindOK, MissOK
<1>14. PassOK(t)'
    <2>1. PrivateRec(t) => (same[t] <=> \A a \in BytesFrom(Rec(t), 0) : Wastes(client, t, RecMoment(t), a))
        BY <1>1, <1>2, <1>3 DEF AtByte, PassOK
    <2> QED
        BY <1>1, <1>3, <1>11, <1>12, <2>1 DEF PassOK
<1>15. SlotsOK(t)'
    BY <1>3, <1>12, NotRedspy
<1> HIDE DEF w, n, e
<1> QED
    BY <1>1, <1>2, <1>5, <1>8, <1>9, <1>10, <1>13, <1>14, <1>15, ThreadKept DEF AtByte

-----------------------------------------------------------------------------
(* redspy's records come in runs, and its slots follow them.               *)

(* No instruction that redspy instruments has more writes than slots.      *)
WritesFit ==
    \A c \in Clients : c.name = "redspy" =>
        \A t \in Thread : \A n \in DOMAIN c.code[t] : Len(c.code[t][n].dst) <= MaxSlots

(* Slots are there for MaxSlots writes.                                    *)
SlotsTyped ==
    /\ DOMAIN slot = Thread
    /\ \A t \in Thread : DOMAIN slot[t] = 0 .. (MaxSlots - 1)

(* An operand is the record's at one place only. *)
LEMMA OneOp ==
    ASSUME OperandsApart, NEW c \in Clients, NEW t \in Thread, NEW r \in Record,
           r.ctxt[2] \in Places(c, t), NEW m, NEW n, IsOp(c, t, r, m), IsOp(c, t, r, n)
    PROVE  m = n
<1> DEFINE os == Accesses(c, t, r.ctxt[2], r.kind)
<1>1. Apart(os) /\ m \in DOMAIN os /\ n \in DOMAIN os
    BY AccessesAre DEF IsOp
<1>2. /\ r.addr = os[m].addr /\ r.size = os[m].size
      /\ r.addr = os[n].addr /\ r.size = os[n].size
    BY DEF IsOp
<1> HIDE DEF os
<1>3. BytesFrom(r, 0) = BytesFrom(os[m], 0) /\ BytesFrom(r, 0) = BytesFrom(os[n], 0)
    BY <1>2, SameBytes
<1>4. Plus(r.addr, 0) \in BytesFrom(r, 0)
    <2>1. r.addr \in Addr /\ r.size \in 1 .. PageSize
        BY RecordHas
    <2>2. 0 \in 0 .. (r.size - 1)
        BY <2>1, SizesAreNumbers
    <2> QED
        BY <2>1, <2>2, BytesOfRecord
<1> QED
    BY <1>1, <1>3, <1>4 DEF Apart

(* What a record of redspy stands for: one of the writes of its instruction. *)
LEMMA OpOfWrite ==
    ASSUME NEW c \in Clients, c.name = "redspy", NEW t \in Thread, NEW r \in Record,
           r.ctxt[2] \in Places(c, t), r.kind \in {Before, After}, NEW n, IsOp(c, t, r, n)
    PROVE  /\ n \in 1 .. Len(c.code[t][r.ctxt[2]].dst) /\ Len(c.code[t][r.ctxt[2]].dst) \in Nat
           /\ r.addr = c.code[t][r.ctxt[2]].dst[n].addr /\ r.size = c.code[t][r.ctxt[2]].dst[n].size
           /\ ~ c.code[t][r.ctxt[2]].cti
<1> DEFINE i == c.code[t][r.ctxt[2]]
           os == Accesses(c, t, r.ctxt[2], r.kind)
<1>1. n \in DOMAIN os /\ r.addr = os[n].addr /\ r.size = os[n].size
    BY DEF IsOp
<1>2. i.dst \in Seq(Operand)
    BY AccessesAre
<1>3. r.kind # Read
    BY KindsDiffer
<1>4. ~ i.cti /\ os = i.dst
    <2>1. CASE i.cti
        <3>1. os = <<>>
            BY <2>1 DEF Accesses
        <3> HIDE DEF os
        <3> QED
            BY <1>1, <3>1
    <2>2. CASE ~ i.cti
        BY <1>3, <2>2 DEF Accesses, OpsOf
    <2> QED
        BY <2>1, <2>2
<1> HIDE DEF os, i
<1>5. n \in 1 .. Len(i.dst) /\ Len(i.dst) \in Nat
    BY <1>1, <1>2, <1>4
<1> QED
    BY <1>1, <1>4, <1>5 DEF i

(* What a chain says of its head. *)
LEMMA ChainTail ==
    ASSUME NEW c, NEW t, NEW q \in Seq(Record), q # <<>>, Chain(c, t, q)
    PROVE  /\ Chain(c, t, Tail(q))
           /\ Tail(q) = <<>> => Final(c, t, q[1])
           /\ Tail(q) # <<>> => Follows(c, t, q[1], Tail(q)[1]) /\ Tail(q)[1] \in Record
<1>1. /\ Tail(q) \in Seq(Record) /\ Len(Tail(q)) = Len(q) - 1 /\ Len(q) \in Nat /\ Len(q) >= 1
      /\ \A n \in 1 .. (Len(q) - 1) : Tail(q)[n] = q[n + 1]
    OBVIOUS
<1>2. Len(Tail(q)) = 0 <=> Tail(q) = <<>>
    <2> DEFINE e == Tail(q)
    <2>1. e \in Seq(Record)
        BY <1>1
    <2> HIDE DEF e
    <2>2. Len(e) = 0 <=> e = <<>>
        BY <2>1
    <2> QED
        BY <2>2 DEF e
<1>4. CASE Tail(q) = <<>>
    <2>1. Len(q) = 1
        BY <1>1, <1>2, <1>4
    <2>2. Chain(c, t, Tail(q))
        <3>1. 1 .. (Len(Tail(q)) - 1) = {}
            BY <1>2, <1>4
        <3> QED
            BY <1>4, <3>1 DEF Chain
    <2>3. Final(c, t, q[Len(q)])
        BY DEF Chain
    <2> QED
        BY <1>4, <2>1, <2>2, <2>3
<1>3. CASE Tail(q) # <<>>
    <2>0. Len(q) # 1
        BY <1>1, <1>2, <1>3
    <2>1. Len(q) > 1 /\ 1 \in 1 .. (Len(q) - 1) /\ Tail(q)[1] = q[2] /\ Tail(q)[1] \in Record
        <3>1. 1 \in 1 .. (Len(q) - 1) /\ 1 + 1 = 2
            BY <1>1, <2>0
        <3>2. Tail(q)[1] = q[1 + 1] /\ q[2] \in Record
            BY <1>1, <3>1
        <3> QED
            BY <1>1, <2>0, <3>1, <3>2
    <2>2. Tail(q)[Len(Tail(q))] = q[Len(q)]
        BY <1>1, <2>1
    <2>3. ASSUME NEW n \in 1 .. (Len(Tail(q)) - 1)
          PROVE  Follows(c, t, Tail(q)[n], Tail(q)[n + 1])
        <3>1. n + 1 \in 1 .. (Len(q) - 1) /\ n \in 1 .. (Len(q) - 1)
            BY <1>1, <2>3
        <3>2. Tail(q)[n] = q[n + 1] /\ Tail(q)[n + 1] = q[n + 1 + 1]
            BY <1>1, <3>1
        <3> QED
            BY <3>1, <3>2 DEF Chain
    <2>4. Follows(c, t, q[1], Tail(q)[1])
        BY <2>1 DEF Chain
    <2> QED
        BY <1>3, <2>1, <2>2, <2>3, <2>4 DEF Chain
<1> QED
    BY <1>3, <1>4

(* A chain goes on where it has ended, with the first write of another instruction. *)
LEMMA ChainGrows ==
    ASSUME OperandsApart, NEW c \in Clients, NEW t \in Thread,
           NEW q \in Seq(Record), NEW e \in Seq(Record), Chain(c, t, q), Chain(c, t, e),
           \A n \in 1 .. Len(q) : q[n].ctxt[2] \in Places(c, t),
           e # <<>> => e[1].kind = Before /\ IsOp(c, t, e[1], 1)
    PROVE  Chain(c, t, q \o e)
<1>1. CASE q = <<>>
    BY <1>1
<1>2. CASE e = <<>>
    BY <1>2
<1>3. CASE q # <<>> /\ e # <<>>
    <2> DEFINE f == q \o e
    <2>1. /\ f \in Seq(Record) /\ Len(f) = Len(q) + Len(e) /\ Len(q) \in Nat /\ Len(e) \in Nat
          /\ Len(q) >= 1 /\ Len(e) >= 1
          /\ \A n \in 1 .. Len(q) : f[n] = q[n]
          /\ \A n \in 1 .. Len(e) : f[Len(q) + n] = e[n]
        BY <1>3, BothParts
    <2> HIDE DEF f
    <2>2. f[Len(f)] = e[Len(e)] /\ f # <<>>
        BY <2>1
    <2>3. ASSUME NEW n \in 1 .. (Len(f) - 1)
          PROVE  Follows(c, t, f[n], f[n + 1])
        <3>1. CASE n < Len(q)
            <4>1. n \in 1 .. (Len(q) - 1) /\ f[n] = q[n] /\ f[n + 1] = q[n + 1]
                BY <2>1, <3>1
            <4> QED
                BY <4>1 DEF Chain
        <3>2. CASE n > Len(q)
            <4>1. PICK k \in 1 .. (Len(e) - 1) : n = Len(q) + k
                <5>1. n - Len(q) \in 1 .. (Len(e) - 1) /\ n = Len(q) + (n - Len(q))
                    BY <2>1, <3>2
                <5> QED
                    BY <5>1
            <4>2. f[n] = e[k] /\ f[n + 1] = e[k + 1]
                <5>1. k \in 1 .. Len(e) /\ k + 1 \in 1 .. Len(e) /\ n + 1 = Len(q) + (k + 1)
                    BY <2>1, <4>1
                <5> QED
                    BY <2>1, <4>1, <5>1
            <4> QED
                BY <4>1, <4>2 DEF Chain
        <3>3. CASE n = Len(q)
            <4>1. f[n] = q[n] /\ f[n + 1] = e[1] /\ n \in 1 .. Len(q)
                BY <2>1, <3>3
            <4>2. Final(c, t, q[n]) /\ q[n] \in Record /\ q[n].ctxt[2] \in Places(c, t)
                BY <1>3, <3>3, <4>1 DEF Chain
            <4> DEFINE L == Len(c.code[t][q[n].ctxt[2]].dst)
            <4>3. IsOp(c, t, q[n], L) /\ q[n].kind = After
                BY <4>2 DEF Final
            <4>4. ASSUME NEW k \in 1 .. L, IsOp(c, t, q[n], k) PROVE k = L
                BY <4>2, <4>3, <4>4, OneOp
            <4>5. q[n].kind # Before
                BY <4>3, KindsDiffer
            <4>6. \A k \in 1 .. L : IsOp(c, t, q[n], k) => ~ (k < L)
                BY <4>4, SMTT(30)
            <4> QED
                BY <1>3, <4>1, <4>5, <4>6 DEF Follows
        <3> QED
            BY <2>1, <3>1, <3>2, <3>3
    <2>4. Final(c, t, f[Len(f)])
        BY <1>3, <2>2 DEF Chain
    <2> QED
        BY <2>3, <2>4 DEF Chain, f
<1> QED
    BY <1>1, <1>2, <1>3

-----------------------------------------------------------------------------
(* The records of redspy.                                                  *)

NextWrite(c, t, r, n, L, s) ==
    IF r.kind = Before
    THEN /\ s.ctxt = r.ctxt
         /\ IF n < L THEN s.kind = Before /\ IsOp(c, t, s, n + 1) ELSE s.kind = After /\ IsOp(c, t, s, 1)
    ELSE IF n < L THEN s.ctxt = r.ctxt /\ s.kind = After /\ IsOp(c, t, s, n + 1)
         ELSE s.kind = Before /\ IsOp(c, t, s, 1)

(* The record that is applied, and the one after it. *)
LEMMA HeadIs ==
    ASSUME NEW t \in Thread, AtRecord(t), SlotsOK(t), OperandsApart, client.name = "redspy",
           NEW L, L = Len(client.code[t][Rec(t).ctxt[2]].dst)
    PROVE  \E n \in 1 .. L :
               /\ L \in Nat /\ Rec(t).kind \in {Before, After}
               /\ Rec(t).addr = client.code[t][Rec(t).ctxt[2]].dst[n].addr
               /\ Rec(t).size = client.code[t][Rec(t).ctxt[2]].dst[n].size
               /\ IF Rec(t).kind = Before THEN slotNum[t] = n - 1 /\ readIndex[t] = 0
                  ELSE slotNum[t] = L /\ readIndex[t] = n - 1
               /\ \A m \in 1 .. slotNum[t] : Kept(client, t, slot[t], Rec(t).ctxt[2], m)
               /\ Chain(client, t, Tail(queue[t]))
               /\ Tail(queue[t]) = <<>> => Rec(t).kind = After /\ n = L
               /\ Tail(queue[t]) # <<>> => NextWrite(client, t, Rec(t), n, L, Tail(queue[t])[1])
<1> DEFINE r == Rec(t)
           q == queue[t]
<1>1. /\ q \in Seq(Record) /\ client \in Clients /\ q # <<>> /\ r = q[1] /\ r \in Record
      /\ Todo(t) = q /\ Fits(client, t, Done(t), r)
    BY FirstIsRec
<1>2. r.kind \in {Before, After} /\ r.ctxt[2] \in Places(client, t)
    BY <1>1 DEF Fits, Acting
<1>3. /\ Chain(client, t, q)
      /\ HeadOK(client, t, r, slot[t], slotNum[t], readIndex[t])
    BY <1>1 DEF SlotsOK
<1>4. PICK n \in 1 .. L :
         /\ IsOp(client, t, r, n)
         /\ IF r.kind = Before THEN slotNum[t] = n - 1 /\ readIndex[t] = 0
            ELSE slotNum[t] = L /\ readIndex[t] = n - 1
         /\ \A m \in 1 .. slotNum[t] : Kept(client, t, slot[t], r.ctxt[2], m)
    BY <1>3 DEF HeadOK
<1>5. /\ n \in 1 .. L /\ L \in Nat
      /\ r.addr = client.code[t][r.ctxt[2]].dst[n].addr /\ r.size = client.code[t][r.ctxt[2]].dst[n].size
    BY <1>1, <1>2, <1>4, OpOfWrite
<1> HIDE DEF q
<1>6. /\ Chain(client, t, Tail(q))
      /\ Tail(q) = <<>> => Final(client, t, q[1])
      /\ Tail(q) # <<>> => Follows(client, t, q[1], Tail(q)[1])
    BY <1>1, <1>3, ChainTail
<1>7. Final(client, t, r) => r.kind = After /\ n = L
    <2>1. ASSUME IsOp(client, t, r, L) PROVE n = L
        BY <1>1, <1>2, <1>4, <2>1, OneOp
    <2> QED
        BY <2>1 DEF Final
<1>8. Tail(q) # <<>> => NextWrite(client, t, r, n, L, Tail(q)[1])
    BY <1>1, <1>4, <1>6 DEF Follows, NextWrite
<1> QED
    BY <1>1, <1>2, <1>4, <1>5, <1>6, <1>7, <1>8 DEF q

LEMMA HeadAt ==
    ASSUME NEW c, NEW t, NEW r, NEW s, NEW x, NEW y, NEW L, L = Len(c.code[t][r.ctxt[2]].dst),
           NEW n, n \in 1 .. L, IsOp(c, t, r, n),
           IF r.kind = Before THEN x = n - 1 /\ y = 0 ELSE x = L /\ y = n - 1,
           \A m \in 1 .. x : Kept(c, t, s, r.ctxt[2], m)
    PROVE  HeadOK(c, t, r, s, x, y)
BY DEF HeadOK

(* The slots when the record has been dropped. *)
LEMMA SlotsNext ==
    ASSUME RecordsOK, NEW t \in Thread, AtRecord(t), client.name = "redspy", client' = client,
           queue'[t] = Tail(queue[t]), Todo(t)' = queue'[t], Chain(client, t, Tail(queue[t])),
           Tail(queue[t]) # <<>> =>
               HeadOK(client, t, Tail(queue[t])[1], slot'[t], slotNum'[t], readIndex'[t])
    PROVE  SlotsOK(t)'
BY DEF SlotsOK

LEMMA KeptIs ==
    ASSUME NEW c, NEW t, NEW s, NEW j, NEW m, NEW r,
           r.addr = c.code[t][j].dst[m].addr, r.size = c.code[t][j].dst[m].size
    PROVE  Kept(c, t, s, j, m) <=>
             \A k \in 0 .. (r.size - 1) :
                /\ k \in DOMAIN s[m - 1]
                /\ PrivateByte(c, t, Plus(r.addr, k)) => s[m - 1][k] = Given(c, t, j, Plus(r.addr, k))
BY DEF Kept

LEMMA KeptByte ==
    ASSUME NEW c, NEW t, NEW s, NEW j, NEW m, NEW o, o = c.code[t][j].dst[m], Kept(c, t, s, j, m),
           NEW k \in 0 .. (o.size - 1), PrivateByte(c, t, Plus(o.addr, k))
    PROVE  k \in DOMAIN s[m - 1] /\ s[m - 1][k] = Given(c, t, j, Plus(o.addr, k))
BY DEF Kept

LEMMA TakeBeforeDoes ==
    ASSUME NEW t \in Thread, TakeRedspyBefore(t)
    PROVE  /\ client.name = "redspy" /\ queue[t] # <<>> /\ pass[t] = "none" /\ Rec(t).kind = Before
           /\ slot' = IF slotNum[t] < MaxSlots
                      THEN [slot EXCEPT ![t][slotNum[t]] = Overwritten(@, Rec(t).val)] ELSE slot
           /\ slotNum' = [slotNum EXCEPT ![t] = (@ + 1) % 256]
           /\ queue' = [queue EXCEPT ![t] = Tail(@)]
           /\ Inside(t) /\ memory' = memory /\ found' = found /\ readIndex' = readIndex /\ pass' = pass
BY Zenon DEF TakeRedspyBefore, Taking, Inside, program, tally, Before

LEMMA TakeBeforeKept ==
    ASSUME RecordsOK, TallyOK, SlotsTyped, WritesFit, FewWrites, NEW t \in Thread, Placed(t),
           ThreadOK(t), OperandsApart, TakeRedspyBefore(t)
    PROVE  ThreadOK(t)'
<1> DEFINE r == Rec(t)
           j == Rec(t).ctxt[2]
           i == client.code[t][j]
<1>1. /\ client.name = "redspy" /\ queue[t] # <<>> /\ pass[t] = "none" /\ r.kind = Before
      /\ slot' = IF slotNum[t] < MaxSlots THEN [slot EXCEPT ![t][slotNum[t]] = Overwritten(@, r.val)] ELSE slot
      /\ slotNum' = [slotNum EXCEPT ![t] = (@ + 1) % 256]
      /\ queue' = [queue EXCEPT ![t] = Tail(@)]
      /\ Inside(t) /\ memory' = memory /\ found' = found /\ readIndex' = readIndex /\ pass' = pass
    BY TakeBeforeDoes
<1>2. /\ AtRecord(t) /\ MarksOK(t) /\ CtxtsOK(t) /\ ValuesOK(t) /\ NaiveOK(t) /\ CountOK(t) /\ SlotsOK(t)
    BY <1>1, HasRecord
<1>3. /\ r \in Record /\ client \in Clients /\ Fits(client, t, Done(t), r)
    BY <1>2, FirstIsRec
<1>4. MarkedAt(t) = 0 /\ StampedAt(t) = 0 /\ ReviewedAt(t) = 0
    BY <1>1, CountersAre DEF MarkedAt, StampedAt, ReviewedAt
<1>5. queue'[t] = Tail(queue[t]) /\ pass'[t] = "none"
    BY <1>1 DEF RecordsOK
<1>6. r.kind \notin Acting(client)
    BY <1>1, KindsDiffer DEF Acting
<1>7. Progress(t, 0, 0, 0)
    BY <1>1, <1>5, <1>6 DEF Progress, Inside
<1>8. \A a \in Addr : CellAt(a)' = CellAt(a)
    BY <1>1, SameMemory DEF CellsKept
<1>9. MarksOK(t)' /\ CtxtsOK(t)'
    BY <1>2, <1>4, <1>7, <1>8, MarksStay, CtxtsStay
<1>10. CountOK(t)'
    BY <1>1, <1>2, <1>4, <1>7, CountsStay
<1>11. KindOK(t)' /\ PassOK(t)' /\ MissOK(t)'
    BY <1>5, NoPass
<1>12. PICK L : L = Len(i.dst)
    OBVIOUS
<1>13. PICK n \in 1 .. L :
               /\ L \in Nat
               /\ r.addr = i.dst[n].addr /\ r.size = i.dst[n].size
               /\ slotNum[t] = n - 1 /\ readIndex[t] = 0
               /\ \A m \in 1 .. slotNum[t] : Kept(client, t, slot[t], j, m)
               /\ Chain(client, t, Tail(queue[t]))
               /\ Tail(queue[t]) = <<>> => r.kind = After /\ n = L
               /\ Tail(queue[t]) # <<>> => NextWrite(client, t, r, n, L, Tail(queue[t])[1])
    BY <1>1, <1>2, <1>12, HeadIs
<1>14. L <= MaxSlots /\ L <= 255 /\ j \in Places(client, t)
    <2>1. j \in Places(client, t) /\ DOMAIN client.code[t] = Places(client, t)
        BY <1>3, CodeOfClient DEF Fits
    <2> QED
        BY <1>1, <1>3, <1>12, <2>1 DEF WritesFit, FewWrites
<1>15. /\ MaxSlots \in Nat
       /\ slotNum[t] = n - 1 /\ slotNum[t] \in 0 .. (MaxSlots - 1) /\ slotNum[t] < MaxSlots
       /\ slotNum[t] \in 0 .. 255 /\ slotNum[t] < 255
    <2>1. MaxSlots \in Nat \ {0}
        BY ClientsAssumption
    <2>2. L \in Nat /\ n \in Nat /\ 1 <= n /\ n <= L /\ slotNum[t] = n - 1
        BY <1>13
    <2> QED
        BY <1>14, <2>1, <2>2
<1>16. slotNum'[t] = n /\ readIndex'[t] = 0
    <2>1. slotNum'[t] = (slotNum[t] + 1) % 256
        BY <1>1 DEF TallyOK
    <2>2. (slotNum[t] + 1) % 256 = slotNum[t] + 1
        BY <1>15, CountersWrap
    <2> QED
        BY <1>1, <1>13, <2>1, <2>2
<1>17. /\ slot'[t][n - 1] = Overwritten(slot[t][n - 1], r.val)
       /\ \A m \in 1 .. (n - 1) : slot'[t][m - 1] = slot[t][m - 1]
    <2>1. slot' = [slot EXCEPT ![t] = [slot[t] EXCEPT ![n - 1] = Overwritten(slot[t][n - 1], r.val)]]
        BY <1>1, <1>15
    <2>2. slot'[t] = [slot[t] EXCEPT ![n - 1] = Overwritten(slot[t][n - 1], r.val)]
        BY <2>1 DEF SlotsTyped
    <2>3. DOMAIN slot[t] = 0 .. (MaxSlots - 1) /\ n - 1 \in 0 .. (MaxSlots - 1)
        BY <1>15 DEF SlotsTyped
    <2>4. \A m \in 1 .. (n - 1) : m - 1 \in 0 .. (MaxSlots - 1) /\ m - 1 # n - 1
        BY <1>13, <1>15
    <2> QED
        BY <2>2, <2>3, <2>4
<1>18. Kept(client, t, slot'[t], j, n)
    <2>1. DOMAIN r.val = 0 .. (r.size - 1)
        BY <1>3, RecordHas
    <2>2. r.kind # After
        BY <1>1, KindsDiffer
    <2>3. \A k \in 0 .. (r.size - 1) : PrivateByte(client, t, Plus(r.addr, k)) =>
             r.val[k] = Given(client, t, j, Plus(r.addr, k))
        BY <1>3, <2>2 DEF Fits
    <2>4. \A k \in 0 .. (r.size - 1) :
             k \in DOMAIN slot'[t][n - 1] /\ slot'[t][n - 1][k] = r.val[k]
        BY <1>17, <2>1 DEF Overwritten
    <2>5. r.addr = client.code[t][j].dst[n].addr /\ r.size = client.code[t][j].dst[n].size
        BY <1>13
    <2> DEFINE s == slot'[t]
    <2>6. \A k \in 0 .. (r.size - 1) :
             /\ k \in DOMAIN s[n - 1]
             /\ PrivateByte(client, t, Plus(r.addr, k)) => s[n - 1][k] = Given(client, t, j, Plus(r.addr, k))
        <3> HIDE DEF r, j
        <3> QED
            BY <2>3, <2>4, Zenon
    <2> HIDE DEF r, j, s
    <2>7. Kept(client, t, s, j, n)
        BY <2>5, <2>6, KeptIs, Zenon
    <2> QED
        BY <2>7 DEF s
<1>19. ASSUME NEW m \in 1 .. n PROVE Kept(client, t, slot'[t], j, m)
    <2>1. CASE m = n
        BY <1>18, <2>1
    <2>2. CASE m # n
        <3>1. m \in 1 .. (n - 1) /\ m \in 1 .. slotNum[t]
            BY <1>13, <2>2
        <3>2. Kept(client, t, slot[t], j, m) /\ slot'[t][m - 1] = slot[t][m - 1]
            BY <1>13, <1>17, <3>1
        <3> QED
            BY <3>2 DEF Kept
    <2> QED
        BY <2>1, <2>2
<1>20. ASSUME Tail(queue[t]) # <<>>
       PROVE  HeadOK(client, t, Tail(queue[t])[1], slot'[t], slotNum'[t], readIndex'[t])
    <2> DEFINE s == Tail(queue[t])[1]
    <2>1. s.ctxt = r.ctxt
          /\ IF n < L THEN s.kind = Before /\ IsOp(client, t, s, n + 1)
             ELSE s.kind = After /\ IsOp(client, t, s, 1)
        BY <1>1, <1>13, <1>20 DEF NextWrite
    <2> HIDE DEF s
    <2>2. s.ctxt[2] = j /\ Len(client.code[t][s.ctxt[2]].dst) = L
        BY <1>12, <2>1
    <2>3. CASE n < L
        <3>1. n + 1 \in 1 .. L /\ (n + 1) - 1 = n
            BY <1>13, <2>3
        <3>2. s.kind = Before /\ IsOp(client, t, s, n + 1)
            BY <2>1, <2>3
        <3>3. \A m \in 1 .. n : Kept(client, t, slot'[t], s.ctxt[2], m)
            BY <1>19, <2>2
        <3>4. PICK x, y : x = slotNum'[t] /\ y = readIndex'[t]
            OBVIOUS
        <3>5. IF s.kind = Before THEN x = (n + 1) - 1 /\ y = 0 ELSE x = L /\ y = (n + 1) - 1
            BY <1>13, <1>16, <3>1, <3>2, <3>4
        <3>6. \A m \in 1 .. x : Kept(client, t, slot'[t], s.ctxt[2], m)
            BY <1>16, <3>1, <3>3, <3>4
        <3> HIDE DEF j, r, i
        <3>7. HeadOK(client, t, s, slot'[t], x, y)
            BY <2>2, <3>1, <3>2, <3>5, <3>6, HeadAt
        <3> QED
            BY <3>4, <3>7 DEF s
    <2>4. CASE ~ (n < L)
        <3>1. n = L /\ 1 \in 1 .. L /\ 1 - 1 = 0
            BY <1>13, <2>4
        <3>2. s.kind = After /\ s.kind # Before /\ IsOp(client, t, s, 1)
            BY <2>1, <2>4, KindsDiffer
        <3>3. \A m \in 1 .. L : Kept(client, t, slot'[t], s.ctxt[2], m)
            BY <1>19, <2>2, <3>1
        <3>4. PICK x, y : x = slotNum'[t] /\ y = readIndex'[t]
            OBVIOUS
        <3>5. IF s.kind = Before THEN x = 1 - 1 /\ y = 0 ELSE x = L /\ y = 1 - 1
            BY <1>13, <1>16, <3>1, <3>2, <3>4
        <3>6. \A m \in 1 .. x : Kept(client, t, slot'[t], s.ctxt[2], m)
            BY <1>16, <3>1, <3>3, <3>4
        <3> HIDE DEF j, r, i
        <3>7. HeadOK(client, t, s, slot'[t], x, y)
            BY <2>2, <3>1, <3>2, <3>5, <3>6, HeadAt
        <3> QED
            BY <3>4, <3>7 DEF s
    <2> QED
        BY <2>3, <2>4 DEF s
<1>21. SlotsOK(t)'
    <2>1. Todo(t)' = queue'[t]
        BY <1>2, <1>7, NowAfter
    <2> QED
        BY <1>1, <1>2, <1>5, <1>13, <1>20, <2>1, SlotsNext DEF Inside
<1> QED
    BY <1>1, <1>2, <1>7, <1>9, <1>10, <1>11, <1>21, ThreadKept

-----------------------------------------------------------------------------
(* redspy compares what a write has left with the slot of that write.      *)

LEMMA TakeAfterDoes ==
    ASSUME NEW t \in Thread, TakeRedspyAfter(t)
    PROVE  /\ client.name = "redspy" /\ queue[t] # <<>> /\ pass[t] = "none" /\ Rec(t).kind = After
           /\ readIndex[t] < MaxSlots =>
                \E luck \in BOOLEAN :
                  LET eq == Unchanged(Rec(t), slot[t][readIndex[t]], luck) IN
                  /\ same' = [same EXCEPT ![t] = eq]
                  /\ Begin(t, IF eq THEN "report" ELSE "stamp")
           /\ Inside(t) /\ memory' = memory /\ found' = found /\ queue' = queue
           /\ UNCHANGED <<slot, slotNum, readIndex>>
BY Zenon DEF TakeRedspyAfter, Taking, Inside, program, slotting, After

(* A record of redspy's speaks for waste if all its bytes are what they were. *)
LEMMA WastesOfStore ==
    ASSUME NEW c \in Clients, c.name = "redspy", NEW t \in Thread, NEW d \in Nat,
           NEW r \in Record, Fits(c, t, d, r), NEW a
    PROVE  Wastes(c, t, MomentOf(c, r), a) <=> Given(c, t, r.ctxt[2], a) = c.code[t][r.ctxt[2]].put
<1>1. MomentOf(c, r) \div 2 = r.ctxt[2]
    BY RecordFits
<1> QED
    BY <1>1 DEF Wastes

LEMMA TakeAfterKept ==
    ASSUME RecordsOK, TallyOK, SlotsTyped, WritesFit, NEW t \in Thread, Placed(t),
           ThreadOK(t), OperandsApart, TakeRedspyAfter(t)
    PROVE  ThreadOK(t)'
<1> DEFINE r == Rec(t)
           j == Rec(t).ctxt[2]
           i == client.code[t][j]
           all == \A a \in BytesFrom(Rec(t), 0) : Wastes(client, t, RecMoment(t), a)
<1>1. /\ client.name = "redspy" /\ queue[t] # <<>> /\ pass[t] = "none" /\ r.kind = After
      /\ readIndex[t] < MaxSlots =>
           \E luck \in BOOLEAN :
             LET eq == Unchanged(r, slot[t][readIndex[t]], luck) IN
             /\ same' = [same EXCEPT ![t] = eq]
             /\ Begin(t, IF eq THEN "report" ELSE "stamp")
      /\ Inside(t) /\ memory' = memory /\ found' = found /\ queue' = queue
      /\ UNCHANGED <<slot, slotNum, readIndex>>
    BY TakeAfterDoes
<1>2. /\ AtRecord(t) /\ MarksOK(t) /\ CtxtsOK(t) /\ ValuesOK(t) /\ NaiveOK(t) /\ CountOK(t) /\ SlotsOK(t)
    BY <1>1, HasRecord
<1>3. /\ r \in Record /\ client \in Clients /\ Fits(client, t, Done(t), r) /\ Done(t) \in Nat
      /\ r.size \in 1 .. PageSize /\ r.addr \in Addr
    BY <1>2, FirstIsRec, RecordHas DEF AtRecord
<1>4. MarkedAt(t) = 0 /\ StampedAt(t) = 0 /\ ReviewedAt(t) = 0
    BY <1>1, CountersAre DEF MarkedAt, StampedAt, ReviewedAt
<1>5. r.kind \in Acting(client) /\ r.kind = JudgedKind(client) /\ r.kind # Before
    BY <1>1, KindsDiffer DEF Acting, JudgedKind
<1>6. PICK L : L = Len(i.dst)
    OBVIOUS
<1>7. PICK n \in 1 .. L :
         /\ L \in Nat
         /\ r.addr = i.dst[n].addr /\ r.size = i.dst[n].size
         /\ slotNum[t] = L /\ readIndex[t] = n - 1
         /\ \A m \in 1 .. slotNum[t] : Kept(client, t, slot[t], j, m)
    BY <1>1, <1>2, <1>5, <1>6, HeadIs
<1>8. L <= MaxSlots /\ j \in Places(client, t)
    <2>1. j \in Places(client, t) /\ DOMAIN client.code[t] = Places(client, t)
        BY <1>3, CodeOfClient DEF Fits
    <2> QED
        BY <1>1, <1>3, <1>6, <2>1 DEF WritesFit
<1>9. readIndex[t] < MaxSlots
    <2>1. MaxSlots \in Nat \ {0}
        BY ClientsAssumption
    <2>2. L \in Nat /\ n \in Nat /\ 1 <= n /\ n <= L /\ readIndex[t] = n - 1
        BY <1>7
    <2> QED
        BY <1>8, <2>1, <2>2
<1>10. PICK luck \in BOOLEAN : LET eq == Unchanged(r, slot[t][readIndex[t]], luck) IN
             /\ same' = [same EXCEPT ![t] = eq]
             /\ Begin(t, IF eq THEN "report" ELSE "stamp")
    BY <1>1, <1>9
<1>11. PICK eq \in BOOLEAN : eq <=> Unchanged(r, slot[t][readIndex[t]], luck)
    <2>1. Unchanged(r, slot[t][readIndex[t]], luck) \in BOOLEAN
        BY DEF Unchanged
    <2> QED
        BY <2>1
<1>12. /\ same'[t] <=> eq
       /\ pass'[t] = IF eq THEN "report" ELSE "stamp"
       /\ nth'[t] = 0 /\ fetched'[t] = FALSE /\ queue'[t] = queue[t]
    <2>1. Unchanged(r, slot[t][readIndex[t]], luck) \in BOOLEAN
        BY DEF Unchanged
    <2> DEFINE u == Unchanged(r, slot[t][readIndex[t]], luck)
    <2>2. (u <=> eq) /\ u \in BOOLEAN
        BY <1>11, <2>1
    <2>3. same' = [same EXCEPT ![t] = u] /\ Begin(t, IF u THEN "report" ELSE "stamp") /\ queue' = queue
        BY <1>1, <1>10
    <2> HIDE DEF u, r
    <2>4. same'[t] = u /\ pass'[t] = (IF u THEN "report" ELSE "stamp") /\ nth'[t] = 0 /\ fetched'[t] = FALSE
        BY <2>3 DEF Begin, RecordsOK, TallyOK
    <2> QED
        BY <2>2, <2>3, <2>4
(* The slot holds what the bytes were. *)
<1>13. PrivateRec(t) => (eq <=> all)
    <2> SUFFICES ASSUME PrivateRec(t) PROVE eq <=> all
        OBVIOUS
    <2>1. DOMAIN r.val = 0 .. (r.size - 1)
        BY <1>3, RecordHas
    <2>2. ASSUME NEW k \in 0 .. (r.size - 1)
          PROVE  /\ Plus(r.addr, k) \in BytesFrom(r, 0)
                 /\ k \in DOMAIN slot[t][readIndex[t]]
                 /\ slot[t][readIndex[t]][k] = Given(client, t, j, Plus(r.addr, k))
                 /\ r.val[k] = i.put
        <3>1. Plus(r.addr, k) \in BytesFrom(r, 0)
            BY <1>3, <2>2, BytesOfRecord
        <3>2. PrivateByte(client, t, Plus(r.addr, k))
            BY <3>1 DEF PrivateRec
        <3>3. Kept(client, t, slot[t], j, n)
            BY <1>7
        <3>4. r.val[k] = i.put
            BY <1>1, <1>3, <2>2, <3>2 DEF Fits
        <3>5. n - 1 = readIndex[t]
            BY <1>7
        <3> DEFINE s == slot[t]
        <3> HIDE DEF r, j, i, s
        <3>6. PICK o : o = i.dst[n]
            OBVIOUS
        <3>7. r.addr = o.addr /\ r.size = o.size
            BY <1>7, <3>6, Zenon
        <3>8. k \in DOMAIN s[n - 1] /\ s[n - 1][k] = Given(client, t, j, Plus(o.addr, k))
            <4>1. Kept(client, t, s, j, n)
                BY <3>3, Zenon DEF s
            <4>2. k \in 0 .. (o.size - 1) /\ PrivateByte(client, t, Plus(o.addr, k))
                BY <2>2, <3>2, <3>7, Zenon
            <4> QED
                BY <3>6, <4>1, <4>2, KeptByte DEF i
        <3>9. s[n - 1] = slot[t][readIndex[t]]
            BY <3>5 DEF s
        <3>10. k \in DOMAIN slot[t][readIndex[t]] /\ slot[t][readIndex[t]][k] = Given(client, t, j, Plus(r.addr, k))
            BY <3>7, <3>8, <3>9, Zenon
        <3> QED
            BY <3>1, <3>4, <3>10, Zenon
    <2>3. Unchanged(r, slot[t][readIndex[t]], luck) <=>
             \A k \in 0 .. (r.size - 1) : Given(client, t, j, Plus(r.addr, k)) = i.put
        BY <2>1, <2>2 DEF Unchanged
    <2>4. \A a : Wastes(client, t, RecMoment(t), a) <=> Given(client, t, j, a) = i.put
        BY <1>1, <1>3, WastesOfStore DEF RecMoment
    <2>5. all <=> \A k \in 0 .. (r.size - 1) : Given(client, t, j, Plus(r.addr, k)) = i.put
        BY <2>4 DEF BytesFrom
    <2> QED
        BY <1>11, <2>3, <2>5
<1>14. Progress(t, r.size, 0, IF eq THEN 0 ELSE 1)
    <2>1. /\ Marked(client, "report", 0, r.size) = r.size /\ Marked(client, "stamp", 0, r.size) = r.size
          /\ Stamped("report", 0, r.size) = 0 /\ Stamped("stamp", 0, r.size) = 0
          /\ Reviewed("report", 0, r.size) = 0 /\ Reviewed("stamp", 0, r.size) = 0 + 1
        BY <1>1, CountersAre
    <2>2. Progress(t, Marked(client, pass'[t], nth'[t], r.size),
                      Stamped(pass'[t], nth'[t], r.size), Reviewed(pass'[t], nth'[t], r.size))
        BY <1>1, <1>12, StayProgress
    <2> HIDE DEF r
    <2> QED
        BY <1>12, <2>1, <2>2
<1>15. \A a \in Addr : CellAt(a)' = CellAt(a)
    BY <1>1, SameMemory DEF CellsKept
<1>16. Rec(t)' = Rec(t) /\ RecMoment(t)' = RecMoment(t) /\ PrivateRec(t)' = PrivateRec(t)
       /\ client' = client /\ JudgedKind(client)' = JudgedKind(client)
    BY <1>1, <1>12, RecSame DEF Inside
<1>17. MarksOK(t)'
    BY <1>1, <1>16 DEF MarksOK, MarkOK
<1>18. CtxtsOK(t)'
    BY <1>2, <1>4, <1>14, <1>15, CtxtsStay
<1>19. CountOK(t)'
    <2>1. CASE eq
        BY <1>1, <1>2, <1>4, <1>14, <2>1, CountsStay
    <2>2. CASE ~ eq
        <3>1. PICK b : b = Plus(r.addr, 0)
            OBVIOUS
        <3>2. 0 \in 0 .. (r.size - 1) /\ 0 = ReviewedAt(t) /\ 1 = 0 + 1
            BY <1>3, <1>4, SizesAreNumbers
        <3>3. ASSUME PrivateRec(t) PROVE \A k : b \notin WasteOf(client, t, k, r.ctxt[2])
            <4>1. ~ RecWastes(client, t, r, b)
                BY <1>1, <1>13, <2>2, <3>3 DEF RecWastes, RecMoment
            <4> HIDE DEF r, all
            <4> QED
                BY <1>3, <1>5, <3>1, <3>2, <4>1, WasteOfByte
        <3>4. Progress(t, r.size, 0, 1)
            BY <1>14, <2>2
        <3>5. r.kind = JudgedKind(client) /\ PrivateRec(t) => \A k : b \notin WasteOf(client, t, k, r.ctxt[2])
            BY <3>3
        <3>6. found'[t] = found[t]
            BY <1>1
        <3> QED
            BY <1>2, <1>5, <3>1, <3>2, <3>4, <3>5, <3>6, CountsSkip
    <2> QED
        BY <2>1, <2>2
<1>20. KindOK(t)' /\ MissOK(t)'
    BY <1>1, <1>5, <1>12, <1>16, PassesDiffer DEF KindOK, MissOK
<1>21. PassOK(t)'
    <2>1. PrivateRec(t) => (same'[t] <=> all)
        BY <1>12, <1>13
    <2> HIDE DEF r
    <2> QED
        BY <1>1, <1>12, <1>16, <2>1 DEF PassOK
<1>22. SlotsOK(t)'
    BY <1>1, <1>2, SlotsStay
<1> HIDE DEF r, j, i, all
<1> QED
    BY <1>1, <1>2, <1>14, <1>17, <1>18, <1>19, <1>20, <1>21, <1>22, ThreadKept

-----------------------------------------------------------------------------
(* The record after the last byte: the slot has been used.                 *)
LEMMA EndDoes ==
    ASSUME NEW t \in Thread, EndAfter(t)
    PROVE  /\ pass[t] = "end"
           /\ LET n == (readIndex[t] + 1) % 256
                  full == n = slotNum[t]
              IN  /\ readIndex' = [readIndex EXCEPT ![t] = IF full THEN 0 ELSE n]
                  /\ slotNum' = [slotNum EXCEPT ![t] = IF full THEN 0 ELSE @]
           /\ queue' = [queue EXCEPT ![t] = Tail(@)]
           /\ pass' = [pass EXCEPT ![t] = "none"]
           /\ Inside(t) /\ memory' = memory /\ found' = found /\ slot' = slot
BY Zenon DEF EndAfter, Inside, program, tally

LEMMA EndKept ==
    ASSUME RecordsOK, TallyOK, NEW t \in Thread, Placed(t), ThreadOK(t), OperandsApart, EndAfter(t)
    PROVE  ThreadOK(t)'
<1> DEFINE r == Rec(t)
           j == Rec(t).ctxt[2]
<1>1. /\ pass[t] = "end"
      /\ LET n == (readIndex[t] + 1) % 256
             full == n = slotNum[t]
         IN  /\ readIndex' = [readIndex EXCEPT ![t] = IF full THEN 0 ELSE n]
             /\ slotNum' = [slotNum EXCEPT ![t] = IF full THEN 0 ELSE @]
      /\ queue' = [queue EXCEPT ![t] = Tail(@)]
      /\ pass' = [pass EXCEPT ![t] = "none"]
      /\ Inside(t) /\ memory' = memory /\ found' = found /\ slot' = slot
    BY EndDoes
<1>2. queue[t] # <<>>
    BY <1>1 DEF RecordsOK, InRecord
<1>3. /\ AtRecord(t) /\ MarksOK(t) /\ CtxtsOK(t) /\ ValuesOK(t) /\ NaiveOK(t) /\ CountOK(t) /\ SlotsOK(t)
      /\ KindOK(t)
    BY <1>2, HasRecord
<1>4. /\ r \in Record /\ client \in Clients /\ Fits(client, t, Done(t), r)
    BY <1>3, FirstIsRec
<1>5. MarkedAt(t) = r.size /\ StampedAt(t) = r.size /\ ReviewedAt(t) = r.size
    BY <1>1, CountersAre, SMTT(30) DEF MarkedAt, StampedAt, ReviewedAt
<1>6. queue'[t] = Tail(queue[t]) /\ pass'[t] = "none"
    BY <1>1 DEF RecordsOK
<1>7. client.name = "redspy" /\ r.kind = After /\ r.kind # Before
    BY <1>1, <1>3, KindsDiffer, PassesDiffer DEF KindOK, JudgedKind
<1>8. Progress(t, r.size, r.size, r.size)
    BY <1>1, <1>6 DEF Progress, Inside
<1>9. \A a \in Addr : CellAt(a)' = CellAt(a)
    BY <1>1, SameMemory DEF CellsKept
<1>10. MarksOK(t)' /\ CtxtsOK(t)'
    BY <1>3, <1>5, <1>8, <1>9, MarksStay, CtxtsStay
<1>11. CountOK(t)'
    BY <1>1, <1>3, <1>5, <1>8, CountsStay
<1>12. KindOK(t)' /\ PassOK(t)' /\ MissOK(t)'
    BY <1>6, NoPass
<1>13. PICK L : L = Len(client.code[t][j].dst)
    OBVIOUS
<1>14. PICK n \in 1 .. L :
               /\ L \in Nat
               /\ slotNum[t] = L /\ readIndex[t] = n - 1
               /\ \A m \in 1 .. slotNum[t] : Kept(client, t, slot[t], j, m)
               /\ Chain(client, t, Tail(queue[t]))
               /\ Tail(queue[t]) = <<>> => r.kind = After /\ n = L
               /\ Tail(queue[t]) # <<>> => NextWrite(client, t, r, n, L, Tail(queue[t])[1])
    BY <1>3, <1>7, <1>13, HeadIs
<1>15. /\ slotNum'[t] = IF n = L THEN 0 ELSE L
       /\ readIndex'[t] = IF n = L THEN 0 ELSE n
    <2>1. (readIndex[t] + 1) % 256 = n
        <3>1. readIndex[t] \in 0 .. 255 /\ slotNum[t] \in 0 .. 255
            BY DEF TallyOK
        <3>2. readIndex[t] < 255 /\ readIndex[t] + 1 = n
            BY <1>14, <3>1
        <3> QED
            BY <3>1, <3>2, CountersWrap
    <2> QED
        BY <1>1, <1>14, <2>1 DEF TallyOK
<1>16. ASSUME Tail(queue[t]) # <<>>
       PROVE  HeadOK(client, t, Tail(queue[t])[1], slot'[t], slotNum'[t], readIndex'[t])
    <2> DEFINE s == Tail(queue[t])[1]
    <2>1. IF n < L THEN s.ctxt = r.ctxt /\ s.kind = After /\ IsOp(client, t, s, n + 1)
          ELSE s.kind = Before /\ IsOp(client, t, s, 1)
        BY <1>7, <1>14, <1>16 DEF NextWrite
    <2>2. s \in Record /\ s.ctxt[2] \in Places(client, t) /\ slot'[t] = slot[t]
        <3>1. /\ Tail(queue[t]) \in Seq(Record) /\ QueueOK(client, t, Done(t), Tail(queue[t]))
            BY <1>2, <1>3, FirstIsRec, QueueTail DEF AtRecord
        <3>2. Done(t) \in Nat
            BY <1>3 DEF AtRecord
        <3>3. PICK e : e = Tail(queue[t])
            OBVIOUS
        <3>4. e[1] \in Record /\ Fits(client, t, Done(t), e[1])
            BY <1>4, <1>16, <3>1, <3>2, <3>3, FirstIsEarliest
        <3>5. s = e[1]
            BY <3>3
        <3> HIDE DEF s
        <3> QED
            BY <1>1, <3>4, <3>5 DEF Fits
    <2> HIDE DEF s, r
    <2>3. PICK x, y : x = slotNum'[t] /\ y = readIndex'[t]
        OBVIOUS
    <2>4. CASE n < L
        <3>1. n + 1 \in 1 .. L /\ (n + 1) - 1 = n /\ n # L
            BY <1>14, <2>4
        <3>2. s.ctxt = r.ctxt /\ s.kind = After /\ IsOp(client, t, s, n + 1)
            BY <2>1, <2>4
        <3>3. x = L /\ y = (n + 1) - 1
            BY <1>15, <2>3, <3>1
        <3>4. s.kind # Before
            BY <3>2, KindsDiffer
        <3>5. s.ctxt[2] = j /\ L = Len(client.code[t][s.ctxt[2]].dst)
            BY <1>13, <3>2 DEF r
        <3>6. \A m \in 1 .. x : Kept(client, t, slot'[t], s.ctxt[2], m)
            BY <1>14, <2>2, <3>3, <3>5
        <3> HIDE DEF j
        <3>7. HeadOK(client, t, s, slot'[t], x, y)
            BY <3>1, <3>2, <3>3, <3>4, <3>5, <3>6, HeadAt
        <3> QED
            BY <2>3, <3>7 DEF s
    <2>5. CASE ~ (n < L)
        <3>1. n = L /\ x = 0 /\ y = 0
            BY <1>14, <1>15, <2>3, <2>5
        <3>2. s.kind = Before /\ IsOp(client, t, s, 1)
            BY <2>1, <2>5
        <3>3. PICK M : M = Len(client.code[t][s.ctxt[2]].dst)
            OBVIOUS
        <3>4. 1 \in 1 .. M
            BY <1>4, <1>7, <2>2, <3>2, <3>3, OpOfWrite
        <3>5. x = 1 - 1 /\ \A m \in 1 .. x : Kept(client, t, slot'[t], s.ctxt[2], m)
            BY <3>1
        <3> HIDE DEF j
        <3>6. HeadOK(client, t, s, slot'[t], x, y)
            BY <3>1, <3>2, <3>3, <3>4, <3>5, HeadAt
        <3> QED
            BY <2>3, <3>6 DEF s
    <2> QED
        BY <2>4, <2>5
<1>17. SlotsOK(t)'
    <2>1. Todo(t)' = queue'[t]
        BY <1>3, <1>8, NowAfter
    <2> QED
        BY <1>1, <1>3, <1>6, <1>7, <1>14, <1>16, <2>1, SlotsNext DEF Inside
<1> QED
    BY <1>1, <1>3, <1>8, <1>10, <1>11, <1>12, <1>17, ThreadKept

-----------------------------------------------------------------------------
(* What a step leaves alone stays right.                                   *)

Still(u) ==
    /\ client' = client /\ ip'[u] = ip[u] /\ called'[u] = called[u] /\ buffer'[u] = buffer[u]
    /\ queue'[u] = queue[u] /\ pass'[u] = pass[u] /\ nth'[u] = nth[u]
    /\ fetched'[u] = fetched[u] /\ same'[u] = same[u] /\ found'[u] = found[u]
    /\ slot'[u] = slot[u] /\ slotNum'[u] = slotNum[u] /\ readIndex'[u] = readIndex[u]

BytesStill(u) ==
    \A a \in Addr : PrivateByte(client, u, a) => mem'[a] = mem[a] /\ CellAt(a)' = CellAt(a)

LEMMA StillKept ==
    ASSUME RecordsOK, NEW u \in Thread, ThreadOK(u), Still(u), BytesStill(u),
           pass[u] # Reading \/ (step'[u] = step[u] /\ at'[u] = at[u])
    PROVE  ThreadOK(u)'
<1>1. /\ client' = client /\ Todo(u)' = Todo(u) /\ Done(u)' = Done(u) /\ HeldOnce(u)' = HeldOnce(u)
      /\ Rec(u)' = Rec(u)
    BY DEF Still, Todo, Done, HeldOnce, Rec
<1>2. MarkedAt(u)' = MarkedAt(u) /\ StampedAt(u)' = StampedAt(u) /\ ReviewedAt(u)' = ReviewedAt(u)
    BY <1>1 DEF Still, MarkedAt, StampedAt, ReviewedAt
<1>3. \A a : /\ MarkNow(u, a)' = MarkNow(u, a) /\ StampNow(u, a)' = StampNow(u, a)
             /\ PastNow(u, a)' = PastNow(u, a)
    BY <1>1, <1>2 DEF MarkNow, StampNow, PastNow
<1>4. HeldOnce(u)' /\ QueueOK(client, u, Done(u), Todo(u))'
    BY <1>1 DEF ThreadOK
<1>5. BytesOK(u)'
    <2>1. BytesOK(u)
        BY DEF ThreadOK
    <2>2. ASSUME NEW a \in Addr, PrivateByte(client, u, a)
          PROVE  MarkOK(u, a)' /\ CtxtOK(u, a)' /\ ValueOK(u, a)'
        <3>1. MarkOK(u, a) /\ CtxtOK(u, a) /\ ValueOK(u, a)
            BY <2>1, <2>2 DEF BytesOK
        <3>2. mem'[a] = mem[a] /\ CellAt(a)' = CellAt(a) /\ ip'[u] = ip[u]
            BY <2>2 DEF BytesStill, Still
        <3>3. MarkOK(u, a)' /\ CtxtOK(u, a)'
            BY <1>1, <1>3, <3>1, <3>2 DEF MarkOK, CtxtOK
        <3>4. ValueOK(u, a)'
            BY <1>1, <3>1, <3>2 DEF ValueOK
        <3> QED
            BY <3>3, <3>4
    <2> QED
        BY <1>1, <2>2 DEF BytesOK
<1>6. KindOK(u)' /\ PassOK(u)'
    <2>1. /\ RecMoment(u)' = RecMoment(u) /\ PrivateRec(u)' = PrivateRec(u) /\ Byte(u)' = Byte(u)
        BY <1>1 DEF Still, RecMoment, PrivateRec, Byte
    <2>2. KindOK(u) /\ PassOK(u)
        BY DEF ThreadOK
    <2> QED
        BY <1>1, <2>1, <2>2 DEF KindOK, PassOK, Still
<1>7. MissOK(u)'
    <2>1. MissOK(u) /\ Byte(u)' = Byte(u) /\ pass'[u] = pass[u] /\ fetched'[u] = fetched[u]
        BY <1>1 DEF ThreadOK, Still, Byte
    <2>2. pass[u] = Reading => Byte(u) \in Addr
        BY ByteInAddr, PassesDiffer
    <2>3. PICK b : b = Byte(u)
        OBVIOUS
    <2>4. pass[u] = Reading /\ PrivateByte(client, u, b) => CellAt(b)' = CellAt(b)
        BY <2>2, <2>3 DEF BytesStill
    <2>5. CellAt(Byte(u))' = CellAt(b)' /\ CellAt(Byte(u)) = CellAt(b)
        BY <2>1, <2>3 DEF CellAt
    <2> QED
        BY <1>1, <2>1, <2>3, <2>4, <2>5 DEF MissOK
<1>8. NaiveOK(u)' /\ CountOK(u)'
    <2>1. NaiveOK(u) /\ CountOK(u) /\ queue'[u] = queue[u] /\ ip'[u] = ip[u] /\ found'[u] = found[u]
        BY DEF ThreadOK, Still
    <2>2. \A i, j : Reported(u, i, j)' = Reported(u, i, j)
        BY <1>1, <1>3 DEF Reported
    <2>3. \A x : Counted(u, x)' = Counted(u, x)
        BY <2>1 DEF Counted
    <2> QED
        BY <1>1, <2>1, <2>2, <2>3 DEF NaiveOK, CountOK
<1>9. SlotsOK(u)'
    <2>1. SlotsOK(u) /\ slot'[u] = slot[u] /\ slotNum'[u] = slotNum[u] /\ readIndex'[u] = readIndex[u]
        BY DEF ThreadOK, Still
    <2> QED
        BY <1>1, <2>1 DEF SlotsOK
<1> QED
    BY <1>4, <1>5, <1>6, <1>7, <1>8, <1>9 DEF ThreadOK

(* A byte of a record of one thread is no private byte of another. *)
LEMMA NotOurs ==
    ASSUME NEW t \in Thread, NEW u \in Thread \ {t}, NEW c \in Clients, NEW d \in Nat,
           NEW r \in Record, Fits(c, t, d, r), NEW k \in 0 .. (r.size - 1), NEW a, a = Plus(r.addr, k)
    PROVE  ~ PrivateByte(c, u, a)
<1> DEFINE i == c.code[t][r.ctxt[2]]
<1>1. r.addr \in Addr /\ r.size \in 1 .. PageSize
    BY RecordHas
<1>2. a \in BytesFrom(r, 0)
    BY <1>1, BytesOfRecord
<1>3. a \in BytesOf(Accesses(c, t, r.ctxt[2], r.kind)) /\ r.ctxt[2] \in Places(c, t)
    BY <1>2, RecordFits
<1>4. Accesses(c, t, r.ctxt[2], r.kind) \in {<<>>, i.src, i.dst}
    BY DEF Accesses, OpsOf
<1>5. BytesOf(<<>>) = {}
    BY DEF BytesOf
<1> HIDE DEF i
<1>6. a \in BytesOf(i.src) \cup BytesOf(i.dst)
    BY <1>3, <1>4, <1>5
<1> QED
    BY <1>3, <1>6 DEF PrivateByte, Stores, i

(* What a step leaves as it is, outside the byte it is at. *)
Leaves(t) ==
    /\ mem' = mem
    /\ \A u \in Thread \ {t} : Still(u) /\ step'[u] = step[u] /\ at'[u] = at[u]
    /\ \A a \in Addr : pass[t] \in {"none", "end"} \/ a # Byte(t) => CellAt(a)' = CellAt(a)

LEMMA LeftAlone ==
    ASSUME RecordsOK, NEW t \in Thread, NEW u \in Thread \ {t}, Leaves(t), ThreadOK(u),
           pass[t] \notin {"none", "end"} => Placed(t) /\ ThreadOK(t)
    PROVE  ThreadOK(u)'
<1>1. Still(u) /\ step'[u] = step[u] /\ at'[u] = at[u] /\ mem' = mem
    BY DEF Leaves
<1>2. BytesStill(u)
    <2> SUFFICES ASSUME NEW a \in Addr, PrivateByte(client, u, a)
                 PROVE  CellAt(a)' = CellAt(a)
        BY <1>1 DEF BytesStill
    <2>1. CASE pass[t] \in {"none", "end"}
        BY <2>1 DEF Leaves
    <2>2. CASE pass[t] \notin {"none", "end"}
        <3>1. AtByte(t)
            BY <2>2, InByte
        <3>2. a # Byte(t)
            BY <3>1, NotOurs DEF AtByte
        <3> QED
            BY <3>2 DEF Leaves
    <2> QED
        BY <2>1, <2>2
<1> QED
    BY <1>1, <1>2, StillKept

-----------------------------------------------------------------------------
(* The steps of a delivery leave other threads as they are.                *)

LEMMA LooksLeft ==
    ASSUME IInv, NEW t \in Thread, memory' = memory, look' = look
    PROVE  step' = step /\ at' = at /\ CellsKept
BY SameMemory DEF look

LEMMA TakeLeaves ==
    ASSUME IInv, RecordsOK, TallyOK, SlotsTyped, NEW t \in Thread,
           \/ TakeDeadspyRead(t) \/ TakeDeadspyWrite(t) \/ TakeLoadspyRead(t)
           \/ TakeRedspyBefore(t) \/ TakeRedspyAfter(t)
    PROVE  Leaves(t)
<1>1. memory' = memory /\ look' = look /\ mem' = mem
    BY DEF TakeDeadspyRead, TakeDeadspyWrite, TakeLoadspyRead, TakeRedspyBefore, TakeRedspyAfter, program
<1>2. step' = step /\ at' = at /\ CellsKept
    BY <1>1, LooksLeft
<1>3. Alone(t)
    BY TakeMoves
<1>4. ASSUME NEW u \in Thread \ {t}
      PROVE  /\ nth'[u] = nth[u] /\ fetched'[u] = fetched[u] /\ same'[u] = same[u]
             /\ slot'[u] = slot[u] /\ slotNum'[u] = slotNum[u] /\ readIndex'[u] = readIndex[u]
    <2>1. u \in DOMAIN nth /\ u \in DOMAIN fetched /\ u \in DOMAIN same /\ u \in DOMAIN slot
          /\ u \in DOMAIN slotNum /\ u # t
        BY DEF RecordsOK, TallyOK, SlotsTyped
    <2>2. CASE TakeDeadspyRead(t) \/ TakeDeadspyWrite(t) \/ TakeLoadspyRead(t)
        BY <2>1, <2>2 DEF TakeDeadspyRead, TakeDeadspyWrite, TakeLoadspyRead, Begin, slotting
    <2>3. CASE TakeRedspyBefore(t)
        <3>1. /\ slot' = IF slotNum[t] < MaxSlots
                         THEN [slot EXCEPT ![t] = [slot[t] EXCEPT ![slotNum[t]] = Overwritten(@, Rec(t).val)]]
                         ELSE slot
              /\ slotNum' = [slotNum EXCEPT ![t] = (@ + 1) % 256]
              /\ UNCHANGED <<nth, fetched, same, readIndex>>
            BY <2>3 DEF TakeRedspyBefore
        <3> QED
            BY <2>1, <3>1
    <2>4. CASE TakeRedspyAfter(t)
        <3>1. /\ \E p : Begin(t, p)
              /\ same' = same \/ \E b : same' = [same EXCEPT ![t] = b]
              /\ UNCHANGED slotting
            BY <2>4 DEF TakeRedspyAfter
        <3> QED
            BY <2>1, <3>1 DEF Begin, slotting
    <2> QED
        BY <2>2, <2>3, <2>4
<1> QED
    BY <1>1, <1>2, <1>3, <1>4 DEF Leaves, Still, Alone, CellsKept

LEMMA ByteLeavesOwn ==
    ASSUME IInv, RecordsOK, TallyOK, SlotsTyped, NEW t \in Thread, NEW u \in Thread \ {t},
           \/ StartLookup(t) \/ MarkRead(t) \/ SkipRead(t) \/ TestMark(t)
           \/ SetMark(t) \/ Compare(t) \/ Copy(t) \/ Report(t) \/ Stamp(t) \/ EndAfter(t)
    PROVE  /\ nth'[u] = nth[u] /\ fetched'[u] = fetched[u] /\ same'[u] = same[u]
           /\ slot'[u] = slot[u] /\ slotNum'[u] = slotNum[u] /\ readIndex'[u] = readIndex[u]
<1>1. u \in DOMAIN nth /\ u \in DOMAIN fetched /\ u \in DOMAIN same /\ u \in DOMAIN slot
      /\ u \in DOMAIN slotNum /\ u \in DOMAIN readIndex /\ u # t
    BY DEF RecordsOK, TallyOK, SlotsTyped
<1>2. CASE StartLookup(t)
    BY <1>1, <1>2 DEF StartLookup, slotting
<1>3. CASE MarkRead(t) \/ SkipRead(t) \/ Copy(t) \/ Stamp(t)
    <2>1. /\ \E p, e : NextByte(t, p, e)
          /\ same' = same /\ UNCHANGED slotting
        BY <1>3 DEF MarkRead, SkipRead, Copy, Stamp
    <2> QED
        BY <1>1, <2>1 DEF NextByte, slotting
<1>4. CASE TestMark(t) \/ SetMark(t) \/ Report(t)
    <2>1. UNCHANGED <<nth, fetched, same>> /\ UNCHANGED slotting
        BY <1>4 DEF TestMark, SetMark, Report, Turn
    <2> QED
        BY <2>1 DEF slotting
<1>5. CASE Compare(t)
    <2>1. /\ \E b : same' = [same EXCEPT ![t] = b]
          /\ \E n : nth' = [nth EXCEPT ![t] = n]
          /\ \E b : fetched' = [fetched EXCEPT ![t] = b]
          /\ UNCHANGED slotting
        BY <1>5 DEF Compare
    <2> QED
        BY <1>1, <2>1 DEF slotting
<1>6. CASE EndAfter(t)
    <2>1. /\ \E n : readIndex' = [readIndex EXCEPT ![t] = n]
          /\ \E n : slotNum' = [slotNum EXCEPT ![t] = n]
          /\ fetched' = [fetched EXCEPT ![t] = FALSE]
          /\ UNCHANGED <<nth, same, slot>>
        BY <1>6 DEF EndAfter
    <2> QED
        BY <1>1, <2>1
<1> QED
    BY <1>2, <1>3, <1>4, <1>5, <1>6

LEMMA ByteLeavesMemory ==
    ASSUME IInv, RecordsOK, TallyOK, NEW t \in Thread,
           \/ StartLookup(t) \/ MarkRead(t) \/ SkipRead(t) \/ TestMark(t)
           \/ SetMark(t) \/ Compare(t) \/ Copy(t) \/ Report(t) \/ Stamp(t) \/ EndAfter(t)
    PROVE  /\ \A u \in Thread \ {t} : step'[u] = step[u] /\ at'[u] = at[u]
           /\ \A a \in Addr : pass[t] \in {"none", "end"} \/ a # Byte(t) => CellAt(a)' = CellAt(a)
<1>1. DOMAIN step = Thread /\ DOMAIN at = Thread
    BY DEF IInv, ShadowTypeOK
<1>2. CASE StartLookup(t)
    <2>1. BaseOf(Byte(t)) \in Base
        BY <1>2, ByteInAddr DEF StartLookup
    <2>2. \E b \in Base, c \in BOOLEAN : Ask(t, b, c)
        BY <1>2, <2>1 DEF StartLookup
    <2>3. CellsKept
        BY <2>2, StepKeepsCells
    <2>4. \E s, b : step' = [step EXCEPT ![t] = s] /\ at' = [at EXCEPT ![t] = b]
        BY <2>2 DEF Ask
    <2> QED
        BY <1>1, <2>3, <2>4 DEF CellsKept
<1>3. CASE MarkRead(t) \/ SetMark(t) \/ Copy(t) \/ Stamp(t)
    <2>1. pass[t] \notin {"none", "end"}
        BY <1>3, Zenon DEF MarkRead, SetMark, Copy, Stamp, At
    <2>2. PICK f, x : Store(t, f, x)
        BY <1>3 DEF MarkRead, SetMark, Copy, Stamp
    <2>3. step' = step /\ at' = at
        BY <2>2 DEF Store, WriteCell, look
    <2>4. \A a \in Addr : a # Byte(t) => CellAt(a)' = CellAt(a)
        <3>1. Byte(t) \in Addr /\ Holds(t, Byte(t))
            BY <2>1, <2>2, ByteInAddr DEF Store, WriteCell
        <3>2. PICK c : WriteCell(t, Byte(t), c)
            BY <2>2 DEF Store
        <3>3. PICK b \in Addr : b = Byte(t)
            BY <3>1
        <3>4. WriteCell(t, b, c)
            BY <3>2, <3>3
        <3> QED
            BY <3>3, <3>4, WriteMoves
    <2> QED
        BY <2>1, <2>3, <2>4
<1>4. CASE TestMark(t) \/ Compare(t) \/ Report(t)
    <2>1. pass[t] \notin {"none", "end"}
        BY <1>4, Zenon DEF TestMark, Compare, Report, At
    <2>2. ReadCell(t, Byte(t))
        BY <1>4 DEF TestMark, Compare, Report
    <2> QED
        BY <2>1, <2>2, ReadSees DEF CellsKept
<1>5. CASE SkipRead(t) \/ EndAfter(t)
    <2>1. memory' = memory /\ look' = look
        BY <1>5 DEF SkipRead, EndAfter
    <2> QED
        BY <2>1, LooksLeft DEF CellsKept
<1> QED
    BY <1>2, <1>3, <1>4, <1>5

LEMMA ByteLeaves ==
    ASSUME IInv, RecordsOK, TallyOK, SlotsTyped, NEW t \in Thread,
           \/ StartLookup(t) \/ MarkRead(t) \/ SkipRead(t) \/ TestMark(t)
           \/ SetMark(t) \/ Compare(t) \/ Copy(t) \/ Report(t) \/ Stamp(t) \/ EndAfter(t)
    PROVE  Leaves(t)
<1>1. Alone(t)
    BY ByteMoves
<1> QED
    BY <1>1, ByteLeavesOwn, ByteLeavesMemory DEF Leaves, Still, Alone

LEMMA AdvanceLeaves ==
    ASSUME IInv, RecordsOK, NEW t \in Thread, Advance(t)
    PROVE  Leaves(t) /\ Still(t) /\ CellsKept
<1>1. LookupStep(t) /\ UNCHANGED <<client, program, applying, slotting, tally, totals>>
    BY DEF Advance
<1>2. at' = at /\ (\A u \in Thread \ {t} : step'[u] = step[u]) /\ CellsKept
    BY <1>1, MissSaysZero, StepKeepsCells
<1> QED
    BY <1>1, <1>2 DEF Leaves, Still, program, applying, slotting, tally, CellsKept

-----------------------------------------------------------------------------
(* Between deliveries.                                                     *)

(* No record is being applied. *)
LEMMA AtRest ==
    ASSUME NEW t \in Thread, pass[t] = "none"
    PROVE  MarkedAt(t) = 0 /\ StampedAt(t) = 0 /\ ReviewedAt(t) = 0
BY CountersAre DEF MarkedAt, StampedAt, ReviewedAt

LEMMA AtRestNext ==
    ASSUME NEW t \in Thread, pass'[t] = "none"
    PROVE  MarkedAt(t)' = 0 /\ StampedAt(t)' = 0 /\ ReviewedAt(t)' = 0
BY CountersAre DEF MarkedAt, StampedAt, ReviewedAt

(* A thread that gains records gains nothing that is done. *)
LEMMA RestKept ==
    ASSUME NEW t \in Thread, ThreadOK(t), client \in Clients, client' = client,
           pass[t] = "none", pass'[t] = "none", found'[t] = found[t],
           HeldOnce(t)', QueueOK(client, t, Done(t), Todo(t))',
           \A a \in Addr : Past(client, t, Done(t)', Todo(t)', 0, a) = Past(client, t, Done(t), Todo(t), 0, a),
           \A a \in Addr : PrivateByte(client, t, a) => CellAt(a)' = CellAt(a) /\ ValueOK(t, a)',
           NaiveOK(t)', SlotsOK(t)'
    PROVE  ThreadOK(t)'
<1>1. \A a \in Addr : /\ MarkNow(t, a)' = MarkNow(t, a) /\ StampNow(t, a)' = StampNow(t, a)
                      /\ PastNow(t, a)' = PastNow(t, a)
    BY AtRest, AtRestNext DEF MarkNow, StampNow, PastNow, LastPast
<1>2. BytesOK(t)'
    <2>1. ASSUME NEW a \in Addr, PrivateByte(client, t, a)
          PROVE  MarkOK(t, a)' /\ CtxtOK(t, a)'
        <3>1. MarkOK(t, a) /\ CtxtOK(t, a)
            BY <2>1 DEF ThreadOK, BytesOK
        <3>2. CellAt(a)' = CellAt(a) /\ MarkNow(t, a)' = MarkNow(t, a) /\ StampNow(t, a)' = StampNow(t, a)
            BY <1>1, <2>1
        <3> QED
            BY <3>1, <3>2 DEF MarkOK, CtxtOK
    <2> QED
        BY <2>1 DEF BytesOK
<1>3. CountOK(t)'
    <2>1. CountOK(t) /\ \A x : Counted(t, x)' = Counted(t, x)
        BY DEF ThreadOK, Counted
    <2>2. ASSUME NEW i, NEW j \in Places(client, t)
          PROVE  Reported(t, i, j)' = Reported(t, i, j)
        <3>1. WasteOf(client, t, i, j) \subseteq Addr
            BY <2>2, WasteInAddr
        <3> QED
            BY <1>1, <3>1 DEF Reported
    <2> QED
        BY <2>1, <2>2 DEF CountOK
<1>4. KindOK(t)' /\ PassOK(t)' /\ MissOK(t)'
    BY NoPass
<1> QED
    BY <1>2, <1>3, <1>4 DEF ThreadOK

LEMMA IdleHas ==
    ASSUME RecordsOK, NEW t \in Thread, queue[t] = <<>>
    PROVE  pass[t] = "none" /\ Todo(t) = buffer[t] /\ buffer[t] \in Seq(Record) /\ client \in Clients
BY DEF RecordsOK, InRecord, Todo

LEMMA DeliveryRight ==
    ASSUME Period = 1, IInv, RecordsOK, TallyOK, NEW t \in Thread, Placed(t), ThreadOK(t),
           Deliver(t) \/ ThreadExit(t)
    PROVE  ThreadOK(t)' /\ Leaves(t)
<1>1. /\ queue[t] = <<>> /\ pass[t] = "none"
      /\ queue' = [queue EXCEPT ![t] = Sampled(buffer[t])]
      /\ buffer' = [buffer EXCEPT ![t] = <<>>]
      /\ UNCHANGED <<memory, look, client, ip, called, mem, pass, nth, fetched, same, slotting, tally>>
    BY DEF Deliver, ThreadExit, Quiet
<1>2. queue'[t] = buffer[t] /\ buffer'[t] = <<>>
    BY <1>1, SampledIsAll DEF RecordsOK
<1>3. Todo(t)' = Todo(t) /\ Done(t)' = Done(t) /\ HeldOnce(t)' /\ client' = client
    BY <1>1, <1>2 DEF Todo, Done, HeldOnce
<1>4. CellsKept /\ step' = step /\ at' = at
    BY <1>1, LooksLeft
<1>5. QueueOK(client, t, Done(t), Todo(t))'
    BY <1>3 DEF ThreadOK
<1>6. \A a \in Addr : PrivateByte(client, t, a) => CellAt(a)' = CellAt(a) /\ ValueOK(t, a)'
    <2>1. \A a \in Addr : PrivateByte(client, t, a) => ValueOK(t, a)
        BY DEF ThreadOK, BytesOK
    <2> QED
        BY <1>1, <1>4, <2>1 DEF CellsKept, ValueOK
<1>7. NaiveOK(t)'
    <2>1. client.naive => queue'[t] = <<>>
        BY <1>2 DEF Placed
    <2> QED
        BY <1>3, <2>1 DEF NaiveOK
<1>8. SlotsOK(t)'
    BY <1>1, <1>3 DEF SlotsOK, ThreadOK, slotting
<1>9. ThreadOK(t)'
    <2>1. client \in Clients /\ pass'[t] = "none" /\ found'[t] = found[t]
        BY <1>1 DEF RecordsOK, tally
    <2> QED
        BY <1>1, <1>3, <1>5, <1>6, <1>7, <1>8, <2>1, RestKept
<1>10. Leaves(t)
    BY <1>1, <1>4 DEF Leaves, Still, RecordsOK, CellsKept, slotting, tally
<1> QED
    BY <1>9, <1>10

LEMMA StartRight ==
    ASSUME IInv, RecordsOK, TallyOK, NEW t \in Thread, Placed(t), ThreadOK(t), ThreadStart(t)
    PROVE  ThreadOK(t)' /\ Leaves(t)
<1>1. /\ life[t] = "new"
      /\ found' = [found EXCEPT ![t] = EmptyBag]
      /\ slotNum' = [slotNum EXCEPT ![t] = 0]
      /\ readIndex' = [readIndex EXCEPT ![t] = 0]
      /\ UNCHANGED <<memory, look, client, ip, called, mem, buffer, applying, slot, totals>>
    BY DEF ThreadStart
<1>2. queue[t] = <<>> /\ buffer[t] = <<>> /\ ip[t] = 1 /\ ~ called[t]
    BY <1>1 DEF Placed
<1>3. pass[t] = "none" /\ Todo(t) = <<>> /\ client \in Clients /\ Done(t) = 0
    BY <1>2, IdleHas DEF Done
<1>4. /\ Todo(t)' = <<>> /\ Done(t)' = 0 /\ HeldOnce(t)' /\ client' = client /\ pass'[t] = "none"
      /\ queue'[t] = <<>>
    BY <1>1, <1>2, <1>3 DEF Todo, Done, HeldOnce, applying
<1>5. CellsKept /\ step' = step /\ at' = at
    BY <1>1, LooksLeft
<1>6. \A a : /\ MarkNow(t, a)' = MarkNow(t, a) /\ StampNow(t, a)' = StampNow(t, a)
    BY <1>3, <1>4, AtRest, AtRestNext DEF MarkNow, StampNow
<1>7. BytesOK(t)'
    <2>1. BytesOK(t) /\ ip'[t] = ip[t] /\ mem' = mem
        BY <1>1 DEF ThreadOK
    <2> QED
        BY <1>4, <1>5, <1>6, <2>1 DEF BytesOK, MarkOK, CtxtOK, ValueOK, CellsKept
<1>8. CountOK(t)'
    <2>1. \A x : Counted(t, x)' = 0
        BY <1>1 DEF Counted, BagIn, EmptyBag, BagToSet, SetToBag, TallyOK
    <2>2. ASSUME NEW i, NEW j PROVE Reported(t, i, j)' = {}
        <3>1. \A a : \A m \in Moments(client, t, a) : ~ (m <= 2 * 0 + 1)
            BY <1>3, MomentsHave DEF Moments
        <3>2. \A a : PastNow(t, a)' = {}
            BY <1>4, <3>1 DEF PastNow, Past
        <3> QED
            BY <3>2 DEF Reported
    <2>3. Cardinality({}) = 0
        BY FS_EmptySet
    <2> QED
        BY <2>1, <2>2, <2>3 DEF CountOK
<1>9. HeldOnce(t)' /\ QueueOK(client, t, Done(t), Todo(t))'
    BY <1>3, <1>4 DEF ThreadOK
<1>10. NaiveOK(t)' /\ SlotsOK(t)'
    <2>1. 1 .. (Len(<<>>) - 1) = {}
        OBVIOUS
    <2>2. Chain(client, t, <<>>)
        BY <2>1 DEF Chain
    <2> QED
        BY <1>4, <2>2 DEF NaiveOK, SlotsOK
<1>11. ThreadOK(t)'
    BY <1>4, <1>7, <1>8, <1>9, <1>10, NoPass DEF ThreadOK
<1>12. Leaves(t)
    BY <1>1, <1>5 DEF Leaves, Still, RecordsOK, TallyOK, CellsKept, applying
<1> QED
    BY <1>11, <1>12

-----------------------------------------------------------------------------
(* An instruction is executed.                                             *)

(* The records of a redspy instruction are a chain that starts with its first write. *)
LEMMA RunsChain ==
    ASSUME OperandsApart, NEW c \in Clients, c.name = "redspy", NEW t \in Thread,
           NEW j \in Places(c, t), NEW e \in Seq(Record), TwoRuns(c, t, j, e)
    PROVE  /\ Chain(c, t, e)
           /\ e # <<>> => e[1].kind = Before /\ IsOp(c, t, e[1], 1)
<1>1. PICK p \in Seq(Record), r \in Seq(Record) :
        e = p \o r /\ AllOf(c, t, j, Before, p) /\ AllOf(c, t, j, After, r)
    BY DEF TwoRuns
<1> DEFINE N == Len(Accesses(c, t, j, Before))
           L == Len(c.code[t][j].dst)
<1>2. Accesses(c, t, j, After) = Accesses(c, t, j, Before) /\ N \in Nat
    BY AccessesAre, KindsDiffer DEF Accesses, OpsOf
<1>3. Len(p) = N /\ Len(r) = N
    BY <1>1, <1>2 DEF AllOf
<1>4. ASSUME NEW n \in 1 .. N
      PROVE  /\ p[n].kind = Before /\ p[n].ctxt = <<t, j>> /\ IsOp(c, t, p[n], n) /\ p[n] \in Record
             /\ r[n].kind = After /\ r[n].ctxt = <<t, j>> /\ IsOp(c, t, r[n], n) /\ r[n] \in Record
    <2>1. n \in 1 .. Len(p) /\ n \in 1 .. Len(r)
        BY <1>3, <1>4
    <2>2. p[n] \in Record /\ r[n] \in Record
        BY <2>1, ElementOfSeq
    <2>3. p[n].kind = Before /\ p[n].ctxt = <<t, j>> /\ IsOp(c, t, p[n], n)
        BY <1>1, <2>1 DEF AllOf
    <2>4. r[n].kind = After /\ r[n].ctxt = <<t, j>> /\ IsOp(c, t, r[n], n)
        BY <1>1, <2>1 DEF AllOf
    <2> QED
        BY <2>2, <2>3, <2>4
<1>5. N > 0 => N = L
    <2>1. CASE c.code[t][j].cti
        <3>1. Accesses(c, t, j, Before) = <<>>
            BY <2>1 DEF Accesses
        <3> QED
            BY <3>1
    <2>2. CASE ~ c.code[t][j].cti
        <3>1. Accesses(c, t, j, Before) = c.code[t][j].dst
            BY <2>2, KindsDiffer DEF Accesses, OpsOf
        <3> QED
            BY <3>1
    <2> QED
        BY <2>1, <2>2
<1>6. /\ Len(e) = N + N /\ e \in Seq(Record)
      /\ \A n \in 1 .. N : e[n] = p[n]
      /\ \A n \in 1 .. N : e[N + n] = r[n]
    <2>1. /\ p \o r \in Seq(Record) /\ Len(p \o r) = Len(p) + Len(r)
          /\ \A n \in 1 .. Len(p) : (p \o r)[n] = p[n]
          /\ \A n \in 1 .. Len(r) : (p \o r)[Len(p) + n] = r[n]
        BY BothParts
    <2> HIDE DEF N
    <2>2. e = p \o r
        BY <1>1
    <2> QED
        BY <1>3, <2>1, <2>2
<1> HIDE DEF N, L
<1>7. CASE N = 0
    <2>1. e = <<>>
        BY <1>6, <1>7
    <2>2. 1 .. (Len(<<>>) - 1) = {}
        OBVIOUS
    <2> QED
        BY <2>1, <2>2 DEF Chain
<1>8. CASE N > 0
    <2>1. N = L /\ N \in Nat /\ 1 \in 1 .. N /\ N \in 1 .. N
        BY <1>2, <1>5, <1>8
    <2>2. \A n \in 1 .. N : \A k \in 1 .. N :
            /\ IsOp(c, t, p[n], k) => k = n
            /\ IsOp(c, t, r[n], k) => k = n
        <3> TAKE n \in 1 .. N
        <3> TAKE k \in 1 .. N
        <3>1. p[n].ctxt[2] = j /\ r[n].ctxt[2] = j
            BY <1>4
        <3> QED
            BY <1>4, <3>1, OneOp
    <2>3. ASSUME NEW n \in 1 .. (Len(e) - 1) PROVE Follows(c, t, e[n], e[n + 1])
        <3>1. CASE n < N
            <4>1. n \in 1 .. N /\ n + 1 \in 1 .. N /\ e[n] = p[n] /\ e[n + 1] = p[n + 1]
                BY <1>6, <2>1, <3>1
            <4>2. Len(c.code[t][p[n].ctxt[2]].dst) = N
                BY <1>4, <2>1, <4>1 DEF L
            <4>3. p[n + 1].ctxt = p[n].ctxt /\ p[n + 1].kind = Before /\ IsOp(c, t, p[n + 1], n + 1)
                  /\ p[n].kind = Before
                BY <1>4, <4>1
            <4>4. \A k \in 1 .. N : IsOp(c, t, p[n], k) => k = n
                BY <2>2, <4>1
            <4>5. PICK x, y : x = p[n] /\ y = p[n + 1]
                OBVIOUS
            <4>6. ASSUME NEW k \in 1 .. N, IsOp(c, t, x, k)
                  PROVE  k = n /\ y.ctxt = x.ctxt /\ y.kind = Before /\ IsOp(c, t, y, k + 1)
                BY <4>3, <4>4, <4>5, <4>6
            <4>7. Len(c.code[t][x.ctxt[2]].dst) = N /\ x.kind = Before
                BY <4>2, <4>3, <4>5
            <4>8. Follows(c, t, x, y)
                BY <3>1, <4>6, <4>7 DEF Follows
            <4> QED
                BY <4>1, <4>5, <4>8
        <3>2. CASE n = N
            <4>1. n \in 1 .. N /\ e[n] = p[n] /\ e[n + 1] = r[1]
                BY <1>6, <2>1, <3>2
            <4>2. Len(c.code[t][p[n].ctxt[2]].dst) = N
                BY <1>4, <2>1, <4>1 DEF L
            <4>3. r[1].ctxt = p[n].ctxt /\ r[1].kind = After /\ IsOp(c, t, r[1], 1) /\ p[n].kind = Before
                BY <1>4, <2>1, <4>1
            <4>4. \A k \in 1 .. N : IsOp(c, t, p[n], k) => ~ (k < N)
                <5>1. \A k \in 1 .. N : IsOp(c, t, p[n], k) => k = n
                    BY <2>2, <4>1
                <5>2. ASSUME NEW k \in 1 .. N, IsOp(c, t, p[n], k) PROVE ~ (k < N)
                    <6>1. k = N
                        BY <3>2, <5>1, <5>2
                    <6> QED
                        BY <2>1, <6>1
                <5> QED
                    BY <5>2
            <4> QED
                BY <4>1, <4>2, <4>3, <4>4 DEF Follows
        <3>3. CASE n > N
            <4>1. PICK k \in 1 .. (N - 1) : n = N + k
                <5>1. n - N \in 1 .. (N - 1) /\ n = N + (n - N)
                    BY <1>6, <2>1, <3>3
                <5> QED
                    BY <5>1
            <4>2. k \in 1 .. N /\ k + 1 \in 1 .. N /\ k < N /\ n + 1 = N + (k + 1)
                BY <2>1, <4>1
            <4>3. e[n] = r[k] /\ e[n + 1] = r[k + 1]
                BY <1>6, <4>1, <4>2
            <4>4. Len(c.code[t][r[k].ctxt[2]].dst) = N
                BY <1>4, <2>1, <4>2, SMTT(30) DEF L
            <4>5. r[k + 1].ctxt = r[k].ctxt /\ r[k + 1].kind = After /\ IsOp(c, t, r[k + 1], k + 1)
                  /\ r[k].kind # Before
                BY <1>4, <4>2, KindsDiffer
            <4>6. \A m \in 1 .. N : IsOp(c, t, r[k], m) => m = k
                BY <2>2, <4>2
            <4> QED
                BY <4>2, <4>3, <4>4, <4>5, <4>6 DEF Follows
        <3> QED
            BY <1>6, <2>1, <3>1, <3>2, <3>3
    <2>4. e[Len(e)] = r[N] /\ e[1] = p[1]
        BY <1>6, <2>1
    <2>5. Final(c, t, r[N])
        <3>1. r[N].kind = After /\ IsOp(c, t, r[N], N) /\ r[N].ctxt[2] = j
            BY <1>4, <2>1
        <3> QED
            BY <2>1, <3>1 DEF Final, L
    <2>6. e[1].kind = Before /\ IsOp(c, t, e[1], 1)
        BY <1>4, <2>1, <2>4
    <2> QED
        BY <2>3, <2>4, <2>5, <2>6 DEF Chain
<1> QED
    BY <1>2, <1>7, <1>8

(* The values that an instruction leaves. *)
LEMMA GivenNext ==
    ASSUME NEW c \in Clients, NEW t \in Thread, NEW j \in Places(c, t), NEW a
    PROVE  Given(c, t, j + 1, a) =
             IF a \in Stores(c.code[t][j]) THEN c.code[t][j].put ELSE Given(c, t, j, a)
<1> DEFINE W(n) == WritesBefore(c, t, n, a)
<1>1. j \in Nat /\ j >= 1
    BY DEF Places
<1>2. W(j) \in SUBSET (0 .. j) /\ W(j + 1) \in SUBSET (0 .. j)
    BY <1>1 DEF WritesBefore
<1>3. CASE a \in Stores(c.code[t][j])
    <2>1. j \in {0} \cup W(j + 1) /\ \A x \in W(j + 1) : x <= j
        BY <1>1, <1>2, <1>3 DEF WritesBefore
    <2> HIDE DEF W
    <2>2. Latest(W(j + 1)) = j
        BY <1>1, <1>2, <2>1, LatestIs
    <2> QED
        BY <1>1, <1>3, <2>2 DEF Given, W
<1>4. CASE a \notin Stores(c.code[t][j])
    <2>1. W(j + 1) = W(j)
        BY <1>1, <1>4 DEF WritesBefore
    <2> HIDE DEF W
    <2>2. WritesBefore(c, t, j + 1, a) = WritesBefore(c, t, j, a)
        BY <2>1 DEF W
    <2> QED
        BY <1>4, <2>2 DEF Given
<1> QED
    BY <1>3, <1>4

-----------------------------------------------------------------------------
(* The calls before an instruction, and the instruction.                   *)

LEMMA CallRight ==
    ASSUME IInv, RecordsOK, TallyOK, OperandsApart, NEW t \in Thread, Placed(t), ThreadOK(t), Call(t)
    PROVE  ThreadOK(t)' /\ Leaves(t)
<1> DEFINE e == CallsOf(Instr(t), mem, <<t, ip[t]>>)
<1>1. /\ client.naive /\ queue[t] = <<>> /\ pass[t] = "none" /\ ip[t] \in DOMAIN Code(t) /\ ~ called[t]
      /\ queue' = [queue EXCEPT ![t] = e]
      /\ called' = [called EXCEPT ![t] = TRUE]
      /\ UNCHANGED <<memory, look, client, ip, mem, buffer, pass, nth, fetched, same, slotting, tally>>
    BY DEF Call, Quiet
<1>2. /\ \A a \in Addr : PrivateByte(client, t, a) => ValueOK(t, a)
      /\ QueueOK(client, t, Done(t), Todo(t))
    BY DEF ThreadOK, BytesOK
<1>3. e \in Seq(Record) /\ Emission(client, t, ip[t], e) /\ client \in Clients /\ ip[t] \in Nat
    BY <1>1, <1>2, InstrAt, InstrEmission DEF RecordsOK
<1>4. /\ buffer[t] = <<>> /\ Todo(t) = <<>> /\ Done(t) = ip[t] - 1 /\ ip[t] >= 1
    BY <1>1, <1>3, IdleHas DEF Placed, Done
<1> HIDE DEF e
<1>5. /\ queue'[t] = e /\ buffer'[t] = <<>> /\ Todo(t)' = e /\ HeldOnce(t)' /\ Done(t)' = ip[t]
      /\ client' = client /\ pass'[t] = "none" /\ found'[t] = found[t] /\ called'[t] = TRUE
    <2>1. queue'[t] = e /\ buffer'[t] = <<>> /\ called'[t] = TRUE /\ ip'[t] = ip[t]
        BY <1>1, <1>4 DEF RecordsOK, TallyOK
    <2> QED
        BY <1>1, <2>1 DEF Todo, HeldOnce, Done, tally
<1>6. /\ QueueOK(client, t, ip[t], e)
      /\ \A a \in Addr : Past(client, t, ip[t], e, 0, a) = Past(client, t, Done(t), Todo(t), 0, a)
    <2>1. PICK d \in Nat : d + 1 = ip[t] /\ d = Done(t)
        BY <1>3, <1>4
    <2>2. QueueOK(client, t, d, <<>>) /\ Emission(client, t, d + 1, e) /\ <<>> \in Seq(Record)
        BY <1>2, <1>3, <1>4, <2>1
    <2>3. /\ QueueOK(client, t, d + 1, <<>> \o e)
          /\ \A a \in Addr : Past(client, t, d + 1, <<>> \o e, 0, a) = Past(client, t, d, <<>>, 0, a)
        BY <1>3, <2>2, QueueGrows
    <2>4. <<>> \o e = e
        BY <1>3
    <2> QED
        BY <1>4, <2>1, <2>3, <2>4
<1>7. CellsKept /\ step' = step /\ at' = at
    BY <1>1, LooksLeft
<1>8. \A a \in Addr : PrivateByte(client, t, a) => CellAt(a)' = CellAt(a) /\ ValueOK(t, a)'
    BY <1>1, <1>2, <1>7 DEF CellsKept, ValueOK
<1>9. NaiveOK(t)'
    <2>1. \A n \in 1 .. Len(e) : e[n].ctxt[2] = ip[t]
        BY <1>3 DEF Emission
    <2>2. DOMAIN e = 1 .. Len(e) /\ ip'[t] = ip[t]
        BY <1>1, <1>3
    <2> QED
        BY <1>5, <2>1, <2>2 DEF NaiveOK
<1>10. SlotsOK(t)'
    <2>1. client.name # "redspy"
        BY <1>1, <1>3, ClientsAssumption
    <2> QED
        BY <1>5, <2>1, NotRedspy
<1>11. QueueOK(client, t, Done(t), Todo(t))'
    BY <1>5, <1>6
<1>12. ThreadOK(t)'
    <2>1. \A a \in Addr : Past(client, t, Done(t)', Todo(t)', 0, a) = Past(client, t, Done(t), Todo(t), 0, a)
        BY <1>5, <1>6
    <2> QED
        BY <1>1, <1>3, <1>5, <1>8, <1>9, <1>10, <1>11, <2>1, RestKept
<1>13. Leaves(t)
    BY <1>1, <1>7 DEF Leaves, Still, RecordsOK, TallyOK, CellsKept, slotting, tally
<1> QED
    BY <1>12, <1>13

(* Only the thread itself changes its private bytes. *)
LEMMA PutLeaves ==
    ASSUME RecordsOK, NEW t \in Thread, ip[t] \in DOMAIN Code(t), NEW a \in Addr
    PROVE  /\ ip[t] \in Places(client, t)
           /\ Put(mem, Instr(t))[a] = IF a \in Stores(client.code[t][ip[t]])
                                      THEN client.code[t][ip[t]].put ELSE mem[a]
           /\ \A u \in Thread \ {t} : PrivateByte(client, u, a) => Put(mem, Instr(t))[a] = mem[a]
<1>1. ip[t] \in Places(client, t)
    BY CodeOfClient DEF Code, RecordsOK
<1>2. Instr(t) = client.code[t][ip[t]]
    BY DEF Instr, Code
<1>3. Put(mem, Instr(t))[a] = IF a \in Stores(Instr(t)) THEN Instr(t).put ELSE mem[a]
    BY DEF Put
<1>4. ASSUME NEW u \in Thread \ {t}, PrivateByte(client, u, a)
      PROVE  a \notin Stores(client.code[t][ip[t]])
    BY <1>1, <1>4 DEF PrivateByte
<1> QED
    BY <1>1, <1>2, <1>3, <1>4

LEMMA ExecuteRight ==
    ASSUME IInv, RecordsOK, TallyOK, OperandsApart, NEW t \in Thread, Placed(t), ThreadOK(t),
           Paired(t), Execute(t)
    PROVE  ThreadOK(t)'
<1> DEFINE e == IF client.naive THEN <<>> ELSE Emits(Instr(t), mem, <<t, ip[t]>>)
           q == Todo(t)
<1>1. /\ queue[t] = <<>> /\ pass[t] = "none" /\ ip[t] \in DOMAIN Code(t)
      /\ client.naive => called[t]
      /\ buffer' = IF client.naive THEN buffer
                   ELSE [buffer EXCEPT ![t] = @ \o Emits(Instr(t), mem, <<t, ip[t]>>)]
      /\ mem' = Put(mem, Instr(t))
      /\ ip' = [ip EXCEPT ![t] = @ + 1]
      /\ called' = [called EXCEPT ![t] = FALSE]
      /\ UNCHANGED <<memory, look, client, queue, pass, nth, fetched, same, slotting, tally>>
    BY DEF Execute, Quiet, applying
<1>2. /\ \A a \in Addr : PrivateByte(client, t, a) => ValueOK(t, a)
      /\ QueueOK(client, t, Done(t), q) /\ SlotsOK(t)
    BY DEF ThreadOK, BytesOK
<1>3. /\ e \in Seq(Record) /\ client \in Clients /\ ip[t] \in Nat /\ ip[t] \in Places(client, t)
      /\ ~ client.naive => Emission(client, t, ip[t], e)
      /\ client.name = "redspy" => TwoRuns(client, t, ip[t], e)
    <2>1. Emits(Instr(t), mem, <<t, ip[t]>>) \in Seq(Record)
        BY <1>1, InstrAt
    <2>2. client.name = "redspy" => ~ client.naive
        BY ClientsAssumption DEF RecordsOK
    <2>3. /\ ip[t] \in Places(client, t)
          /\ ~ client.naive => Emission(client, t, ip[t], Emits(Instr(t), mem, <<t, ip[t]>>))
          /\ client.name = "redspy" => TwoRuns(client, t, ip[t], Emits(Instr(t), mem, <<t, ip[t]>>))
        BY <1>1, <1>2, InstrEmission
    <2> QED
        BY <2>1, <2>2, <2>3 DEF RecordsOK
<1>4. q = buffer[t] /\ q \in Seq(Record) /\ (client.naive => q = <<>>) /\ ip[t] >= 1
    BY <1>1, <1>3, IdleHas DEF Placed
<1> HIDE DEF e, q
<1>5. buffer'[t] = q \o e
    <2>1. CASE client.naive
        BY <1>1, <1>4, <2>1 DEF e
    <2>2. CASE ~ client.naive
        BY <1>1, <1>4, <2>2 DEF e, RecordsOK
    <2> QED
        BY <2>1, <2>2
<1>6. /\ Todo(t)' = q \o e /\ HeldOnce(t)' /\ Done(t)' = ip[t] /\ ip'[t] = ip[t] + 1
      /\ client' = client /\ pass'[t] = "none" /\ found'[t] = found[t] /\ queue'[t] = <<>>
    <2>1. queue'[t] = <<>> /\ ip'[t] = ip[t] + 1 /\ called'[t] = FALSE
        BY <1>1 DEF RecordsOK, TallyOK
    <2>2. Done(t)' = ip[t]
        BY <1>3, <2>1 DEF Done
    <2> QED
        BY <1>1, <1>5, <2>1, <2>2 DEF Todo, HeldOnce, tally
<1>7. /\ QueueOK(client, t, ip[t], q \o e)
      /\ \A a \in Addr : Past(client, t, ip[t], q \o e, 0, a) = Past(client, t, Done(t), q, 0, a)
    <2>1. CASE client.naive
        <3>1. Done(t) = ip[t] /\ q \o e = q
            BY <1>1, <1>4, <2>1 DEF Done, e
        <3> QED
            BY <1>2, <3>1
    <2>2. CASE ~ client.naive
        <3>1. Done(t) = ip[t] - 1
            BY <2>2 DEF Done, Placed
        <3>2. PICK d \in Nat : d + 1 = ip[t] /\ d = Done(t)
            BY <1>3, <1>4, <3>1
        <3>3. QueueOK(client, t, d, q) /\ Emission(client, t, d + 1, e)
            BY <1>2, <1>3, <2>2, <3>2
        <3> QED
            BY <1>3, <1>4, <3>2, <3>3, QueueGrows
    <2> QED
        BY <2>1, <2>2
<1>8. CellsKept
    BY <1>1, LooksLeft
<1>9. \A a \in Addr : PrivateByte(client, t, a) => CellAt(a)' = CellAt(a) /\ ValueOK(t, a)'
    <2> SUFFICES ASSUME NEW a \in Addr, PrivateByte(client, t, a) PROVE ValueOK(t, a)'
        BY <1>8 DEF CellsKept
    <2>1. mem[a] = Given(client, t, ip[t], a)
        BY <1>2 DEF ValueOK
    <2>2. mem'[a] = IF a \in Stores(client.code[t][ip[t]]) THEN client.code[t][ip[t]].put ELSE mem[a]
        BY <1>1, PutLeaves
    <2>3. mem'[a] = Given(client, t, ip[t] + 1, a)
        BY <1>3, <2>1, <2>2, GivenNext
    <2> QED
        BY <1>6, <2>3 DEF ValueOK
<1>10. NaiveOK(t)'
    BY <1>6 DEF NaiveOK
<1>11. SlotsOK(t)'
    <2>1. CASE client.name # "redspy"
        BY <1>6, <2>1, NotRedspy
    <2>2. CASE client.name = "redspy"
        <3>1. Chain(client, t, e) /\ (e # <<>> => e[1].kind = Before /\ IsOp(client, t, e[1], 1))
            BY <1>3, <2>2, RunsChain
        <3>2. Chain(client, t, q) /\ \A n \in 1 .. Len(q) : q[n].ctxt[2] \in Places(client, t)
            BY <1>2, <2>2 DEF SlotsOK, QueueOK, Fits, q
        <3>3. Chain(client, t, q \o e)
            BY <1>3, <1>4, <3>1, <3>2, ChainGrows
        <3>4. slot'[t] = slot[t] /\ slotNum'[t] = slotNum[t] /\ readIndex'[t] = readIndex[t]
            BY <1>1 DEF slotting
        <3>5. ASSUME q \o e # <<>>
              PROVE  HeadOK(client, t, (q \o e)[1], slot[t], slotNum[t], readIndex[t])
            <4>1. CASE q # <<>>
                <5>1. HeadOK(client, t, q[1], slot[t], slotNum[t], readIndex[t])
                    BY <1>2, <2>2, <4>1 DEF SlotsOK, q
                <5>2. (q \o e)[1] = q[1]
                    BY <1>3, <1>4, <4>1
                <5> QED
                    BY <5>1, <5>2
            <4>2. CASE q = <<>>
                <5>1. q \o e = e /\ e # <<>>
                    BY <1>3, <3>5, <4>2
                <5>2. slotNum[t] = 0 /\ readIndex[t] = 0
                    BY <1>1, QuietSlots
                <5>3. PICK s : s = e[1]
                    OBVIOUS
                <5>4. s \in Record /\ s.kind = Before /\ IsOp(client, t, s, 1) /\ s.ctxt[2] \in Places(client, t)
                    <6>1. 1 \in 1 .. Len(e) /\ e[1] \in Record
                        BY <1>3, <5>1
                    <6>2. Fits(client, t, ip[t], (q \o e)[1])
                        <7>1. (q \o e)[1] = e[1] /\ Len(q \o e) = Len(e)
                            BY <5>1
                        <7> QED
                            BY <1>7, <6>1, <7>1 DEF QueueOK
                    <6> QED
                        BY <3>1, <5>1, <5>3, <6>1, <6>2 DEF Fits
                <5>5. PICK L : L = Len(client.code[t][s.ctxt[2]].dst)
                    OBVIOUS
                <5>6. 1 \in 1 .. L
                    BY <1>3, <2>2, <5>4, <5>5, OpOfWrite
                <5>7. 0 = 1 - 1 /\ \A m \in 1 .. 0 : Kept(client, t, slot[t], s.ctxt[2], m)
                    OBVIOUS
                <5>8. HeadOK(client, t, s, slot[t], 0, 0)
                    BY <5>4, <5>5, <5>6, <5>7, HeadAt
                <5> QED
                    BY <5>1, <5>2, <5>3, <5>8
            <4> QED
                BY <4>1, <4>2
        <3> QED
            BY <1>6, <3>3, <3>4, <3>5 DEF SlotsOK
    <2> QED
        BY <2>1, <2>2
<1>12. QueueOK(client, t, Done(t), Todo(t))'
    BY <1>6, <1>7
<1>13. \A a \in Addr : Past(client, t, Done(t)', Todo(t)', 0, a) = Past(client, t, Done(t), Todo(t), 0, a)
    BY <1>6, <1>7 DEF q
<1> QED
    BY <1>1, <1>3, <1>6, <1>9, <1>10, <1>11, <1>12, <1>13, RestKept

-----------------------------------------------------------------------------
(* Every step keeps all threads right.                                     *)

LEMMA SlotsTypedInit == Init => SlotsTyped
BY DEF Init, SlotsTyped

LEMMA SlotsTypedKept ==
    ASSUME SlotsTyped, [Next]_vars
    PROVE  SlotsTyped'
<1>1. CASE \E t \in Thread : TakeRedspyBefore(t)
    <2>1. PICK t \in Thread : TakeRedspyBefore(t)
        BY <1>1
    <2>2. \/ slot' = slot
          \/ \E n, x : slot' = [slot EXCEPT ![t] = [slot[t] EXCEPT ![n] = x]]
        BY <2>1 DEF TakeRedspyBefore
    <2> QED
        BY <2>2 DEF SlotsTyped
<1>2. CASE slot' = slot
    BY <1>2 DEF SlotsTyped
<1>3. slot' = slot \/ \E t \in Thread : TakeRedspyBefore(t)
    <2>1. CASE UNCHANGED vars
        BY <2>1 DEF vars, slotting
    <2>2. CASE ProcessExit
        BY <2>2 DEF ProcessExit, slotting
    <2>3. ASSUME NEW t \in Thread, ThreadStep(t), ~ TakeRedspyBefore(t)
          PROVE  slot' = slot
        <3>1. CASE ThreadStart(t) \/ Deliver(t) \/ Call(t) \/ Execute(t)
            BY <3>1 DEF ThreadStart, Deliver, Call, Execute, slotting
        <3>2. CASE ThreadExit(t) \/ AddBytes(t) \/ AddFound(t)
            BY <3>2 DEF ThreadExit, AddBytes, AddFound, slotting
        <3>3. CASE Apply(t)
            <4>1. CASE TakeDeadspyRead(t) \/ TakeDeadspyWrite(t) \/ TakeLoadspyRead(t) \/ TakeRedspyAfter(t)
                BY <4>1 DEF TakeDeadspyRead, TakeDeadspyWrite, TakeLoadspyRead, TakeRedspyAfter, slotting
            <4>2. CASE StartLookup(t) \/ Advance(t) \/ MarkRead(t) \/ SkipRead(t) \/ TestMark(t) \/ SetMark(t)
                BY <4>2 DEF StartLookup, Advance, MarkRead, SkipRead, TestMark, SetMark, slotting
            <4>3. CASE Compare(t) \/ Copy(t) \/ Report(t) \/ Stamp(t) \/ EndAfter(t)
                BY <4>3 DEF Compare, Copy, Report, Stamp, EndAfter, slotting
            <4> QED
                BY <2>3, <3>3, <4>1, <4>2, <4>3 DEF Apply
        <3> QED
            BY <2>3, <3>1, <3>2, <3>3 DEF ThreadStep
    <2> QED
        BY <2>1, <2>2, <2>3 DEF Next
<1> QED
    BY <1>1, <1>2, <1>3

(* What is assumed of the programs. *)
Tame == OperandsApart /\ WritesFit /\ FewWrites

AllTyped == IInv /\ RecordsOK /\ TallyOK /\ SlotsTyped

LEMMA ApplyRight ==
    ASSUME AllTyped, Tame, NEW t \in Thread, Placed(t), ThreadOK(t), Apply(t)
    PROVE  ThreadOK(t)' /\ Leaves(t)
<1>0. IInv /\ RecordsOK /\ TallyOK /\ SlotsTyped /\ OperandsApart /\ WritesFit /\ FewWrites
    BY DEF AllTyped, Tame
<1>1. CASE TakeDeadspyRead(t) \/ TakeDeadspyWrite(t) \/ TakeLoadspyRead(t)
    BY <1>0, <1>1, TakeKept, TakeLeaves
<1>2. CASE TakeRedspyBefore(t)
    BY <1>0, <1>2, TakeBeforeKept, TakeLeaves
<1>3. CASE TakeRedspyAfter(t)
    BY <1>0, <1>3, TakeAfterKept, TakeLeaves
<1>4. CASE StartLookup(t)
    <2>1. queue[t] # <<>>
        BY <1>0, <1>4 DEF StartLookup, RecordsOK, InRecord
    <2> QED
        BY <1>0, <1>4, <2>1, LookupKept, ByteLeaves
<1>5. CASE Advance(t)
    <2>1. Leaves(t) /\ Still(t) /\ CellsKept
        BY <1>0, <1>5, AdvanceLeaves
    <2>2. CASE queue[t] # <<>>
        BY <1>0, <1>5, <2>1, <2>2, LookupKept
    <2>3. CASE queue[t] = <<>>
        <3>1. pass[t] # Reading
            BY <1>0, <2>3, IdleHas, PassesDiffer
        <3>2. BytesStill(t)
            BY <2>1 DEF BytesStill, Leaves, CellsKept
        <3> QED
            BY <1>0, <2>1, <3>1, <3>2, StillKept
    <2> QED
        BY <2>2, <2>3
<1>6. CASE MarkRead(t) \/ SkipRead(t)
    BY <1>0, <1>6, MarkReadKept, ByteLeaves
<1>7. CASE TestMark(t)
    BY <1>0, <1>7, TestMarkKept, ByteLeaves
<1>8. CASE SetMark(t)
    BY <1>0, <1>8, SetMarkKept, ByteLeaves
<1>9. CASE Compare(t)
    BY <1>0, <1>9, CompareKept, ByteLeaves
<1>10. CASE Copy(t)
    BY <1>0, <1>10, CopyKept, ByteLeaves
<1>11. CASE Report(t)
    BY <1>0, <1>11, ReportKept, ByteLeaves
<1>12. CASE Stamp(t)
    BY <1>0, <1>12, StampKept, ByteLeaves
<1>13. CASE EndAfter(t)
    BY <1>0, <1>13, EndKept, ByteLeaves
<1> QED
    BY <1>1, <1>2, <1>3, <1>4, <1>5, <1>6, <1>7, <1>8, <1>9, <1>10, <1>11, <1>12, <1>13 DEF Apply

LEMMA ExecuteLeaves ==
    ASSUME AllTyped, NEW t \in Thread, Execute(t), NEW u \in Thread \ {t}, ThreadOK(u)
    PROVE  ThreadOK(u)'
<1>1. /\ ip[t] \in DOMAIN Code(t)
      /\ buffer' = buffer \/ \E x : buffer' = [buffer EXCEPT ![t] = x]
      /\ mem' = Put(mem, Instr(t))
      /\ ip' = [ip EXCEPT ![t] = @ + 1]
      /\ called' = [called EXCEPT ![t] = FALSE]
      /\ UNCHANGED <<memory, look, client, queue, pass, nth, fetched, same, slotting, tally>>
    BY DEF Execute, applying
<1>2. IInv /\ RecordsOK /\ TallyOK
    BY DEF AllTyped
<1>3. CellsKept /\ step' = step /\ at' = at
    BY <1>1, <1>2, LooksLeft
<1>4. Still(u)
    BY <1>1, <1>2 DEF Still, RecordsOK, TallyOK, slotting, tally
<1>5. BytesStill(u)
    <2> SUFFICES ASSUME NEW a \in Addr, PrivateByte(client, u, a) PROVE mem'[a] = mem[a]
        BY <1>3 DEF BytesStill, CellsKept
    <2> QED
        BY <1>1, <1>2, PutLeaves
<1> QED
    BY <1>2, <1>3, <1>4, <1>5, StillKept

(* Nothing of a thread's is touched. *)
LEMMA NothingLeft ==
    ASSUME AllTyped, AllRight, memory' = memory \/ Destroy, look' = look,
           UNCHANGED <<client, ip, called, mem, buffer>>, UNCHANGED applying, UNCHANGED slotting,
           found' = found
    PROVE  AllRight'
<1>0. IInv /\ RecordsOK
    BY DEF AllTyped
<1>1. CellsKept /\ step' = step /\ at' = at
    <2>1. CASE memory' = memory
        BY <1>0, <2>1, SameMemory DEF look
    <2>2. CASE Destroy
        <3>1. Cells' = Cells
            BY <2>2 DEF Destroy, slots, Cells, CellAt
        <3> QED
            BY <3>1, CellsAreKept DEF look
    <2> QED
        BY <2>1, <2>2
<1>2. ASSUME NEW u \in Thread PROVE ThreadOK(u)'
    <2>1. Still(u)
        BY DEF Still, applying, slotting
    <2>2. BytesStill(u)
        BY <1>1 DEF BytesStill, CellsKept
    <2> QED
        BY <1>0, <1>1, <2>1, <2>2, StillKept DEF AllRight
<1> QED
    BY <1>2 DEF AllRight

LEMMA AllRightKept ==
    ASSUME Period = 1, Tame, AllTyped, CountsOK, AllPaired, AllRight, [Next]_vars
    PROVE  AllRight'
<1>0. IInv /\ RecordsOK /\ TallyOK /\ OperandsApart
    BY DEF AllTyped, Tame
<1>1. CASE UNCHANGED vars
    <2>1. /\ memory' = memory /\ look' = look /\ UNCHANGED <<client, ip, called, mem, buffer>>
          /\ UNCHANGED applying /\ UNCHANGED slotting /\ found' = found
        BY <1>1 DEF vars, program, tally
    <2> QED
        BY <2>1, NothingLeft
<1>2. CASE ProcessExit
    <2>1. /\ Destroy /\ look' = look /\ UNCHANGED <<client, ip, called, mem, buffer>>
          /\ UNCHANGED applying /\ UNCHANGED slotting /\ found' = found
        BY <1>2 DEF ProcessExit, program, tally, Destroy
    <2> QED
        BY <2>1, NothingLeft
<1>3. ASSUME NEW t \in Thread, ThreadStep(t) PROVE AllRight'
    <2>0. Placed(t) /\ ThreadOK(t) /\ Paired(t) /\ \A u \in Thread : ThreadOK(u)
        BY DEF CountsOK, AllPaired, AllRight
    <2>1. CASE AddBytes(t) \/ AddFound(t)
        <3>1. /\ memory' = memory /\ look' = look /\ UNCHANGED <<client, ip, called, mem, buffer>>
              /\ UNCHANGED applying /\ UNCHANGED slotting /\ found' = found
            BY <2>1 DEF AddBytes, AddFound, tally
        <3> QED
            BY <3>1, NothingLeft
    <2>2. CASE Execute(t)
        <3>1. ThreadOK(t)'
            BY <1>0, <2>0, <2>2, ExecuteRight
        <3>2. \A u \in Thread \ {t} : ThreadOK(u)'
            BY <2>0, <2>2, ExecuteLeaves
        <3> QED
            BY <3>1, <3>2 DEF AllRight
    <2>3. CASE ThreadStart(t) \/ Deliver(t) \/ ThreadExit(t) \/ Call(t) \/ Apply(t)
        <3>1. ThreadOK(t)' /\ Leaves(t)
            <4>1. CASE ThreadStart(t)
                BY <1>0, <2>0, <4>1, StartRight
            <4>2. CASE Deliver(t) \/ ThreadExit(t)
                BY <1>0, <2>0, <4>2, DeliveryRight
            <4>3. CASE Call(t)
                BY <1>0, <2>0, <4>3, CallRight
            <4>4. CASE Apply(t)
                BY <2>0, <4>4, ApplyRight
            <4> QED
                BY <2>3, <4>1, <4>2, <4>3, <4>4
        <3>2. \A u \in Thread \ {t} : ThreadOK(u)'
            BY <1>0, <2>0, <3>1, LeftAlone
        <3> QED
            BY <3>1, <3>2 DEF AllRight
    <2> QED
        BY <1>3, <2>1, <2>2, <2>3 DEF ThreadStep
<1> QED
    BY <1>1, <1>2, <1>3 DEF Next

-----------------------------------------------------------------------------
(* What the records say of waste is what the program says.                 *)

LEMMA LatestPositive ==
    ASSUME NEW n \in Nat, NEW T \in SUBSET (1 .. n), T # {}
    PROVE  Latest(T) \in T /\ Latest(T) >= 1
<1>1. Latest(T) \in {0} \cup T /\ \A i \in T : i <= Latest(T)
    <2>1. T \in SUBSET (0 .. n)
        OBVIOUS
    <2> QED
        BY <2>1, LatestOfSet
<1>2. PICK e \in 1 .. n : e \in T
    OBVIOUS
<1>3. \A x \in T : x \in Nat /\ x >= 1
    OBVIOUS
<1>4. e <= Latest(T)
    BY <1>1, <1>2
<1>5. Latest(T) # 0
    <2> SUFFICES ASSUME Latest(T) = 0 PROVE FALSE
        OBVIOUS
    <2>1. e <= 0
        BY <1>4
    <2> QED
        BY <2>1
<1> QED
    BY <1>1, <1>3, <1>5

LEMMA HalfLatest ==
    ASSUME NEW n \in Nat, NEW S \in SUBSET (0 .. (2 * n + 1)), NEW T \in SUBSET (1 .. n),
           \A x \in S : x >= 2 /\ x \div 2 \in T,
           \A i \in T : \E x \in S : x \div 2 = i
    PROVE  /\ Latest(S) \div 2 = Latest(T) /\ Latest(S) \in Nat /\ Latest(T) \in Nat
           /\ Latest(S) = 0 <=> Latest(T) = 0
           /\ \A x \in S : x <= Latest(S)
           /\ Latest(T) \in {0} \cup T /\ Latest(S) \in {0} \cup S
<1>1. /\ Latest(S) \in {0} \cup S /\ Latest(S) \in 0 .. (2 * n + 1) /\ \A x \in S : x <= Latest(S)
    <2>1. 2 * n + 1 \in Nat
        OBVIOUS
    <2> QED
        BY <2>1, LatestOfSet
<1>2. /\ Latest(T) \in {0} \cup T /\ Latest(T) \in 0 .. n /\ \A i \in T : i <= Latest(T)
    BY LatestOfSet, SMTT(30)
<1>3. PICK s \in Nat, k \in Nat : s = Latest(S) /\ k = Latest(T)
    BY <1>1, <1>2
<1>4. CASE T = {}
    <2>1. S = {}
        BY <1>4
    <2>2. s = 0 /\ k = 0
        BY <1>1, <1>2, <1>3, <1>4, <2>1
    <2>3. s \div 2 = 0
        <3> DEFINE d == s \div 2
                   r == s % 2
        <3>1. d \in Nat /\ s = 2 * d + r /\ r \in Nat
            BY QuotientAndRest
        <3> HIDE DEF d, r
        <3>2. d = 0
            BY <2>2, <3>1
        <3> QED
            BY <3>2 DEF d
    <2> QED
        BY <1>3, <1>4, <2>1, <2>2, <2>3
<1>5. CASE T # {}
    <2>1. k \in T /\ k >= 1
        BY <1>3, <1>5, LatestPositive
    <2>2. PICK x \in S : x \div 2 = k
        BY <2>1
    <2>3. x \in Nat /\ x <= s /\ s >= 2 /\ s \in S
        BY <1>1, <1>3, <2>2
    <2>4. s \div 2 \in T /\ s \div 2 <= k
        BY <1>2, <1>3, <2>3
    <2>5. s \div 2 >= k
        BY <2>2, <2>3
    <2>6. s \div 2 = k
        BY <2>4, <2>5
    <2> QED
        BY <1>1, <1>2, <1>3, <2>1, <2>3, <2>6
<1> QED
    BY <1>4, <1>5

TrackedBefore(t, j, a) == {i \in 1 .. (j - 1) : a \in Tracked(t, i)}

LEMMA LastsAre ==
    ASSUME NEW t, NEW j, NEW a
    PROVE  /\ LastBefore(t, j, a, Tracked) = Latest(TrackedBefore(t, j, a))
           /\ client \in Clients => ValueAt(t, j, a) = Given(client, t, j, a)
<1>1. LastBefore(t, j, a, Tracked) = Latest(TrackedBefore(t, j, a))
    BY DEF LastBefore, Latest, TrackedBefore
<1>2. LastBefore(t, j, a, Written) = Latest(WritesBefore(client, t, j, a))
    BY DEF LastBefore, Latest, WritesBefore, Written, Code
<1>3. ValueAt(t, j, a) = Given(client, t, j, a)
    BY <1>2 DEF ValueAt, Given, Code
<1> QED
    BY <1>1, <1>3

LEMMA JudgedAre ==
    ASSUME client \in Clients, NEW t \in Thread, NEW j \in Places(client, t)
    PROVE  /\ Judged(t, j) = Accesses(client, t, j, JudgedKind(client))
           /\ client.name = "deadspy" =>
                /\ Accesses(client, t, j, Read) = client.code[t][j].src
                /\ Accesses(client, t, j, Before) = client.code[t][j].dst
           /\ \A a : a \in Tracked(t, j) <=> \E k \in Acting(client) : a \in BytesOf(Accesses(client, t, j, k))
<1>1. client.name \in {"deadspy", "loadspy", "redspy"}
    BY ClientsAssumption
<1>2. Judged(t, j) = Accesses(client, t, j, JudgedKind(client))
    BY <1>1, KindsDiffer DEF Judged, Accesses, JudgedKind, OpsOf, Code
<1>3. client.name = "deadspy" => /\ Accesses(client, t, j, Read) = client.code[t][j].src
                                 /\ Accesses(client, t, j, Before) = client.code[t][j].dst
    BY KindsDiffer DEF Accesses, OpsOf
<1>4. ASSUME NEW a
      PROVE  a \in Tracked(t, j) <=> \E k \in Acting(client) : a \in BytesOf(Accesses(client, t, j, k))
    <2>1. CASE client.name = "deadspy"
        BY <1>3, <2>1 DEF Tracked, Touched, Acting, Code
    <2>2. CASE client.name # "deadspy"
        <3>1. Acting(client) = {JudgedKind(client)}
            BY <2>2 DEF Acting, JudgedKind
        <3>2. Tracked(t, j) = BytesOf(Accesses(client, t, j, JudgedKind(client)))
            BY <1>2, <2>2 DEF Tracked
        <3> QED
            BY <3>1, <3>2
    <2> QED
        BY <2>1, <2>2
<1> QED
    BY <1>2, <1>3, <1>4

(* The change before a judged access is that of the last tracked access before it. *)
LEMMA PrevIs ==
    ASSUME client \in Clients, NEW t \in Thread, NEW j \in Places(client, t), NEW a,
           NEW m, m = Moment(client, j, JudgedKind(client)),
           NEW l, l = Latest(TrackedBefore(t, j, a)),
           client.name = "deadspy" => a \notin BytesOf(client.code[t][j].src)
    PROVE  /\ Prev(client, t, m, a) \div 2 = l /\ l \in Nat
           /\ Prev(client, t, m, a) = 0 <=> l = 0
           /\ \A x \in Earlier(client, t, m, a) : x <= Prev(client, t, m, a)
           /\ Prev(client, t, m, a) \in {0} \cup Earlier(client, t, m, a) /\ l \in 0 .. (j - 1)
           /\ l > 0 => a \in Tracked(t, l) /\ l \in Places(client, t)
<1> DEFINE c == client
           S == Earlier(c, t, m, a)
           T == TrackedBefore(t, j, a)
           L == Len(c.code[t])
           K == JudgedKind(c)
<1>1. j \in Nat /\ L \in Nat /\ j \in 1 .. L /\ K \in Acting(c)
    BY CodeOfClient, JudgedActs DEF Places
<1>2. m \in Nat /\ m >= 2 * j /\ m <= 2 * j + 1
    BY <1>1, MomentIsNumber
<1>3. S \in SUBSET (0 .. (2 * L + 1))
    BY MomentsHave DEF Earlier, Moments
<1>4. T \in SUBSET (1 .. L)
    BY <1>1 DEF TrackedBefore
<1>5. ASSUME NEW x \in S PROVE x >= 2 /\ x \div 2 \in T
    <2>1. x \in Moments(c, t, a) /\ x < m /\ x >= 2 /\ x \in Nat
        BY MomentsHave DEF Earlier, Moments
    <2>2. PICK i \in Places(c, t), k \in Acting(c) :
             x = Moment(c, i, k) /\ a \in BytesOf(Accesses(c, t, i, k))
        BY <2>1 DEF Moments, MomentsIn
    <2>3. i \in Nat /\ i >= 1 /\ x \div 2 = i /\ x >= 2 * i /\ x <= 2 * i + 1
        BY <2>2, MomentIsNumber DEF Places
    <2>4. i <= j
        BY <1>1, <1>2, <2>1, <2>3
    <2>5. i # j
        <3> SUFFICES ASSUME i = j PROVE FALSE
            OBVIOUS
        <3>1. k # K
            BY <2>1, <2>2
        <3>2. c.name = "deadspy" /\ k = Read
            BY <3>1 DEF Acting, JudgedKind
        <3> QED
            BY <2>2, <3>2, JudgedAre
    <2>6. a \in Tracked(t, i)
        BY <2>2, JudgedAre
    <2> QED
        BY <1>1, <2>1, <2>3, <2>4, <2>5, <2>6 DEF TrackedBefore
<1>6. ASSUME NEW i \in T PROVE \E x \in S : x \div 2 = i
    <2>1. i \in Places(c, t) /\ i \in Nat /\ i <= j - 1 /\ a \in Tracked(t, i)
        BY <1>1 DEF TrackedBefore, Places
    <2>2. PICK k \in Acting(c) : a \in BytesOf(Accesses(c, t, i, k))
        BY <2>1, JudgedAre
    <2>3. Moment(c, i, k) \in Moments(c, t, a)
        BY <2>1, <2>2, MomentsHave DEF Moments
    <2>4. Moment(c, i, k) \in Nat /\ Moment(c, i, k) <= 2 * i + 1 /\ Moment(c, i, k) \div 2 = i
        BY <2>1, MomentIsNumber
    <2>5. Moment(c, i, k) < m
        BY <1>1, <1>2, <2>1, <2>4
    <2> QED
        BY <2>3, <2>4, <2>5 DEF Earlier
<1> HIDE DEF S, T, L, K
<1>7. /\ Latest(S) \div 2 = Latest(T) /\ Latest(S) \in Nat /\ Latest(T) \in Nat
      /\ Latest(S) = 0 <=> Latest(T) = 0
      /\ \A x \in S : x <= Latest(S)
      /\ Latest(T) \in {0} \cup T /\ Latest(S) \in {0} \cup S
    BY <1>1, <1>3, <1>4, <1>5, <1>6, HalfLatest
<1>8. Prev(c, t, m, a) = Latest(S) /\ l = Latest(T)
    BY DEF Prev, S, T
<1>9. \A i \in T : i \in 1 .. (j - 1) /\ a \in Tracked(t, i) /\ i \in Places(c, t)
    BY <1>1, <1>4 DEF T, TrackedBefore, Places, L
<1>10. l \in 0 .. (j - 1)
    BY <1>1, <1>7, <1>8, <1>9
<1>11. l > 0 => l \in T
    BY <1>7, <1>8
<1> QED
    BY <1>7, <1>8, <1>9, <1>10, <1>11 DEF S

(* deadspy: the last change is a write if the last instruction to touch the byte writes it. *)
LEMMA PrevWrites ==
    ASSUME client \in Clients, client.name = "deadspy", OperandsApart,
           NEW t \in Thread, NEW j \in Places(client, t), NEW a,
           NEW m, m = Moment(client, j, Before), NEW l, l = Latest(TrackedBefore(t, j, a)),
           a \notin BytesOf(client.code[t][j].src)
    PROVE  Prev(client, t, m, a) \in Writes(client, t, a) <=> l > 0 /\ a \in BytesOf(Code(t)[l].dst)
<1> DEFINE c == client
           p == Prev(c, t, m, a)
           S == Earlier(c, t, m, a)
<1>1. JudgedKind(c) = Before /\ Acting(c) = {Read, Before}
    BY DEF JudgedKind, Acting
<1>2. /\ p \div 2 = l /\ l \in Nat /\ (p = 0 <=> l = 0) /\ \A x \in S : x <= p
      /\ p \in {0} \cup S /\ l \in 0 .. (j - 1) /\ (l > 0 => l \in Places(c, t))
    BY <1>1, PrevIs
<1> HIDE DEF p
<1>3. ASSUME p \in Writes(c, t, a) PROVE l > 0 /\ a \in BytesOf(Code(t)[l].dst)
    <2>1. PICK i \in Places(c, t) : p = Moment(c, i, Before) /\ a \in BytesOf(Accesses(c, t, i, Before))
        BY <1>3 DEF Writes, MomentsIn
    <2>2. i \in Nat /\ i >= 1 /\ p \div 2 = i
        BY <2>1, MomentIsNumber DEF Places
    <2> QED
        BY <1>2, <2>1, <2>2, JudgedAre DEF Code
<1>4. ASSUME l > 0, a \in BytesOf(Code(t)[l].dst) PROVE p \in Writes(c, t, a)
    <2>1. l \in Places(c, t) /\ a \in BytesOf(Accesses(c, t, l, Before)) /\ p \in S /\ p \in Moments(c, t, a)
        BY <1>2, <1>4, JudgedAre DEF Code, Earlier
    <2>2. PICK i \in Places(c, t), k \in Acting(c) : p = Moment(c, i, k) /\ a \in BytesOf(Accesses(c, t, i, k))
        BY <2>1 DEF Moments, MomentsIn
    <2>3. i = l
        BY <1>2, <2>2, MomentIsNumber DEF Places
    <2>4. k = Before
        <3> SUFFICES ASSUME k # Before PROVE FALSE
            OBVIOUS
        <3>1. k = Read /\ a \in BytesOf(c.code[t][l].src) /\ a \in BytesOf(c.code[t][l].dst)
            BY <1>1, <2>1, <2>2, <2>3, JudgedAre
        <3>2. c.naive
            <4>1. l \in DOMAIN c.code[t]
                BY <2>1, CodeOfClient
            <4> QED
                BY <3>1, <4>1 DEF OperandsApart
        <3>3. p = 2 * l /\ Moment(c, l, Before) = 2 * l + 1
            BY <2>2, <2>3, <3>1, <3>2, KindsDiffer DEF Moment, FirstKind
        <3>4. Moment(c, l, Before) \in S
            <4>1. Moment(c, l, Before) \in Moments(c, t, a)
                BY <1>1, <2>1, MomentsHave DEF Moments
            <4>2. m \in Nat /\ m >= 2 * j /\ j \in Nat
                BY MomentIsNumber DEF Places
            <4>3. Moment(c, l, Before) < m
                BY <1>2, <3>3, <4>2
            <4> QED
                BY <4>1, <4>3 DEF Earlier
        <3> QED
            BY <1>2, <3>3, <3>4
    <2> QED
        BY <2>1, <2>2, <2>3, <2>4, MomentsHave DEF Writes
<1> QED
    BY <1>3, <1>4 DEF p

(* deadspy: an instruction that reads what it writes does not waste what was there. *)
LEMMA ReadFirst ==
    ASSUME client \in Clients, client.name = "deadspy", OperandsApart,
           NEW t \in Thread, NEW j \in Places(client, t), NEW a,
           NEW m, m = Moment(client, j, Before),
           a \in BytesOf(client.code[t][j].src), a \in BytesOf(client.code[t][j].dst)
    PROVE  Prev(client, t, m, a) \notin Writes(client, t, a)
<1> DEFINE c == client
           p == Prev(c, t, m, a)
           S == Earlier(c, t, m, a)
<1>1. c.naive /\ j \in Nat /\ Len(c.code[t]) \in Nat
    <2>1. j \in DOMAIN c.code[t] /\ Len(c.code[t]) \in Nat
        BY CodeOfClient
    <2> QED
        BY <2>1, SMTT(30) DEF OperandsApart, Places
<1>2. Moment(c, j, Read) = 2 * j /\ m = 2 * j + 1
    BY <1>1, KindsDiffer DEF Moment, FirstKind
<1>3. Moment(c, j, Read) \in S
    <2>1. Moment(c, j, Read) \in Moments(c, t, a)
        <3>1. a \in BytesOf(Accesses(c, t, j, Read)) /\ Read \in Acting(c)
            BY JudgedAre DEF Acting
        <3> QED
            BY <3>1, MomentsHave DEF Moments
    <2> QED
        BY <1>1, <1>2, <2>1 DEF Earlier
<1>4. S \in SUBSET (0 .. (2 * Len(c.code[t]) + 1)) /\ 2 * Len(c.code[t]) + 1 \in Nat
    BY <1>1, MomentsHave DEF Earlier, Moments
<1>5. Latest(S) \in {0} \cup S /\ Latest(S) \in Nat /\ \A x \in S : x <= Latest(S)
    <2> HIDE DEF S
    <2> QED
        BY <1>4, LatestOfSet, SMTT(30)
<1>6. p = Latest(S) /\ \A x \in S : x < m
    BY DEF Prev, Earlier
<1>7. p = Moment(c, j, Read)
    <2>1. p \in Nat /\ p >= 2 * j
        BY <1>2, <1>3, <1>5, <1>6
    <2>2. p \in S
        BY <1>1, <1>2, <1>3, <1>5, <1>6, <2>1 DEF Places
    <2>3. p < 2 * j + 1
        BY <1>2, <1>6, <2>2
    <2> HIDE DEF p, S
    <2> QED
        BY <1>1, <1>2, <2>1, <2>3
<1>8. ASSUME p \in Writes(c, t, a) PROVE FALSE
    <2>1. PICK i \in Places(c, t) : p = Moment(c, i, Before)
        BY <1>8 DEF Writes, MomentsIn
    <2>2. i \in Nat /\ Read \in Acting(c) /\ Before \in Acting(c)
        BY DEF Acting, Places
    <2> HIDE DEF p
    <2> QED
        BY <1>1, <1>7, <2>1, <2>2, MomentsDiffer, KindsDiffer
<1> QED
    BY <1>8

-----------------------------------------------------------------------------
(* What has been counted at the end is what the program wastes.            *)

LEMMA CtxtsDiffer ==
    ASSUME NEW t, NEW i \in Nat, NEW l \in Nat, CtxtOf(t, i) = CtxtOf(t, l)
    PROVE  i = l
BY DEF CtxtOf, NoCtxt

(* A byte of a judged operand speaks for waste exactly if the program says so. *)
LEMMA DeadByte ==
    ASSUME client \in Clients, client.name = "deadspy", OperandsApart,
           NEW t \in Thread, NEW j \in Places(client, t),
           NEW a, a \in BytesOf(Judged(t, j)),
           NEW m, m = Moment(client, j, JudgedKind(client)),
           NEW l, l = LastBefore(t, j, a, Tracked)
    PROVE  Wastes(client, t, m, a) <=>
             a \notin BytesOf(Code(t)[j].src) /\ l > 0 /\ a \in BytesOf(Code(t)[l].dst)
<1>1. l = Latest(TrackedBefore(t, j, a))
    BY LastsAre
<1>2. JudgedKind(client) = Before
    BY DEF JudgedKind
<1>3. Wastes(client, t, m, a) <=> Prev(client, t, m, a) \in Writes(client, t, a)
    BY DEF Wastes
<1>4. CASE a \notin BytesOf(client.code[t][j].src)
    BY <1>1, <1>2, <1>3, <1>4, PrevWrites DEF Code
<1>5. CASE a \in BytesOf(client.code[t][j].src)
    <2>1. a \in BytesOf(client.code[t][j].dst)
        <3>1. Judged(t, j) = client.code[t][j].dst
            BY DEF Judged, Code
        <3> QED
            BY <3>1
    <2> QED
        BY <1>2, <1>3, <1>5, <2>1, ReadFirst DEF Code
<1> QED
    BY <1>4, <1>5

LEMMA ValueByte ==
    ASSUME client \in Clients, client.name # "deadspy",
           NEW t \in Thread, NEW j \in Places(client, t), NEW a,
           NEW m, m = Moment(client, j, JudgedKind(client)),
           NEW l, l = LastBefore(t, j, a, Tracked)
    PROVE  /\ client.name = "loadspy" =>
                (Wastes(client, t, m, a) <=> ValueAt(t, j, a) = IF l = 0 THEN 0 ELSE ValueAt(t, l, a))
           /\ client.name = "redspy" =>
                (Wastes(client, t, m, a) <=> ValueAt(t, j, a) = Code(t)[j].put)
<1>1. l = Latest(TrackedBefore(t, j, a))
    BY LastsAre
<1>2. m \div 2 = j
    BY MomentIsNumber DEF Places
<1>3. ValueAt(t, j, a) = Given(client, t, j, a) /\ ValueAt(t, l, a) = Given(client, t, l, a)
    BY LastsAre
<1>4. Prev(client, t, m, a) \div 2 = l /\ (Prev(client, t, m, a) = 0 <=> l = 0)
    BY <1>1, PrevIs
<1>5. ASSUME client.name = "loadspy"
      PROVE  Wastes(client, t, m, a) <=> ValueAt(t, j, a) = IF l = 0 THEN 0 ELSE ValueAt(t, l, a)
    <2>1. MarkAfter(client, t, Prev(client, t, m, a), a) = IF l = 0 THEN 0 ELSE Given(client, t, l, a)
        BY <1>4, <1>5 DEF MarkAfter
    <2> QED
        BY <1>2, <1>3, <1>5, <2>1 DEF Wastes
<1>6. ASSUME client.name = "redspy"
      PROVE  Wastes(client, t, m, a) <=> ValueAt(t, j, a) = Code(t)[j].put
    BY <1>2, <1>3, <1>6 DEF Wastes, Code
<1> QED
    BY <1>5, <1>6

LEMMA WastefulIs ==
    ASSUME client \in Clients, OperandsApart, NEW t \in Thread, NEW j \in Places(client, t),
           NEW n \in DOMAIN Judged(t, j),
           NEW m, m = Moment(client, j, JudgedKind(client))
    PROVE  WasteIn(client, t, m, Judged(t, j)[n]) = Wasteful(t, j, Judged(t, j)[n])
<1> DEFINE o == Judged(t, j)[n]
           B == OperandBytes(o)
           prev(a) == LastBefore(t, j, a, Tracked)
<1>1. BytesFrom(o, 0) = B /\ \A a \in B : a \in BytesOf(Judged(t, j))
    BY DEF BytesFrom, OperandBytes, BytesOf
<1>2. client.name \in {"deadspy", "loadspy", "redspy"}
    BY ClientsAssumption
<1> HIDE DEF B, o
<1>3. CASE client.name = "deadspy"
    <2>1. WasteIn(client, t, m, o) = {a \in B : Wastes(client, t, m, a)}
        BY <1>1, <1>3 DEF WasteIn
    <2>2. Wasteful(t, j, o) =
             {a \in B \ BytesOf(Code(t)[j].src) : prev(a) > 0 /\ a \in BytesOf(Code(t)[prev(a)].dst)}
        BY <1>3 DEF Wasteful, B
    <2>3. ASSUME NEW a \in B
          PROVE  Wastes(client, t, m, a) <=>
                   a \notin BytesOf(Code(t)[j].src) /\ prev(a) > 0 /\ a \in BytesOf(Code(t)[prev(a)].dst)
        <3>1. a \in BytesOf(Judged(t, j))
            BY <1>1
        <3> QED
            BY <1>3, <3>1, DeadByte
    <2> HIDE DEF prev
    <2>4. WasteIn(client, t, m, o) = Wasteful(t, j, o)
        BY <2>1, <2>2, <2>3
    <2> QED
        BY <2>4 DEF o
<1>4. CASE client.name = "loadspy"
    <2>1. WasteIn(client, t, m, o) = IF \A a \in B : Wastes(client, t, m, a) THEN B ELSE {}
        BY <1>1, <1>4 DEF WasteIn
    <2>2. Wasteful(t, j, o) =
             IF \A a \in B : ValueAt(t, j, a) = IF prev(a) = 0 THEN 0 ELSE ValueAt(t, prev(a), a)
             THEN B ELSE {}
        BY <1>4 DEF Wasteful, B
    <2>3. \A a \in B : Wastes(client, t, m, a) <=>
             ValueAt(t, j, a) = IF prev(a) = 0 THEN 0 ELSE ValueAt(t, prev(a), a)
        BY <1>4, ValueByte
    <2> HIDE DEF prev
    <2>4. WasteIn(client, t, m, o) = Wasteful(t, j, o)
        BY <2>1, <2>2, <2>3
    <2> QED
        BY <2>4 DEF o
<1>5. CASE client.name = "redspy"
    <2>1. WasteIn(client, t, m, o) = IF \A a \in B : Wastes(client, t, m, a) THEN B ELSE {}
        BY <1>1, <1>5 DEF WasteIn
    <2>2. Wasteful(t, j, o) = IF \A a \in B : ValueAt(t, j, a) = Code(t)[j].put THEN B ELSE {}
        BY <1>5 DEF Wasteful, B
    <2>3. \A a \in B : Wastes(client, t, m, a) <=> ValueAt(t, j, a) = Code(t)[j].put
        BY <1>5, ValueByte
    <2>4. WasteIn(client, t, m, o) = Wasteful(t, j, o)
        BY <2>1, <2>2, <2>3
    <2> QED
        BY <2>4 DEF o
<1> QED
    BY <1>2, <1>3, <1>4, <1>5

LEMMA WasteIs ==
    ASSUME client \in Clients, OperandsApart, NEW t \in Thread, NEW j \in Places(client, t), NEW i \in Nat
    PROVE  WasteOf(client, t, i, j) = Wasted(t, i, j)
<1> DEFINE m == Moment(client, j, JudgedKind(client))
           os == Judged(t, j)
           U == UNION {WasteIn(client, t, m, os[n]) : n \in DOMAIN os}
           V == UNION {Wasteful(t, j, os[n]) : n \in DOMAIN os}
<1>1. WasteOf(client, t, i, j) = {a \in U : CtxtAfter(t, Prev(client, t, m, a)) = CtxtOf(t, i)}
    <2> DEFINE as == Accesses(client, t, j, JudgedKind(client))
    <2>1. as = os
        BY JudgedAre
    <2>2. WasteOf(client, t, i, j) =
             {a \in UNION {WasteIn(client, t, m, as[n]) : n \in DOMAIN as} :
                CtxtAfter(t, Prev(client, t, m, a)) = CtxtOf(t, i)}
        BY DEF WasteOf
    <2> HIDE DEF m, as, os
    <2> QED
        BY <2>1, <2>2
<1>2. Wasted(t, i, j) = {a \in V : LastBefore(t, j, a, Tracked) = i}
    BY DEF Wasted
<1>3. U = V
    <2>1. \A n \in DOMAIN os : WasteIn(client, t, m, os[n]) = Wasteful(t, j, os[n])
        BY WastefulIs
    <2> HIDE DEF m
    <2> QED
        BY <2>1
<1>4. ASSUME NEW a \in V
      PROVE  CtxtAfter(t, Prev(client, t, m, a)) = CtxtOf(t, i) <=> LastBefore(t, j, a, Tracked) = i
    <2>1. client.name = "deadspy" => a \notin BytesOf(client.code[t][j].src)
        BY <1>4 DEF Wasteful, Code
    <2>2. PICK l : l = LastBefore(t, j, a, Tracked)
        OBVIOUS
    <2>3. l = Latest(TrackedBefore(t, j, a))
        BY <2>2, LastsAre
    <2>4. Prev(client, t, m, a) \div 2 = l /\ l \in Nat
        BY <2>1, <2>3, PrevIs
    <2>5. CtxtAfter(t, Prev(client, t, m, a)) = CtxtOf(t, l)
        BY <2>4 DEF CtxtAfter
    <2> QED
        BY <2>2, <2>4, <2>5, CtxtsDiffer
<1> HIDE DEF U, V, m
<1> QED
    BY <1>1, <1>2, <1>3, <1>4

-----------------------------------------------------------------------------
(* At the start and at the end.                                            *)

LEMMA NoMoments ==
    ASSUME client \in Clients, NEW t \in Thread, NEW a, NEW q, NEW s
    PROVE  Past(client, t, 0, q, s, a) = {}
<1>1. \A m \in Moments(client, t, a) : m >= 2 /\ m \in Nat
    BY MomentsHave DEF Moments
<1>2. \A m \in Moments(client, t, a) : ~ (m <= 2 * 0 + 1)
    BY <1>1
<1> QED
    BY <1>2 DEF Past

LEMMA MomentZero ==
    ASSUME client \in Clients, NEW t \in Thread, NEW a
    PROVE  /\ Latest({}) = 0 /\ 0 \notin Writes(client, t, a)
           /\ CtxtAfter(t, 0) = NoCtxt
           /\ client.name # "redspy" => MarkAfter(client, t, 0, a) = 0
<1>1. Latest({}) = 0
    <2>1. {} \in SUBSET (0 .. 0) /\ 0 \in Nat
        OBVIOUS
    <2>2. Latest({}) \in {0} \cup {}
        BY <2>1, LatestOfSet
    <2> QED
        BY <2>2
<1>2. 0 \notin Writes(client, t, a)
    <2>1. \A m \in Writes(client, t, a) : m >= 2
        BY MomentsHave DEF Writes
    <2>2. ~ (0 >= 2)
        OBVIOUS
    <2> QED
        BY <2>1, <2>2
<1>3. CtxtAfter(t, 0) = NoCtxt
    <2> DEFINE d == 0 \div 2
               r == 0 % 2
    <2>1. d \in Nat /\ 0 = 2 * d + r /\ r \in Nat
        BY QuotientAndRest
    <2> HIDE DEF d, r
    <2>2. d = 0
        BY <2>1
    <2> QED
        BY <2>2 DEF CtxtAfter, CtxtOf, d
<1>4. client.name # "redspy" => MarkAfter(client, t, 0, a) = 0
    <2>1. client.name = "deadspy" => MarkAfter(client, t, 0, a) = ReadAction
        BY <1>2 DEF MarkAfter
    <2>2. client.name # "deadspy" => MarkAfter(client, t, 0, a) = 0
        BY DEF MarkAfter
    <2> QED
        BY <2>1, <2>2 DEF ReadAction
<1> QED
    BY <1>1, <1>2, <1>3, <1>4

LEMMA AllRightInit ==
    ASSUME Init
    PROVE  AllRight
<1> SUFFICES ASSUME NEW t \in Thread PROVE ThreadOK(t)
    BY DEF AllRight
<1>1. /\ client \in Clients /\ ip[t] = 1 /\ ~ called[t] /\ buffer[t] = <<>> /\ queue[t] = <<>>
      /\ pass[t] = "none" /\ found[t] = EmptyBag /\ \A a \in Addr : mem[a] = 0
    BY DEF Init
<1>2. Todo(t) = <<>> /\ Done(t) = 0 /\ HeldOnce(t)
    BY <1>1 DEF Todo, Done, HeldOnce
<1>3. \A a \in Addr : CellAt(a) = Zero
    <2> SUFFICES ASSUME NEW a \in Addr PROVE CellAt(a) = Zero
        OBVIOUS
    <2>1. directory = [d \in DirSlot |-> NULL] /\ a[1] \in DirSlot
        BY DEF Init, ShadowInit, Addr
    <2> QED
        BY <2>1 DEF CellAt
<1>4. \A a : PastNow(t, a) = {} /\ MarkNow(t, a) = Latest({}) /\ StampNow(t, a) = Latest({})
    BY <1>1, <1>2, NoMoments DEF PastNow, MarkNow, StampNow, LastPast
<1>5. BytesOK(t)
    <2> SUFFICES ASSUME NEW a \in Addr PROVE MarkOK(t, a) /\ CtxtOK(t, a) /\ ValueOK(t, a)
        BY DEF BytesOK
    <2>1. MarkNow(t, a) = 0 /\ StampNow(t, a) = 0
        BY <1>1, <1>4, MomentZero
    <2>2. CellAt(a).mark = 0 /\ CellAt(a).ctxt = NoCtxt
        BY <1>3, ZeroAssumption DEF ReadAction
    <2>3. MarkOK(t, a)
        BY <1>1, <2>1, <2>2, MomentZero DEF MarkOK
    <2>4. CtxtOK(t, a)
        BY <1>1, <2>1, <2>2, MomentZero DEF CtxtOK
    <2>5. ValueOK(t, a)
        <3>1. WritesBefore(client, t, 1, a) = {}
            <4>1. 1 .. (1 - 1) = {}
                OBVIOUS
            <4> QED
                BY <4>1 DEF WritesBefore
        <3>2. Given(client, t, 1, a) = 0
            BY <1>1, <3>1, MomentZero DEF Given
        <3> QED
            BY <1>1, <3>2 DEF ValueOK
    <2> QED
        BY <2>3, <2>4, <2>5
<1>6. KindOK(t) /\ PassOK(t) /\ MissOK(t)
    BY <1>1, PassesDiffer DEF KindOK, PassOK, MissOK
<1>7. CountOK(t)
    <2>1. \A x : Counted(t, x) = 0
        BY <1>1 DEF Counted, BagIn, EmptyBag, BagToSet, SetToBag
    <2>2. \A i, j : Reported(t, i, j) = {}
        BY <1>4 DEF Reported
    <2>3. Cardinality({}) = 0
        BY FS_EmptySet
    <2> QED
        BY <2>1, <2>2, <2>3 DEF CountOK
<1>8. QueueOK(client, t, Done(t), Todo(t)) /\ NaiveOK(t) /\ SlotsOK(t)
    <2>1. 1 .. Len(<<>>) = {} /\ 1 .. (Len(<<>>) - 1) = {} /\ DOMAIN <<>> = {}
        OBVIOUS
    <2>2. QueueOK(client, t, Done(t), Todo(t))
        BY <1>2, <2>1 DEF QueueOK, InOrder, Complete
    <2> QED
        BY <1>1, <1>2, <2>1, <2>2 DEF NaiveOK, SlotsOK, Chain
<1> QED
    BY <1>2, <1>5, <1>6, <1>7, <1>8 DEF ThreadOK

(* With nothing left to apply everything that was to be reported has been. *)
LEMMA SettledIsExact ==
    ASSUME OperandsApart, RecordsOK, NEW t \in Thread, Placed(t), ThreadOK(t), Settled(t),
           NEW j \in 1 .. (ip[t] - 1), NEW i \in 0 .. (ip[t] - 1), Private(t, j)
    PROVE  Counted(t, <<CtxtOf(t, i), CtxtOf(t, j)>>) = Cardinality(Wasted(t, i, j))
<1> DEFINE K == JudgedKind(client)
           os == Accesses(client, t, j, K)
<1>1. client \in Clients /\ ip[t] \in Nat
    BY DEF RecordsOK
<1>2. queue[t] = <<>> /\ Todo(t) = <<>> /\ pass[t] = "none" /\ ReviewedAt(t) = 0
    <2>1. queue[t] = <<>> /\ pass[t] = "none"
        BY <1>1, IdleHas DEF Settled, Quiet
    <2> QED
        BY <2>1, AtRest DEF Todo, Settled
<1>3. j \in Places(client, t) /\ i \in {0} \cup Places(client, t) /\ i \in Nat /\ j \in Nat
    <2>1. Len(client.code[t]) \in Nat /\ ip[t] - 1 <= Len(client.code[t])
        BY <1>1, CodeOfClient DEF Placed, Code
    <2> QED
        BY <1>1, <2>1 DEF Places
<1>4. Done(t) \in Nat /\ j <= Done(t)
    BY <1>1 DEF Done
<1>5. \A a \in BytesOf(os) : PrivateByte(client, t, a)
    <2>1. BytesOf(os) \subseteq Touched(t, j)
        <3>1. os = <<>> \/ os = client.code[t][j].src \/ os = client.code[t][j].dst
            BY DEF Accesses, OpsOf
        <3>2. BytesOf(<<>>) = {}
            BY DEF BytesOf
        <3> QED
            BY <3>1, <3>2 DEF Touched, Code
    <2>2. \A u \in Thread \ {t} : \A k \in Places(client, u) :
             (Touched(u, k) \cup Stores(client.code[u][k])) \cap Touched(t, j) = {}
        BY DEF Private, Place, Places, Code
    <2> QED
        BY <2>1, <2>2 DEF PrivateByte, Touched, Code
<1>6. Reported(t, i, j) = WasteOf(client, t, i, j)
    <2> SUFFICES ASSUME NEW a \in WasteOf(client, t, i, j) PROVE Moment(client, j, K) \in PastNow(t, a)
        BY DEF Reported
    <2>1. a \in BytesOf(os)
        BY <1>1, <1>3, WasteInAddr
    <2>2. Moment(client, j, K) \in Moments(client, t, a)
        BY <1>1, <1>3, <2>1, MomentsHave, JudgedActs DEF Moments
    <2>3. Moment(client, j, K) <= 2 * Done(t) + 1
        <3>1. Moment(client, j, K) \in Nat /\ Moment(client, j, K) <= 2 * j + 1
            BY <1>3, MomentIsNumber
        <3> HIDE DEF K
        <3> QED
            BY <1>3, <1>4, <3>1
    <2>4. Pend(client, <<>>, 0, a) = {}
        <3>1. 1 .. Len(<<>>) = {}
            OBVIOUS
        <3> QED
            BY <3>1 DEF Pend
    <2> QED
        BY <1>2, <2>2, <2>3, <2>4 DEF PastNow, Past
<1>7. WasteOf(client, t, i, j) = Wasted(t, i, j)
    BY <1>1, <1>3, WasteIs
<1> QED
    BY <1>3, <1>5, <1>6, <1>7 DEF ThreadOK, CountOK

(* When a thread has applied all its records, every pair of contexts has   *)
(* been counted once for each byte that the program wastes between them: a *)
(* dead store in deadspy, a load or store of what was there before in      *)
(* loadspy and redspy.  This is so for every access all of whose bytes no  *)
(* other thread touches, whatever the threads do to the others and however *)
(* their steps interleave, with a sampling period of one.                  *)
THEOREM ReportsAreExact ==
    ASSUME Period = 1, OperandsApart, WritesFit, FewWrites
    PROVE  Spec => []ReportsExact
<1>1. AllTyped /\ CountsOK /\ AllRight => ReportsExact
    <2> SUFFICES ASSUME AllTyped, CountsOK, AllRight, NEW t \in Thread, Settled(t),
                        NEW j \in 1 .. (ip[t] - 1), NEW i \in 0 .. (ip[t] - 1), Private(t, j)
                 PROVE  Counted(t, <<CtxtOf(t, i), CtxtOf(t, j)>>) = Cardinality(Wasted(t, i, j))
        BY DEF ReportsExact
    <2>1. RecordsOK /\ Placed(t) /\ ThreadOK(t)
        BY DEF AllTyped, CountsOK, AllRight
    <2> QED
        BY <2>1, SettledIsExact
<1>2. Spec => []AllTyped
    <2>1. (IInv /\ RecordsOK /\ TallyOK) /\ SlotsTyped => AllTyped
        BY DEF AllTyped
    <2>2. SlotsTyped /\ [Next]_vars => SlotsTyped'
        BY SlotsTypedKept
    <2> QED
        BY <2>1, <2>2, SlotsTypedInit, ClientsTyped, PTL DEF Spec
<1>3. AllTyped /\ CountsOK /\ [Next]_vars => CountsOK'
    BY CountsKept DEF AllTyped
<1>4. AllTyped /\ CountsOK /\ AllPaired /\ [Next]_vars => AllPaired'
    BY PairedKept DEF AllTyped
<1>5. AllTyped /\ CountsOK /\ AllPaired /\ AllRight /\ [Next]_vars => AllRight'
    BY AllRightKept DEF Tame
<1>6. Init => AllRight
    BY AllRightInit
<1> QED
    BY <1>1, <1>2, <1>3, <1>4, <1>5, <1>6, CountsInit, PairedInit, PTL DEF Spec
=============================================================================
