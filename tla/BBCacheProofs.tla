--------------------------- MODULE BBCacheProofs ---------------------------
(***************************************************************************)
(* Proofs about BBCache, for any blocks and any sizes of the two caches:   *)
(* no cached entry is written past the end of its array, the node a caught *)
(* up thread stands at is the one its blocks lead to, every block's end is *)
(* reported once and in order, and the references reported with it are     *)
(* those the block has recorded, but for those a refresh has cleared.      *)
(*                                                                         *)
(* IInv relates the notes of the blocks that were not yet looked up to the *)
(* blocks that ran, the reported ends to the blocks that were looked up,   *)
(* and every cached reference to the block and the place it came from.     *)
(***************************************************************************)
EXTENDS BBCache, SequenceTheorems, DataInduction

(* The node of the k-th block that ran, that block, and how many           *)
(* references it has.  The block before the first is the virtual root.     *)
Ctx(vs, k) == IF k = 0 THEN <<>> ELSE vs[k]
Blk(vs, k) == IF k = 0 THEN RootBlock ELSE Last(vs[k])
Refs(vs, k) == NumRefs(Blk(vs, k))

(* The address the memory keeps for its j-th reference, ls being lost.     *)
Adr(vs, ls, k, j) == IF Ref(k, j) \in ls \/ j \in NoAddr[Blk(vs, k)] THEN NoRef ELSE Ref(k, j)

(* Every context is entered from the one before it.                        *)
PathOK(vs) ==
  /\ vs \in Seq(Seq(Block))
  /\ \A k \in 1 .. Len(vs) :
       vs[k] # <<>> /\ Last(vs[k]) \in Block /\ vs[k] = Enter(Ctx(vs, k - 1), Last(vs[k]))

(* The notes c are of the blocks after the d-th.                           *)
Notes(c, vs, d) ==
  /\ c \in [BBIndex -> Block \cup {NoBlock}]
  /\ Len(vs) - d < BB_CACHE_MESSAGE_MAX_NUM
  /\ \A i \in 1 .. BB_CACHE_MESSAGE_MAX_NUM - 1 :
       c[i] = IF i <= Len(vs) - d THEN Blk(vs, d + i) ELSE NoBlock

(* Where the references of the d-th block and of those after it begin.     *)
Offsets(o, vs, d) ==
  /\ o \in [0 .. Len(vs) - d -> Nat]
  /\ o[0] = 0
  /\ \A k \in 0 .. Len(vs) - d - 1 : o[k + 1] = o[k] + Refs(vs, d + k)

(* What the client is to be told of the i-th of them.                      *)
EndOf(o, vs, d, i) ==
  BlockEnd(Ctx(vs, d + i - 1), [j \in 1 .. Refs(vs, d + i - 1) |-> Entry(o[i - 1] + j - 1)])

-----------------------------------------------------------------------------
LEMMA SeqFacts ==
  ASSUME NEW V, NEW s \in Seq(V)
  PROVE  /\ Len(s) \in Nat /\ DOMAIN s = 1 .. Len(s)
         /\ s \in [1 .. Len(s) -> V]
         /\ \A i \in 1 .. Len(s) : s[i] \in V
         /\ s = <<>> <=> Len(s) = 0
BY LenProperties, EmptySeq, ElementOfSeq

LEMMA AppendLast ==
  ASSUME NEW V, NEW s \in Seq(V), NEW e \in V
  PROVE  /\ Append(s, e) \in Seq(V)
         /\ Append(s, e) # <<>>
         /\ Len(Append(s, e)) = Len(s) + 1
         /\ Last(Append(s, e)) = e
         /\ Append(s, e)[Len(s) + 1] = e
         /\ \A i \in 1 .. Len(s) : Append(s, e)[i] = s[i]
<1>1. /\ Append(s, e) \in Seq(V)
      /\ Append(s, e) # <<>>
      /\ Len(Append(s, e)) = Len(s) + 1
      /\ Append(s, e)[Len(s) + 1] = e
      /\ \A i \in 1 .. Len(s) : Append(s, e)[i] = s[i]
  BY AppendProperties
<1> QED
  BY <1>1 DEF Last

LEMMA AppendFunction ==
  ASSUME NEW V, NEW s \in Seq(V), NEW e
  PROVE  Append(s, e) = [i \in 1 .. Len(s) + 1 |-> IF i = Len(s) + 1 THEN e ELSE s[i]]
<1> DEFINE W == V \cup {e}
           a == Append(s, e)
<1>1. Len(s) \in Nat /\ s \in [1 .. Len(s) -> V]
  BY SeqFacts
<1>2. s \in [1 .. Len(s) -> W]
  BY <1>1
<1>3. s \in Seq(W) /\ e \in W
  BY <1>1, <1>2, SeqDef
<1> HIDE DEF W
<1>4. a \in Seq(W) /\ Len(a) = Len(s) + 1 /\ a[Len(s) + 1] = e /\ \A i \in 1 .. Len(s) : a[i] = s[i]
  BY <1>3, AppendProperties
<1> HIDE DEF a
<1>5. a = [i \in 1 .. Len(s) + 1 |-> a[i]]
  BY <1>4, SeqFacts
<1>6. \A i \in 1 .. Len(s) + 1 : a[i] = IF i = Len(s) + 1 THEN e ELSE s[i]
  BY <1>1, <1>4
<1> QED
  BY <1>5, <1>6 DEF a

LEMMA FrontFacts ==
  ASSUME NEW V, NEW s \in Seq(V), s # <<>>
  PROVE  Front(s) \in Seq(V) /\ Len(Front(s)) = Len(s) - 1 /\ Last(s) \in V
<1>1. Len(s) \in Nat /\ Len(s) > 0
  BY SeqFacts
<1>2. Last(s) \in V
  BY <1>1, ElementOfSeq DEF Last
<1>3. 1 \in Int /\ Len(s) - 1 \in Int /\ \A i \in 1 .. Len(s) - 1 : s[i] \in V
  BY <1>1, SeqFacts
<1> DEFINE n == Len(s) - 1
<1>4. Front(s) = SubSeq(s, 1, n)
  BY DEF Front
<1>5. n \in Nat
  BY <1>1
<1> HIDE DEF n
<1>6. SubSeq(s, 1, n) \in Seq(V) /\ Len(SubSeq(s, 1, n)) = IF 1 <= n THEN n - 1 + 1 ELSE 0
  BY <1>3, <1>5, SubSeqProperties DEF n
<1>7. Front(s) \in Seq(V) /\ Len(Front(s)) = n
  BY <1>4, <1>5, <1>6
<1> QED
  BY <1>2, <1>7 DEF n

(* A block runs below the caller of the block before it.                   *)
LEMMA CallerTyped ==
  ASSUME NEW p \in Seq(Block), NEW a, a = RootBlock \/ p # <<>>
  PROVE  Caller(p, a) \in Seq(Block)
<1>1. CASE a = RootBlock
  BY <1>1 DEF Caller
<1>2. CASE a # RootBlock
  <2>1. Front(p) \in Seq(Block)
    BY <1>2, FrontFacts
  <2>2. Front(p) # <<>> => Front(Front(p)) \in Seq(Block)
    BY <2>1, FrontFacts
  <2> QED
    BY <1>2, <2>1, <2>2 DEF Caller
<1> QED
  BY <1>1, <1>2

LEMMA CallerEnters ==
  ASSUME NEW p \in Seq(Block), NEW b \in Block
  PROVE  Append(Caller(p, IF p = <<>> THEN RootBlock ELSE Last(p)), b) = Enter(p, b)
<1>1. CASE p = <<>>
  <2>1. Append(<<>>, b) = <<b>>
    OBVIOUS
  <2> QED
    BY <1>1, <2>1 DEF Caller, Enter
<1>2. CASE p # <<>>
  <2> DEFINE f == Front(p)
             a == Last(p)
  <2>1. f \in Seq(Block) /\ Len(f) = Len(p) - 1 /\ a \in Block /\ Len(p) \in Nat
    BY <1>2, FrontFacts, SeqFacts
  <2>2. a # RootBlock
    BY <2>1, BlockAssumption
  <2>3. f = <<>> <=> ~ (Len(p) > 1)
    BY <1>2, <2>1, SeqFacts
  <2>4. CASE EndState[a] = "call"
    BY <1>2, <2>2, <2>4 DEF Caller, Enter
  <2>5. CASE EndState[a] = "return"
    BY <1>2, <2>2, <2>3, <2>5 DEF Caller, Enter
  <2>6. CASE EndState[a] # "call" /\ EndState[a] # "return"
    BY <1>2, <2>2, <2>6 DEF Caller, Enter
  <2> QED
    BY <2>4, <2>5, <2>6
<1> QED
  BY <1>1, <1>2

LEMMA EnterTyped ==
  ASSUME NEW p \in Seq(Block), NEW b \in Block
  PROVE  Enter(p, b) \in Seq(Block) /\ Enter(p, b) # <<>> /\ Last(Enter(p, b)) = b
<1> DEFINE q == Caller(p, IF p = <<>> THEN RootBlock ELSE Last(p))
<1>1. q \in Seq(Block)
  BY CallerTyped
<1>2. Enter(p, b) = Append(q, b)
  BY CallerEnters
<1> HIDE DEF q
<1> QED
  BY <1>1, <1>2, AppendLast

(* What PathOK says of one block.                                          *)
LEMMA PathFacts ==
  ASSUME NEW vs, PathOK(vs), NEW k \in 0 .. Len(vs)
  PROVE  /\ Len(vs) \in Nat
         /\ Ctx(vs, k) \in Seq(Block)
         /\ Blk(vs, k) \in Block \cup {RootBlock}
         /\ k > 0 => Blk(vs, k) \in Block /\ Ctx(vs, k) # <<>>
         /\ Refs(vs, k) \in Nat
         /\ k < Len(vs) => Append(Caller(Ctx(vs, k), Blk(vs, k)), Blk(vs, k + 1)) = Ctx(vs, k + 1)
<1>1. Len(vs) \in Nat /\ \A i \in 1 .. Len(vs) : vs[i] \in Seq(Block)
  BY SeqFacts DEF PathOK
<1>2. /\ Ctx(vs, k) \in Seq(Block)
      /\ Blk(vs, k) \in Block \cup {RootBlock}
      /\ k > 0 => Blk(vs, k) \in Block /\ Ctx(vs, k) # <<>>
  <2>1. CASE k = 0
    BY <2>1 DEF Ctx, Blk
  <2>2. CASE k # 0
    <3>1. k \in 1 .. Len(vs)
      BY <1>1, <2>2
    <3> QED
      BY <1>1, <2>2, <3>1 DEF Ctx, Blk, PathOK
  <2> QED
    BY <2>1, <2>2
<1>3. Refs(vs, k) \in Nat
  BY <1>2, BlockAssumption DEF Refs, NumRefs
<1>4. ASSUME k < Len(vs)
      PROVE  Append(Caller(Ctx(vs, k), Blk(vs, k)), Blk(vs, k + 1)) = Ctx(vs, k + 1)
  <2>1. k + 1 \in 1 .. Len(vs) /\ k + 1 # 0 /\ (k + 1) - 1 = k
    BY <1>1, <1>4
  <2>2. Blk(vs, k + 1) = Last(vs[k + 1]) /\ Ctx(vs, k + 1) = vs[k + 1] /\ Blk(vs, k + 1) \in Block
        /\ vs[k + 1] = Enter(Ctx(vs, k), Last(vs[k + 1]))
    BY <2>1 DEF Blk, Ctx, PathOK
  <2>3. Blk(vs, k) = IF Ctx(vs, k) = <<>> THEN RootBlock ELSE Last(Ctx(vs, k))
    BY <1>1, <1>2 DEF Blk, Ctx
  <2> QED
    BY <1>2, <2>2, <2>3, CallerEnters
<1> QED
  BY <1>1, <1>2, <1>3, <1>4

(* The loop goes over the blocks that were noted.                          *)
LEMMA PendingExact ==
  ASSUME NEW vs, PathOK(vs), NEW d \in 0 .. Len(vs), NEW c, Notes(c, vs, d)
  PROVE  Pending(c) = [i \in 1 .. Len(vs) - d |-> Blk(vs, d + i)]
<1> DEFINE m == Len(vs) - d
           M == BB_CACHE_MESSAGE_MAX_NUM
           gaps == {i \in 1 .. M - 1 : c[i] = NoBlock}
           end == IF gaps = {} THEN M ELSE CHOOSE i \in gaps : \A j \in gaps : i <= j
<1>1. M \in Nat /\ M > 1 /\ Len(vs) \in Nat /\ m \in Nat /\ m < M
  BY SizeAssumption, PathFacts DEF Notes
<1>2. ASSUME NEW i \in 1 .. M - 1
      PROVE  c[i] = IF i <= m THEN Blk(vs, d + i) ELSE NoBlock
  BY <1>2 DEF Notes
<1>3. ASSUME NEW i \in 1 .. m PROVE Blk(vs, d + i) \in Block /\ Blk(vs, d + i) # NoBlock
  <2>1. d + i \in 0 .. Len(vs) /\ d + i > 0
    BY <1>1
  <2> QED
    BY <2>1, PathFacts, BlockAssumption
<1>4. gaps = m + 1 .. M - 1
  <2>1. ASSUME NEW i \in 1 .. M - 1 PROVE c[i] = NoBlock <=> m < i
    <3> HIDE DEF m, M
    <3>1. i \in Nat /\ (~ (m < i) => i \in 1 .. m)
      BY <1>1
    <3> QED
      BY <1>1, <1>2, <1>3, <3>1
  <2> HIDE DEF m, M
  <2> QED
    BY <1>1, <2>1
<1>5. end = m + 1
  <2>1. CASE m + 1 = M
    BY <1>1, <1>4, <2>1
  <2>2. CASE m + 1 # M
    <3>1. m + 1 \in gaps /\ \A j \in gaps : m + 1 <= j
      BY <1>1, <1>4, <2>2
    <3> HIDE DEF gaps
    <3>2. gaps \subseteq Int
      BY <1>1, <1>4
    <3> DEFINE e == CHOOSE i \in gaps : \A j \in gaps : i <= j
    <3>3. e \in gaps /\ \A j \in gaps : e <= j
      BY <3>1
    <3>4. end = e
      BY <3>1
    <3> HIDE DEF e
    <3>5. e \in Int /\ e <= m + 1 /\ m + 1 <= e
      BY <3>1, <3>2, <3>3
    <3> HIDE DEF end, m, M
    <3> QED
      BY <1>1, <3>4, <3>5
  <2> QED
    BY <2>1, <2>2
<1>6. Pending(c) = [i \in 1 .. end - 1 |-> c[i]]
  BY DEF Pending
<1> HIDE DEF end
<1>7. Pending(c) = [i \in 1 .. m |-> c[i]]
  BY <1>1, <1>5, <1>6
<1>8. \A i \in 1 .. m : c[i] = Blk(vs, d + i)
  BY <1>1, <1>2
<1> QED
  BY <1>7, <1>8

(* What the loop works on, the references being what the memory holds.     *)
Held == {Entry(i) : i \in Nat}
End == [node : Seq(Block), addrs : Seq(Held)]
Loop == {s \in [cur : Seq(Block), pre : Block \cup {RootBlock}, start : Nat, ends : Seq(End)] :
           s.pre = RootBlock \/ s.cur # <<>>}

LEMMA DrainTyped ==
  ASSUME NEW s \in Loop, NEW b \in Block
  PROVE  Drain(s, b) \in Loop
<1> DEFINE n == NumRefs(s.pre)
           addrs == [i \in 1 .. n |-> Entry(s.start + i - 1)]
           node == Append(Caller(s.cur, s.pre), b)
<1>1. /\ s.cur \in Seq(Block) /\ s.pre \in Block \cup {RootBlock} /\ s.start \in Nat
      /\ s.ends \in Seq(End) /\ (s.pre = RootBlock \/ s.cur # <<>>)
  BY DEF Loop
<1>2. n \in Nat
  BY <1>1, BlockAssumption DEF NumRefs
<1>3. node \in Seq(Block) /\ node # <<>>
  <2>1. Caller(s.cur, s.pre) \in Seq(Block)
    BY <1>1, CallerTyped
  <2> QED
    BY <2>1, AppendLast
<1>4. BlockEnd(s.cur, addrs) \in End
  <2>1. ASSUME NEW i \in 1 .. n PROVE Entry(s.start + i - 1) \in Held
    <3>1. s.start + i - 1 \in Nat
      BY <1>1, <1>2
    <3> QED
      BY <3>1 DEF Held
  <2>2. addrs \in [1 .. n -> Held]
    BY <2>1
  <2> HIDE DEF addrs
  <2>3. addrs \in Seq(Held)
    BY <1>2, <2>2, SeqDef
  <2> QED
    BY <1>1, <2>3 DEF BlockEnd, End
<1>5. Append(s.ends, BlockEnd(s.cur, addrs)) \in Seq(End)
  BY <1>1, <1>4, AppendProperties
<1>6. Drain(s, b) = [cur |-> node, pre |-> b, start |-> s.start + n,
                     ends |-> Append(s.ends, BlockEnd(s.cur, addrs))]
  BY DEF Drain
<1>7. s.start + n \in Nat
  BY <1>1, <1>2
<1> HIDE DEF n, node, addrs
<1> QED
  BY <1>3, <1>5, <1>6, <1>7 DEF Loop

(* The loop turns once for each of them.                                   *)
LEMMA DrainSteps ==
  ASSUME NEW m \in Nat, NEW c, Pending(c) \in [1 .. m -> Block],
         cur \in Seq(Block), pre \in Block \cup {RootBlock}, pre = RootBlock \/ cur # <<>>
  PROVE  \E h \in [0 .. m -> Loop] :
           /\ h[0] = [cur |-> cur, pre |-> pre, start |-> 0, ends |-> <<>>]
           /\ \A k \in 0 .. m - 1 : h[k + 1] = Drain(h[k], Pending(c)[k + 1])
           /\ Drained(c) = h[m]
<1> DEFINE bs == Pending(c)
           S == 1 .. m
           v == [cur |-> cur, pre |-> pre, start |-> 0, ends |-> <<>>]
           Sums(f) == f = [s \in SUBSET S |-> IF s = {} THEN v
                                              ELSE Drain(f[s \ {Max(s)}], bs[Max(s)])]
           it == CHOOSE f : Sums(f)
           g == [p \in S \X Loop |-> Drain(p[2], bs[p[1]])]
           top == [s \in SUBSET S |-> Max(s)]
<1>1. DOMAIN bs = S /\ \A i \in S : bs[i] \in Block
  OBVIOUS
<1>3. Drained(c) = it[S]
  <2>1. Drained(c) = (CHOOSE f : f = [s \in SUBSET DOMAIN bs |->
                              IF s = {} THEN v
                              ELSE Drain(f[s \ {Max(s)}], bs[Max(s)])])[DOMAIN bs]
    BY Zenon DEF Drained, FoldLeft, MapThenFoldSet
  <2> QED
    BY <1>1, <2>1, Zenon
<1>5. v \in Loop
  BY DEF Loop
<1> HIDE DEF bs, v
<1>4. Chooses(top, S)
  BY MaxOfSet DEF Chooses
<1>6. ASSUME NEW s \in Loop, NEW i \in S PROVE Drain(s, bs[i]) \in Loop
  BY <1>1, DrainTyped
<1>7. g \in FoldSteps(S, Loop) /\ IsFiniteSet(S)
  <2>1. \A p \in S \X Loop : Drain(p[2], bs[p[1]]) \in Loop
    BY <1>6
  <2> QED
    BY <2>1, FS_Interval DEF FoldSteps
<1>8. PICK f : Folds(f, S, Loop, v, g, top)
  <2> HIDE DEF g, top, S
  <2> QED
    BY <1>4, <1>5, <1>7, FoldExists
<1>9. f \in [SUBSET S -> Loop]
      /\ f = [s \in SUBSET S |-> IF s = {} THEN v ELSE g[<<top[s], f[s \ {top[s]}]>>]]
  BY <1>8, Zenon DEF Folds
<1>10. Sums(f)
  <2>1. ASSUME NEW s \in SUBSET S, s # {}
        PROVE  g[<<top[s], f[s \ {top[s]}]>>] = Drain(f[s \ {Max(s)}], bs[Max(s)])
    <3>1. top[s] = Max(s) /\ top[s] \in S
      BY <1>4, <2>1 DEF Chooses
    <3>2. f[s \ {top[s]}] \in Loop
      BY <1>9
    <3> QED
      BY <3>1, <3>2
  <2> QED
    BY <1>9, <2>1
<1>11. Sums(it)
  <2> HIDE DEF Sums
  <2> QED
    BY <1>10, Zenon
<1> HIDE DEF it
<1>12. it[{}] = v
  BY <1>11
<1>13. ASSUME NEW k \in 0 .. m - 1
       PROVE  it[1 .. k + 1] = Drain(it[1 .. k], bs[k + 1])
  <2>1. k \in Nat /\ k + 1 <= m /\ k + 1 \in 1 .. k + 1
    OBVIOUS
  <2>2. 1 .. k + 1 \in SUBSET S /\ 1 .. k + 1 # {}
    <3>1. \A i \in 1 .. k + 1 : i \in S
      BY <2>1
    <3> QED
      BY <2>1, <3>1
  <2>3. Max(1 .. k + 1) = k + 1
    BY MaxOfInterval
  <2>4. (1 .. k + 1) \ {k + 1} = 1 .. k
    OBVIOUS
  <2>5. it[1 .. k + 1] = Drain(it[(1 .. k + 1) \ {Max(1 .. k + 1)}], bs[Max(1 .. k + 1)])
    BY <1>11, <2>2
  <2> QED
    BY <2>3, <2>4, <2>5
<1> DEFINE T == {k \in 0 .. m : it[1 .. k] \in Loop}
<1>14. 0 .. m \subseteq T
  <2>1. 0 \in T
    BY <1>5, <1>12
  <2>2. ASSUME NEW k \in 0 .. m - 1, k \in T PROVE k + 1 \in T
    <3>1. k + 1 \in S /\ k + 1 \in 0 .. m /\ it[1 .. k] \in Loop
      BY <2>2
    <3>2. it[1 .. k + 1] \in Loop
      BY <1>6, <1>13, <3>1
    <3> QED
      BY <3>1, <3>2
  <2> HIDE DEF T
  <2> QED
    BY <2>1, <2>2, IntervalInduction
<1> DEFINE h == [k \in 0 .. m |-> it[1 .. k]]
<1>15. h \in [0 .. m -> Loop] /\ h[0] = v /\ Drained(c) = h[m]
  BY <1>3, <1>12, <1>14
<1>16. \A k \in 0 .. m - 1 : h[k + 1] = Drain(h[k], bs[k + 1])
  BY <1>13
<1> QED
  BY <1>15, <1>16 DEF bs, v

(* The loop leads to the last block and tells of every one before it.      *)
LEMMA DrainedExact ==
  ASSUME NEW vs, PathOK(vs), NEW d \in 0 .. Len(vs), NEW c, Notes(c, vs, d),
         NEW o, Offsets(o, vs, d), cur = Ctx(vs, d), pre = Blk(vs, d)
  PROVE  Drained(c) =
           [cur |-> Ctx(vs, Len(vs)), pre |-> Blk(vs, Len(vs)), start |-> o[Len(vs) - d],
            ends |-> [i \in 1 .. Len(vs) - d |-> EndOf(o, vs, d, i)]]
<1> DEFINE n == Len(vs)
           m == n - d
           es(k) == [i \in 1 .. k |-> EndOf(o, vs, d, i)]
           R(k) == [cur |-> Ctx(vs, d + k), pre |-> Blk(vs, d + k), start |-> o[k], ends |-> es(k)]
<1>1. n \in Nat /\ m \in Nat /\ d \in Nat
  BY PathFacts
<1>2. Pending(c) = [i \in 1 .. m |-> Blk(vs, d + i)]
  BY PendingExact
<1>3. Pending(c) \in [1 .. m -> Block]
  <2>1. ASSUME NEW i \in 1 .. m PROVE Blk(vs, d + i) \in Block
    <3>1. d + i \in 0 .. Len(vs) /\ d + i > 0
      BY <1>1
    <3> QED
      BY <3>1, PathFacts
  <2> QED
    BY <1>2, <2>1
<1>4. cur \in Seq(Block) /\ pre \in Block \cup {RootBlock} /\ (pre = RootBlock \/ cur # <<>>)
  <2>1. d > 0 => cur # <<>>
    BY PathFacts
  <2>2. d = 0 => pre = RootBlock
    BY DEF Blk
  <2> QED
    BY <1>1, <2>1, <2>2, PathFacts
<1>5. PICK h \in [0 .. m -> Loop] :
        /\ h[0] = [cur |-> cur, pre |-> pre, start |-> 0, ends |-> <<>>]
        /\ \A k \in 0 .. m - 1 : h[k + 1] = Drain(h[k], Pending(c)[k + 1])
        /\ Drained(c) = h[m]
  <2> HIDE DEF m
  <2> QED
    BY <1>1, <1>3, <1>4, DrainSteps
<1> DEFINE T == {k \in 0 .. m : h[k] = R(k)}
<1>6. 0 .. m \subseteq T
  <2>1. 0 \in T
    <3>1. es(0) = <<>>
      OBVIOUS
    <3>2. d + 0 = d /\ o[0] = 0
      BY <1>1 DEF Offsets
    <3> HIDE DEF es, m
    <3>3. h[0] = R(0)
      BY <1>5, <3>1, <3>2
    <3> QED
      BY <1>1, <3>3
  <2>2. ASSUME NEW k \in 0 .. m - 1, k \in T PROVE k + 1 \in T
    <3>1. k \in Nat /\ k + 1 \in 1 .. m /\ k + 1 \in 0 .. m /\ d + k \in 0 .. n /\ d + k < n
          /\ k \in 0 .. n - d - 1
      BY <1>1, <2>2
    <3>2. d + (k + 1) = (d + k) + 1
      BY <1>1, <3>1
    <3>3. h[k] = R(k) /\ h[k] \in Loop
      BY <1>5, <2>2, <3>1
    <3>4. Pending(c)[k + 1] = Blk(vs, (d + k) + 1)
      BY <1>2, <3>1, <3>2
    <3> DEFINE b == Blk(vs, (d + k) + 1)
               a == Blk(vs, d + k)
               p == Ctx(vs, d + k)
               st == o[k]
               e == es(k)
               E == BlockEnd(p, [i \in 1 .. NumRefs(a) |-> Entry(st + i - 1)])
    <3>5. Append(Caller(p, a), b) = Ctx(vs, (d + k) + 1)
      BY <3>1, PathFacts
    <3>6. o[k + 1] = st + NumRefs(a)
      BY <3>1 DEF Offsets, Refs
    <3>7. E = EndOf(o, vs, d, k + 1)
      <4>1. (k + 1) - 1 = k /\ d + (k + 1) - 1 = d + k
        BY <1>1, <3>1
      <4> QED
        BY <4>1, Zenon DEF EndOf, Refs
    <3>8. Append(e, E) = es(k + 1)
      <4>1. e \in Seq(End) /\ Len(e) = k
        <5>1. R(k).ends = e
          OBVIOUS
        <5>2. e \in Seq(End)
          BY <3>3, <5>1 DEF Loop
        <5>3. DOMAIN e = 1 .. k
          OBVIOUS
        <5> HIDE DEF e
        <5> QED
          BY <3>1, <5>2, <5>3, LenProperties
      <4>2. Append(e, E) = [i \in 1 .. k + 1 |-> IF i = k + 1 THEN E ELSE e[i]]
        <5> HIDE DEF e, E
        <5> QED
          BY <4>1, AppendFunction
      <4>3. \A i \in 1 .. k + 1 : (IF i = k + 1 THEN E ELSE e[i]) = EndOf(o, vs, d, i)
        <5> HIDE DEF E
        <5> QED
          BY <3>1, <3>7
      <4> HIDE DEF e, E
      <4> QED
        BY <4>2, <4>3
    <3>9. Drain(h[k], b) = [cur |-> Append(Caller(p, a), b), pre |-> b, start |-> st + NumRefs(a),
                            ends |-> Append(e, E)]
      <4>1. h[k].cur = p /\ h[k].pre = a /\ h[k].start = st /\ h[k].ends = e
        <5> HIDE DEF es
        <5> QED
          BY <3>3
      <4> HIDE DEF p, a, st, e, b
      <4> QED
        BY <4>1 DEF Drain
    <3>10. h[k + 1] = R(k + 1)
      <4>1. h[k + 1] = Drain(h[k], b)
        BY <1>5, <3>4, <2>2
      <4>2. Blk(vs, d + (k + 1)) = b /\ Ctx(vs, d + (k + 1)) = Append(Caller(p, a), b)
        BY <3>2, <3>5
      <4> HIDE DEF b, a, p, st, e, E, es
      <4> QED
        BY <3>6, <3>8, <3>9, <4>1, <4>2
    <3> QED
      BY <3>1, <3>10
  <2> HIDE DEF T, m
  <2> QED
    BY <1>1, <2>1, <2>2, IntervalInduction
<1>7. Drained(c) = R(m)
  <2>1. m \in 0 .. m
    BY <1>1
  <2> QED
    BY <1>5, <1>6, <2>1
<1>8. d + m = n
  BY <1>1
<1> QED
  BY <1>7, <1>8

-----------------------------------------------------------------------------
(* The inductive invariant.                                                *)
told == Len(delivered)
ran == Len(visited)

Addr == Fresh \cup (Nat \X Nat) \cup {NoRef}
Report == [node : Seq(Block), addrs : Seq(Addr)]

TypeInv ==
  /\ InBounds
  /\ mem \in [RefIndex -> Addr]
  /\ recorded \in Nat
  /\ delivered \in Seq(Report)
  /\ PathOK(visited)

(* The node, the notes and the two pointers fit together.  Nothing but the *)
(* first block is ever noted before the tree has a node.                   *)
NotesInv ==
  ~ended =>
    /\ told <= ran
    /\ ran > 0 => told > 0
    /\ cur = Ctx(visited, told)
    /\ pre = Blk(visited, told)
    /\ ptr = IF ran = 0 THEN 0 ELSE ran - told + 1
    /\ Notes(bb_cache, visited, told)
    /\ bb_cache[0] = NoBlock
    /\ recorded <= Refs(visited, ran)

(* In the order EveryBlockReported and RefsExact say.                      *)
Told(reports, vs) == \A i \in 1 .. Len(reports) : reports[i].node = Ctx(vs, i - 1)
ToldRefs(reports, vs, ls, n) ==
  \A i \in 2 .. n : reports[i].addrs = [j \in 1 .. Refs(vs, i - 1) |-> Adr(vs, ls, i - 1, j)]

Precise == ~disturbed

ToldInv ==
  /\ Told(delivered, visited)
  /\ Precise => ToldRefs(delivered, visited, lost, IF ended THEN ran ELSE told)
  /\ ended => told = ran + 1

(* The references of a block that are in the memory.                       *)
written(k) == IF k = ran - told THEN recorded ELSE Refs(visited, told + k)

Placed(o) ==
  /\ Offsets(o, visited, told)
  /\ Precise =>
       /\ mem_ptr = o[ran - told] + recorded
       /\ \A k \in 0 .. ran - told : \A j \in 1 .. written(k) :
            Entry(o[k] + j - 1) = Adr(visited, lost, told + k, j)
       /\ \A i \in Nat : mem_ptr <= i => Entry(i) = NoRef

RefsInv == ~ended => \E o : Placed(o)

(* Only recorded references are lost, by a refresh that has caught up with *)
(* their block.                                                            *)
LostInv == \A k, j \in Nat : Ref(k, j) \in lost =>
             k <= told /\ (k < ran \/ (k = ran /\ j <= recorded))

IInv == TypeInv /\ NotesInv /\ ToldInv /\ RefsInv /\ LostInv

-----------------------------------------------------------------------------
(* How far the search for the running block's references gets.             *)
LEMMA MovedFacts ==
  ASSUME NEW start \in Nat, NEW n \in Nat
  PROVE  /\ Moved(start, n) \in 0 .. n
         /\ \A i \in 0 .. Moved(start, n) - 1 : Entry(start + i) # NoRef
         /\ Moved(start, n) < n => Entry(start + Moved(start, n)) = NoRef
<1> DEFINE stops == {i \in start .. start + n : i = start + n \/ Entry(i) = NoRef}
           first == CHOOSE i \in stops : \A j \in stops : i <= j
           mv == first - start
<1>1. Moved(start, n) = mv
  BY DEF Moved
<1>2. stops \subseteq Nat /\ start + n \in stops
  OBVIOUS
<1>3. first \in stops /\ \A j \in stops : first <= j
  <2>1. PICK l \in stops : \A j \in stops : l <= j
    <3> HIDE DEF stops
    <3> QED
      BY <1>2, LeastNumber
  <2> HIDE DEF stops
  <2> QED
    BY <2>1
<1> HIDE DEF first
<1>4. first \in start .. start + n /\ (first = start + n \/ Entry(first) = NoRef)
  BY <1>3
<1>5. mv \in 0 .. n /\ start + mv = first
  BY <1>4
<1>6. ASSUME NEW i \in 0 .. mv - 1, Entry(start + i) = NoRef PROVE FALSE
  <2>1. start + i \in start .. start + n /\ start + i < first
    BY <1>4, <1>5
  <2>2. start + i \in stops
    BY <1>6, <2>1
  <2>3. first <= start + i
    BY <1>3, <2>2
  <2> QED
    BY <1>4, <2>1, <2>3
<1>7. mv < n => Entry(start + mv) = NoRef
  BY <1>4, <1>5
<1> HIDE DEF mv
<1> QED
  BY <1>1, <1>5, <1>6, <1>7

(* It finds the first r if none of them is 0 and what follows is.          *)
LEMMA MovedExact ==
  ASSUME NEW start \in Nat, NEW n \in Nat, NEW r \in 0 .. n,
         \A i \in 0 .. r - 1 : Entry(start + i) # NoRef,
         Entry(start + r) = NoRef
  PROVE  Moved(start, n) = r
<1> DEFINE mv == Moved(start, n)
<1>1. /\ mv \in 0 .. n
      /\ \A i \in 0 .. mv - 1 : Entry(start + i) # NoRef
      /\ mv < n => Entry(start + mv) = NoRef
  BY MovedFacts
<1> HIDE DEF mv
<1>2. ~ (mv < r)
  <2> SUFFICES ASSUME mv < r PROVE FALSE
    OBVIOUS
  <2>1. mv \in 0 .. r - 1 /\ mv < n
    BY <1>1
  <2> QED
    BY <1>1, <2>1
<1>3. ~ (r < mv)
  <2> SUFFICES ASSUME r < mv PROVE FALSE
    OBVIOUS
  <2>1. r \in 0 .. mv - 1
    BY <1>1
  <2> QED
    BY <1>1, <2>1
<1> QED
  BY <1>1, <1>2, <1>3 DEF mv

(* The offsets grow.                                                       *)
LEMMA OffsetsGrow ==
  ASSUME NEW vs, PathOK(vs), NEW d \in 0 .. Len(vs), NEW o, Offsets(o, vs, d),
         NEW k \in 0 .. Len(vs) - d
  PROVE  /\ o[k] \in Nat
         /\ k < Len(vs) - d => o[k] + Refs(vs, d + k) <= o[Len(vs) - d]
         /\ o[k] <= o[Len(vs) - d]
<1> DEFINE m == Len(vs) - d
<1>1. Len(vs) \in Nat /\ m \in Nat /\ d \in Nat /\ k \in Nat
  BY PathFacts
<1>2. \A l \in 0 .. m : o[l] \in Nat
  BY DEF Offsets
<1>3. ASSUME NEW l \in 0 .. m - 1 PROVE o[l] <= o[l + 1] /\ o[l + 1] = o[l] + Refs(vs, d + l)
  <2>1. o[l + 1] = o[l] + Refs(vs, d + l)
    BY DEF Offsets
  <2>2. d + l \in 0 .. Len(vs) /\ l \in 0 .. m
    BY <1>1
  <2>3. Refs(vs, d + l) \in Nat
    BY <2>2, PathFacts
  <2> QED
    BY <1>2, <2>1, <2>2, <2>3
<1> HIDE DEF m
<1>4. ASSUME NEW a \in 0 .. m PROVE o[a] <= o[m]
  <2> DEFINE V == {l \in a .. m : o[a] <= o[l]}
  <2>1. a \in V
    BY <1>1, <1>2
  <2>2. ASSUME NEW l \in a .. m - 1, l \in V PROVE l + 1 \in V
    <3>1. l \in 0 .. m - 1 /\ l \in 0 .. m /\ l + 1 \in 0 .. m /\ l + 1 \in a .. m
      BY <1>1
    <3>2. o[a] <= o[l] /\ o[l] <= o[l + 1] /\ o[a] \in Nat /\ o[l] \in Nat /\ o[l + 1] \in Nat
      BY <1>2, <1>3, <2>2, <3>1
    <3> QED
      BY <3>1, <3>2
  <2> HIDE DEF V
  <2>0. a \in Nat /\ m \in Nat /\ m \in a .. m
    BY <1>1
  <2>3. a .. m \subseteq V
    BY <2>0, <2>1, <2>2, IntervalInduction
  <2>4. m \in V
    BY <2>0, <2>3
  <2> QED
    BY <2>4 DEF V
<1>5. k \in 0 .. m
  BY DEF m
<1>6. ASSUME k < m PROVE o[k] + Refs(vs, d + k) <= o[m]
  <2>1. k \in 0 .. m - 1 /\ k + 1 \in 0 .. m
    BY <1>1, <1>6
  <2> QED
    BY <1>3, <1>4, <2>1
<1> QED
  BY <1>2, <1>4, <1>5, <1>6 DEF m

LEMMA OwedIs ==
  ASSUME PathOK(visited), recorded \in Nat, recorded <= Refs(visited, ran)
  PROVE  ran \in Nat /\ Refs(visited, ran) \in Nat /\ owed = Refs(visited, ran) - recorded
<1>1. ran \in Nat /\ Refs(visited, ran) \in Nat /\ (visited = <<>> <=> ran = 0)
  <2>1. ran \in Nat /\ (visited = <<>> <=> ran = 0)
    BY SeqFacts DEF PathOK, ran
  <2>2. ran \in 0 .. Len(visited)
    BY <2>1 DEF ran
  <2> QED
    BY <2>1, <2>2, PathFacts
<1>2. CASE ran = 0
  <2>1. owed = 0 /\ Refs(visited, ran) = 0
    BY <1>1, <1>2 DEF owed, Refs, Blk, NumRefs
  <2> QED
    BY <1>1, <2>1
<1>3. CASE ran # 0
  <2>1. Last(running) = Blk(visited, ran)
    BY <1>3 DEF running, Last, Blk, ran
  <2>2. owed = Refs(visited, ran) - recorded
    BY <1>1, <1>3, <2>1 DEF owed, Refs
  <2> QED
    BY <1>1, <2>2
<1> QED
  BY <1>2, <1>3

LEMMA OwedIsNext ==
  (PathOK(visited) /\ recorded \in Nat /\ recorded <= Refs(visited, ran))'
    => (ran \in Nat /\ Refs(visited, ran) \in Nat /\ owed = Refs(visited, ran) - recorded)'
<1>1. PathOK(visited) /\ recorded \in Nat /\ recorded <= Refs(visited, ran)
        => ran \in Nat /\ Refs(visited, ran) \in Nat /\ owed = Refs(visited, ran) - recorded
  BY OwedIs
<1> QED
  BY <1>1, PTL

(* The application goes on by a block.                                     *)
LEMMA OneMoreBlock ==
  ASSUME PathOK(visited), NEW b \in Block, NEW vs, vs = Append(visited, NextContext(b))
  PROVE  /\ PathOK(vs)
         /\ ran \in Nat /\ Len(vs) = ran + 1
         /\ \A k \in 0 .. ran : /\ Ctx(vs, k) = Ctx(visited, k)
                                /\ Blk(vs, k) = Blk(visited, k)
                                /\ Refs(vs, k) = Refs(visited, k)
         /\ Blk(vs, ran + 1) = b /\ Refs(vs, ran + 1) = MemRefs[b]
<1> DEFINE p == Ctx(visited, ran)
           q == NextContext(b)
<1>1. ran \in Nat /\ (visited = <<>> <=> ran = 0) /\ visited \in Seq(Seq(Block))
  BY SeqFacts DEF PathOK, ran
<1>2. p \in Seq(Block)
  <2>1. ran \in 0 .. Len(visited)
    BY <1>1 DEF ran
  <2> QED
    BY <2>1, PathFacts
<1>3. q = Enter(p, b)
  BY <1>1 DEF NextContext, running, Last, Ctx, ran
<1>4. q \in Seq(Block) /\ q # <<>> /\ Last(q) = b
  BY <1>2, <1>3, EnterTyped
<1> HIDE DEF p, q
<1>5. /\ vs \in Seq(Seq(Block)) /\ Len(vs) = ran + 1 /\ vs[ran + 1] = q
      /\ \A k \in 1 .. ran : vs[k] = visited[k]
  <2>1. Append(visited, q) \in Seq(Seq(Block)) /\ Len(Append(visited, q)) = Len(visited) + 1
        /\ Append(visited, q)[Len(visited) + 1] = q
        /\ \A k \in 1 .. Len(visited) : Append(visited, q)[k] = visited[k]
    BY <1>1, <1>4, AppendLast
  <2>2. vs = Append(visited, q)
    BY DEF q
  <2> QED
    BY <2>1, <2>2 DEF ran
<1>6. ASSUME NEW k \in 0 .. ran
      PROVE  Ctx(vs, k) = Ctx(visited, k) /\ Blk(vs, k) = Blk(visited, k) /\ Refs(vs, k) = Refs(visited, k)
  <2>1. k # 0 => k \in 1 .. ran
    BY <1>1
  <2>2. k # 0 => vs[k] = visited[k]
    BY <1>5, <2>1
  <2> QED
    BY <2>2 DEF Ctx, Blk, Refs
<1>7. Blk(vs, ran + 1) = b
  BY <1>1, <1>4, <1>5 DEF Blk
<1>8. Refs(vs, ran + 1) = MemRefs[b]
  BY <1>7, BlockAssumption DEF Refs, NumRefs
<1>9. ASSUME NEW k \in 1 .. ran + 1
      PROVE  vs[k] # <<>> /\ Last(vs[k]) \in Block /\ vs[k] = Enter(Ctx(vs, k - 1), Last(vs[k]))
  <2>0. k - 1 \in 0 .. ran
    BY <1>1
  <2>1. CASE k = ran + 1
    <3>1. Ctx(vs, k - 1) = p
      BY <1>1, <1>6, <2>0, <2>1 DEF p
    <3> QED
      BY <1>3, <1>4, <1>5, <2>1, <3>1
  <2>2. CASE k # ran + 1
    <3>1. k \in 1 .. Len(visited) /\ k \in 1 .. ran
      BY <1>1, <2>2 DEF ran
    <3>2. Ctx(vs, k - 1) = Ctx(visited, k - 1) /\ vs[k] = visited[k]
      BY <1>5, <1>6, <2>0, <3>1
    <3> QED
      BY <3>1, <3>2 DEF PathOK
  <2> QED
    BY <2>1, <2>2
<1>10. PathOK(vs)
  BY <1>5, <1>9 DEF PathOK
<1> QED
  BY <1>1, <1>5, <1>6, <1>7, <1>8, <1>10

LEMMA NotesOneMore ==
  ASSUME TypeInv, NotesInv, ~ended, NEW b \in Block, NEW vs, vs = Append(visited, NextContext(b)),
         NEW noted, noted = [bb_cache EXCEPT ![ptr] = b]
  PROVE  /\ Notes(InitStackCache(noted), vs, told)
         /\ InitStackCache(noted)[0] = NoBlock
         /\ ran > 0 => InitStackCache(noted) = noted
<1> DEFINE c == InitStackCache(noted)
           M == BB_CACHE_MESSAGE_MAX_NUM
<1>1. M \in Nat /\ M > 1 /\ BBIndex = 0 .. M - 1
  BY SizeAssumption DEF BBIndex
<1>2. /\ PathOK(visited) /\ ptr \in BBIndex /\ bb_cache \in [BBIndex -> Block \cup {NoBlock}]
      /\ told \in Nat /\ told <= ran /\ (ran > 0 => told > 0)
      /\ ptr = IF ran = 0 THEN 0 ELSE ran - told + 1
      /\ Notes(bb_cache, visited, told) /\ bb_cache[0] = NoBlock
  BY SeqFacts DEF TypeInv, InBounds, NotesInv, told
<1>3. /\ ran \in Nat /\ Len(vs) = ran + 1 /\ Blk(vs, ran + 1) = b
      /\ \A k \in 0 .. ran : Blk(vs, k) = Blk(visited, k)
  BY <1>2, OneMoreBlock, ZenonT(30)
<1>4. ASSUME NEW i \in 1 .. M - 1
      PROVE  bb_cache[i] = IF i <= ran - told THEN Blk(visited, told + i) ELSE NoBlock
  BY <1>2, <1>4 DEF Notes, ran
<1>5. noted \in [BBIndex -> Block \cup {NoBlock}] /\ b # NoBlock /\ 0 \in BBIndex /\ 1 \in BBIndex
  BY <1>1, <1>2, BlockAssumption
<1>6. CASE ran = 0
  <2>1. told = 0 /\ ptr = 0
    BY <1>2, <1>6
  <2>2. noted[0] = b /\ \A i \in 1 .. M - 1 : noted[i] = NoBlock
    BY <1>1, <1>2, <1>4, <1>5, <1>6, <2>1
  <2>3. c = [noted EXCEPT ![1] = b, ![0] = NoBlock]
    BY <1>5, <2>2 DEF InitStackCache
  <2> HIDE DEF c
  <2>4. /\ c \in [BBIndex -> Block \cup {NoBlock}] /\ c[0] = NoBlock /\ c[1] = b
        /\ \A i \in BBIndex : i # 0 /\ i # 1 => c[i] = noted[i]
    BY <1>5, <2>3
  <2>5. ASSUME NEW i \in 1 .. M - 1
        PROVE  c[i] = IF i <= Len(vs) - told THEN Blk(vs, told + i) ELSE NoBlock
    BY <1>1, <1>3, <1>6, <2>1, <2>2, <2>4
  <2>6. Len(vs) - told < M
    BY <1>1, <1>3, <1>6, <2>1
  <2>7. Notes(c, vs, told)
    BY <2>4, <2>5, <2>6 DEF Notes
  <2> QED
    BY <1>6, <2>4, <2>7 DEF c
<1>7. CASE ran # 0
  <2>1. ptr = ran - told + 1 /\ ptr \in 1 .. M - 1
    BY <1>1, <1>2, <1>3, <1>7
  <2>2. noted[0] = NoBlock /\ noted[ptr] = b /\ \A i \in BBIndex : i # ptr => noted[i] = bb_cache[i]
    BY <1>1, <1>2, <1>5, <2>1
  <2>3. c = noted
    BY <2>2 DEF InitStackCache
  <2> HIDE DEF c
  <2>5. ASSUME NEW i \in 1 .. M - 1
        PROVE  noted[i] = IF i <= Len(vs) - told THEN Blk(vs, told + i) ELSE NoBlock
    <3>1. CASE i = ptr
      BY <1>2, <1>3, <2>1, <2>2, <3>1
    <3>2. CASE i # ptr
      <4>1. noted[i] = bb_cache[i]
        BY <1>1, <2>2, <3>2
      <4>2. i <= Len(vs) - told <=> i <= ran - told
        BY <1>2, <1>3, <2>1, <3>2
      <4>3. i <= ran - told => told + i \in 0 .. ran
        BY <1>2, <1>3
      <4> QED
        BY <1>3, <1>4, <4>1, <4>2, <4>3
    <3> QED
      BY <3>1, <3>2
  <2>6. Len(vs) - told < M
    BY <1>1, <1>2, <1>3, <2>1
  <2> QED
    BY <1>5, <2>2, <2>3, <2>5, <2>6 DEF Notes, c
<1> QED
  BY <1>6, <1>7

LEMMA OffsetsOneMore ==
  ASSUME PathOK(visited), told \in Nat, told <= ran, NEW b \in Block,
         NEW vs, vs = Append(visited, NextContext(b)), NEW o, Offsets(o, visited, told)
  PROVE  \E o2 : /\ Offsets(o2, vs, told)
                 /\ \A k \in 0 .. ran - told : o2[k] = o[k]
                 /\ o2[ran + 1 - told] = o[ran - told] + Refs(visited, ran)
<1> DEFINE m == ran - told
           o2 == [k \in 0 .. m + 1 |-> IF k = m + 1 THEN o[m] + Refs(visited, ran) ELSE o[k]]
<1>0. /\ ran \in Nat /\ Len(vs) = ran + 1
      /\ \A k \in 0 .. ran : Refs(vs, k) = Refs(visited, k)
  BY OneMoreBlock
<1>1. /\ ran \in Nat /\ Len(vs) = ran + 1 /\ m \in Nat
      /\ \A k \in 0 .. ran : Refs(vs, k) = Refs(visited, k)
  BY <1>0
<1>2. Refs(visited, ran) \in Nat
  <2>1. ran \in 0 .. Len(visited)
    BY <1>1 DEF ran
  <2> QED
    BY <2>1, PathFacts
<1>3. o \in [0 .. m -> Nat] /\ o[0] = 0
      /\ \A k \in 0 .. m - 1 : o[k + 1] = o[k] + Refs(visited, told + k)
  BY DEF Offsets, ran
<1>4. Len(vs) - told = m + 1 /\ ran + 1 - told = m + 1 /\ told + m = ran
  BY <1>1
<1>5. o[m] \in Nat
  BY <1>1, <1>3
<1>6. o2 \in [0 .. m + 1 -> Nat]
  <2> HIDE DEF m
  <2>1. \A k \in 0 .. m + 1 : k # m + 1 => k \in 0 .. m
    BY <1>1
  <2> QED
    BY <1>1, <1>2, <1>3, <1>5, <2>1
<1>7. o2[0] = 0 /\ o2[m + 1] = o[m] + Refs(visited, ran) /\ \A k \in 0 .. m : o2[k] = o[k]
  <2> HIDE DEF m
  <2> QED
    BY <1>1, <1>3
<1> HIDE DEF o2
<1>8. ASSUME NEW k \in 0 .. (m + 1) - 1 PROVE o2[k + 1] = o2[k] + Refs(vs, told + k)
  <2>1. k \in 0 .. m /\ told + k \in 0 .. ran
    BY <1>1
  <2>2. CASE k = m
    BY <1>1, <1>4, <1>7, <2>1, <2>2
  <2>3. CASE k # m
    <3>1. k \in 0 .. m - 1 /\ k + 1 \in 0 .. m
      BY <1>1, <2>1, <2>3
    <3> HIDE DEF m
    <3> QED
      BY <1>1, <1>3, <1>7, <2>1, <3>1
  <2> QED
    BY <2>2, <2>3
<1>9. Offsets(o2, vs, told)
  <2> HIDE DEF m
  <2> QED
    BY <1>4, <1>6, <1>7, <1>8 DEF Offsets
<1>10. o2[ran + 1 - told] = o[ran - told] + Refs(visited, ran)
  BY <1>4, <1>7
<1> QED
  BY <1>7, <1>9, <1>10

(* What is delivered continues what was delivered.                         *)
Delivery(o, vs) == delivered \o [i \in 1 .. Len(vs) - told |-> EndOf(o, vs, told, i)]

LEMMA DeliveryExact ==
  ASSUME TypeInv, NEW vs, PathOK(vs), told <= Len(vs), NEW o, Offsets(o, vs, told)
  PROVE  /\ Delivery(o, vs) \in Seq(Report)
         /\ Len(Delivery(o, vs)) = Len(vs)
         /\ \A i \in 1 .. told : Delivery(o, vs)[i] = delivered[i]
         /\ \A i \in told + 1 .. Len(vs) : Delivery(o, vs)[i] = EndOf(o, vs, told, i - told)
<1> DEFINE m == Len(vs) - told
           ends == [i \in 1 .. m |-> EndOf(o, vs, told, i)]
           dl == delivered \o ends
<1>1. /\ delivered \in Seq(Report) /\ told \in Nat /\ Len(vs) \in Nat /\ m \in Nat
      /\ mem \in [RefIndex -> Addr]
  <2>1. delivered \in Seq(Report) /\ told \in Nat /\ mem \in [RefIndex -> Addr]
    BY SeqFacts DEF TypeInv, told
  <2>2. Len(vs) \in Nat
    BY SeqFacts DEF PathOK
  <2> QED
    BY <2>1, <2>2
<1>2. ASSUME NEW i \in 1 .. m PROVE EndOf(o, vs, told, i) \in Report
  <2> DEFINE k == told + i - 1
             n == Refs(vs, k)
             st == o[i - 1]
             addrs == [j \in 1 .. n |-> Entry(st + j - 1)]
  <2>1. k \in 0 .. Len(vs) /\ told \in 0 .. Len(vs) /\ i - 1 \in 0 .. Len(vs) - told
        /\ i - 1 < Len(vs) - told /\ told + (i - 1) = k
    BY <1>1
  <2>2. Ctx(vs, k) \in Seq(Block) /\ n \in Nat
    <3> HIDE DEF k
    <3> QED
      BY <2>1, PathFacts
  <2>3. ASSUME NEW i0 PROVE Entry(i0) \in Addr
    BY <1>1 DEF Entry, Addr
  <2>4. ASSUME NEW j \in 1 .. n PROVE Entry(st + j - 1) \in Addr
    BY <2>3
  <2>5. addrs \in Seq(Addr)
    <3>1. addrs \in [1 .. n -> Addr]
      BY <2>4
    <3> HIDE DEF addrs, n
    <3> QED
      BY <2>2, <3>1, SeqDef
  <2>6. EndOf(o, vs, told, i) = [node |-> Ctx(vs, k), addrs |-> addrs]
    BY DEF EndOf, BlockEnd
  <2> HIDE DEF k, addrs
  <2> QED
    BY <2>2, <2>5, <2>6 DEF Report
<1>3. ends \in Seq(Report) /\ Len(ends) = m
  <2>1. ends \in [1 .. m -> Report]
    BY <1>2
  <2> HIDE DEF ends, m
  <2>2. ends \in Seq(Report)
    BY <1>1, <2>1, SeqDef
  <2> QED
    BY <1>1, <2>1, <2>2, LenProperties
<1>4. \A i \in 1 .. m : ends[i] = EndOf(o, vs, told, i)
  OBVIOUS
<1>5. Delivery(o, vs) = dl
  BY DEF Delivery
<1> HIDE DEF ends
<1>6. dl \in Seq(Report) /\ Len(dl) = told + m
      /\ \A i \in 1 .. told + m : dl[i] = IF i <= told THEN delivered[i] ELSE ends[i - told]
  <2>1. dl \in Seq(Report) /\ Len(dl) = Len(delivered) + Len(ends)
        /\ \A i \in 1 .. Len(delivered) + Len(ends) :
             dl[i] = IF i <= Len(delivered) THEN delivered[i] ELSE ends[i - Len(delivered)]
    BY <1>1, <1>3, ConcatProperties
  <2> HIDE DEF dl
  <2> QED
    BY <1>3, <2>1 DEF told
<1> HIDE DEF dl
<1>7. told + m = Len(vs)
  BY <1>1
<1>8. \A i \in 1 .. told : dl[i] = delivered[i]
  BY <1>1, <1>6
<1>9. ASSUME NEW i \in told + 1 .. Len(vs) PROVE dl[i] = EndOf(o, vs, told, i - told)
  <2>1. i \in 1 .. told + m /\ ~ (i <= told) /\ i - told \in 1 .. m
    BY <1>1
  <2> QED
    BY <1>4, <1>6, <2>1
<1> QED
  BY <1>5, <1>6, <1>7, <1>8, <1>9

(* It tells of the blocks in order, and of their references if they are in *)
(* their places.                                                           *)
LEMMA DeliveryTells ==
  ASSUME TypeInv, NotesInv, ToldInv, ~ended,
         NEW vs, PathOK(vs), ran <= Len(vs),
         \A k \in 0 .. ran : Ctx(vs, k) = Ctx(visited, k) /\ Blk(vs, k) = Blk(visited, k),
         NEW ls, \A k \in 0 .. Len(vs) - 1 : \A j : Adr(vs, ls, k, j) = Adr(visited, lost, k, j),
         NEW o, Offsets(o, vs, told)
  PROVE  /\ Told(Delivery(o, vs), vs)
         /\ Precise /\ (\A k \in 0 .. Len(vs) - told - 1 : \A j \in 1 .. Refs(vs, told + k) :
                           Entry(o[k] + j - 1) = Adr(vs, ls, told + k, j))
            => ToldRefs(Delivery(o, vs), vs, ls, Len(vs))
<1> DEFINE dl == Delivery(o, vs)
<1>1. /\ told \in Nat /\ ran \in Nat /\ Len(vs) \in Nat /\ told <= ran /\ told <= Len(vs)
      /\ Told(delivered, visited)
  BY SeqFacts DEF TypeInv, NotesInv, ToldInv, PathOK, told, ran
<1>2. /\ Len(dl) = Len(vs)
      /\ \A i \in 1 .. told : dl[i] = delivered[i]
      /\ \A i \in told + 1 .. Len(vs) : dl[i] = EndOf(o, vs, told, i - told)
  BY <1>1, DeliveryExact
<1> HIDE DEF dl
<1>3. ASSUME NEW i \in told + 1 .. Len(vs)
      PROVE  /\ dl[i].node = Ctx(vs, i - 1)
             /\ dl[i].addrs = [j \in 1 .. Refs(vs, i - 1) |-> Entry(o[i - 1 - told] + j - 1)]
  <2> DEFINE p == Ctx(vs, i - 1)
             a == [j \in 1 .. Refs(vs, i - 1) |-> Entry(o[i - 1 - told] + j - 1)]
  <2>1. told + (i - told) - 1 = i - 1 /\ (i - told) - 1 = i - 1 - told
    BY <1>1
  <2>2. dl[i] = EndOf(o, vs, told, i - told)
    BY <1>2
  <2>3. dl[i] = BlockEnd(p, a)
    BY <2>1, <2>2, Zenon DEF EndOf
  <2>4. p = Ctx(vs, i - 1) /\ a = [j \in 1 .. Refs(vs, i - 1) |-> Entry(o[i - 1 - told] + j - 1)]
    OBVIOUS
  <2> HIDE DEF p, a
  <2>5. dl[i].node = p /\ dl[i].addrs = a
    BY <2>3 DEF BlockEnd
  <2> QED
    BY <2>4, <2>5
<1>4. Told(dl, vs)
  <2> SUFFICES ASSUME NEW i \in 1 .. Len(dl) PROVE dl[i].node = Ctx(vs, i - 1)
    BY DEF Told
  <2>1. CASE i <= told
    <3>1. i \in 1 .. told /\ i - 1 \in 0 .. ran
      BY <1>1, <2>1
    <3>2. delivered[i].node = Ctx(visited, i - 1)
      BY <1>1, <3>1 DEF Told, told
    <3> QED
      BY <1>2, <3>1, <3>2
  <2>2. CASE ~ (i <= told)
    <3>1. i \in told + 1 .. Len(vs)
      BY <1>1, <1>2, <2>2
    <3> QED
      BY <1>3, <3>1
  <2> QED
    BY <2>1, <2>2
<1>5. ASSUME Precise, \A k \in 0 .. Len(vs) - told - 1 : \A j \in 1 .. Refs(vs, told + k) :
                        Entry(o[k] + j - 1) = Adr(vs, ls, told + k, j)
      PROVE  ToldRefs(dl, vs, ls, Len(vs))
  <2> SUFFICES ASSUME NEW i \in 2 .. Len(vs)
               PROVE  dl[i].addrs = [j \in 1 .. Refs(vs, i - 1) |-> Adr(vs, ls, i - 1, j)]
    BY DEF ToldRefs
  <2>1. CASE i <= told
    <3>1. i \in 1 .. told /\ i - 1 \in 0 .. ran /\ i \in 2 .. told
      BY <1>1, <2>1
    <3>2. delivered[i].addrs = [j \in 1 .. Refs(visited, i - 1) |-> Adr(visited, lost, i - 1, j)]
      BY <1>5, <3>1 DEF ToldInv, ToldRefs
    <3>3. Refs(vs, i - 1) = Refs(visited, i - 1) /\ \A j : Adr(vs, ls, i - 1, j) = Adr(visited, lost, i - 1, j)
      <4>1. i - 1 \in 0 .. Len(vs) - 1
        BY <1>1, <3>1
      <4> QED
        BY <3>1, <4>1 DEF Refs
    <3> QED
      BY <1>2, <3>1, <3>2, <3>3
  <2>2. CASE ~ (i <= told)
    <3>1. i \in told + 1 .. Len(vs) /\ i - 1 - told \in 0 .. Len(vs) - told - 1
          /\ told + (i - 1 - told) = i - 1
      BY <1>1, <1>2, <2>2
    <3>2. \A j \in 1 .. Refs(vs, i - 1) : Entry(o[i - 1 - told] + j - 1) = Adr(vs, ls, i - 1, j)
      BY <1>5, <3>1
    <3>3. dl[i].addrs = [j \in 1 .. Refs(vs, i - 1) |-> Entry(o[i - 1 - told] + j - 1)]
      BY <1>3, <3>1
    <3> QED
      BY <3>2, <3>3
  <2> QED
    BY <2>1, <2>2
<1> QED
  BY <1>4, <1>5 DEF dl

-----------------------------------------------------------------------------
(* A refresh that finds notes.                                             *)
LEMMA CaughtUp ==
  ASSUME NEW vs, PathOK(vs), NEW c0, Notes(InitStackCache(c0), vs, told),
         InitStackCache(c0)[0] = NoBlock, told \in Nat, told < Len(vs),
         NEW o, Offsets(o, vs, told), cur = Ctx(vs, told), pre = Blk(vs, told), CatchUp(c0)
  PROVE  LET start == o[Len(vs) - told]
             mv == Moved(start, Refs(vs, Len(vs)))
         IN /\ Notes(bb_cache', vs, Len(vs))
            /\ bb_cache'[0] = NoBlock
            /\ ptr' = 1
            /\ mem' = Compact(start, mv)
            /\ mem_ptr' = mv
            /\ cur' = Ctx(vs, Len(vs))
            /\ pre' = Blk(vs, Len(vs))
            /\ delivered' = Delivery(o, vs)
<1> DEFINE c == InitStackCache(c0)
           d == Drained(c)
           moved == Moved(d.start, NumRefs(d.pre))
           m == Len(vs) - told
           start == o[m]
           ends == [i \in 1 .. m |-> EndOf(o, vs, told, i)]
           M == BB_CACHE_MESSAGE_MAX_NUM
<1>0. M \in Nat /\ M > 1 /\ BBIndex = 0 .. M - 1
  BY SizeAssumption DEF BBIndex
<1>1. Len(vs) \in Nat /\ told \in 0 .. Len(vs) /\ m \in Nat /\ m > 0 /\ m < M
  <2>1. Len(vs) \in Nat
    BY SeqFacts DEF PathOK
  <2> QED
    BY <2>1 DEF Notes
<1>2. c[1] # NoBlock
  <2>1. 1 \in 1 .. M - 1 /\ 1 <= m /\ told + 1 \in 0 .. Len(vs) /\ told + 1 > 0
    BY <1>0, <1>1
  <2>2. c[1] = Blk(vs, told + 1)
    BY <2>1 DEF Notes
  <2>3. Blk(vs, told + 1) \in Block
    BY <2>1, PathFacts
  <2> QED
    BY <2>2, <2>3, BlockAssumption
<1>3. Pending(c) = [i \in 1 .. m |-> Blk(vs, told + i)]
  <2> HIDE DEF c
  <2> QED
    BY <1>1, PendingExact DEF c
<1>4. d = [cur |-> Ctx(vs, Len(vs)), pre |-> Blk(vs, Len(vs)), start |-> start, ends |-> ends]
  <2> HIDE DEF c
  <2> QED
    BY <1>1, DrainedExact DEF c
<1>5. /\ bb_cache' = [i \in BBIndex |-> IF i \in DOMAIN Pending(c) THEN NoBlock ELSE c[i]]
      /\ ptr' = 1
      /\ mem' = Compact(d.start, moved)
      /\ mem_ptr' = moved
      /\ cur' = d.cur
      /\ pre' = d.pre
      /\ delivered' = delivered \o d.ends
  BY <1>2, Zenon DEF CatchUp
<1>6. d.start = start /\ d.pre = Blk(vs, Len(vs)) /\ d.cur = Ctx(vs, Len(vs)) /\ d.ends = ends
  <2> HIDE DEF d, start, ends
  <2> QED
    BY <1>4
<1>7. moved = Moved(start, Refs(vs, Len(vs)))
  <2> HIDE DEF d, start
  <2> QED
    BY <1>6, Zenon DEF Refs
<1>8. DOMAIN Pending(c) = 1 .. m
  BY <1>3
<1> HIDE DEF d, moved
<1>9. bb_cache' = [i \in BBIndex |-> IF i \in 1 .. m THEN NoBlock ELSE c[i]]
  BY <1>5, <1>8
<1>10. Notes(bb_cache', vs, Len(vs)) /\ bb_cache'[0] = NoBlock
  <2>1. c \in [BBIndex -> Block \cup {NoBlock}] /\ c[0] = NoBlock
        /\ \A i \in 1 .. M - 1 : ~ (i <= m) => c[i] = NoBlock
    BY DEF Notes
  <2> HIDE DEF c, m, M
  <2>2. bb_cache' \in [BBIndex -> Block \cup {NoBlock}] /\ bb_cache'[0] = NoBlock
    BY <1>0, <1>9, <2>1
  <2>3. ASSUME NEW i \in 1 .. M - 1
        PROVE  bb_cache'[i] = IF i <= Len(vs) - Len(vs) THEN Blk(vs, Len(vs) + i) ELSE NoBlock
    <3>1. bb_cache'[i] = NoBlock
      BY <1>0, <1>1, <1>9, <2>1
    <3> QED
      BY <1>1, <3>1
  <2> QED
    BY <1>0, <1>1, <2>2, <2>3 DEF Notes, M
<1>11. delivered' = Delivery(o, vs)
  BY <1>5, <1>6 DEF Delivery
<1> HIDE DEF m, ends
<1> QED
  BY <1>5, <1>6, <1>7, <1>10, <1>11 DEF m

LEMMA CatchUpInv ==
  ASSUME IInv, ~ended, ~ended',
         NEW vs, visited' = vs, PathOK(vs), ran <= Len(vs), told < Len(vs),
         \A k \in 0 .. ran : Ctx(vs, k) = Ctx(visited, k) /\ Blk(vs, k) = Blk(visited, k),
         NEW ls, lost' = ls,
         \A k \in 0 .. Len(vs) - 1 : \A j : Adr(vs, ls, k, j) = Adr(visited, lost, k, j),
         \A k, j \in Nat : Ref(k, j) \in ls => k < Len(vs) \/ (k = Len(vs) /\ j <= recorded'),
         NEW c0, Notes(InitStackCache(c0), vs, told), InitStackCache(c0)[0] = NoBlock, CatchUp(c0),
         NEW o, Offsets(o, vs, told),
         NEW start, start = o[Len(vs) - told],
         NEW mv, mv = Moved(start, Refs(vs, Len(vs))),
         recorded' \in Nat, recorded' <= Refs(vs, Len(vs)),
         Precise' =>
           /\ Precise
           /\ \A k \in 0 .. Len(vs) - told - 1 : \A j \in 1 .. Refs(vs, told + k) :
                Entry(o[k] + j - 1) = Adr(vs, ls, told + k, j)
           /\ mv = recorded'
           /\ \A j \in 1 .. mv : IF start > 0 THEN Entry(start + j - 1) = Adr(vs, ls, Len(vs), j)
                                            ELSE Adr(vs, ls, Len(vs), j) = NoRef
           /\ \A i \in Nat : start + mv <= i => Entry(i) = NoRef
  PROVE  IInv'
<1> DEFINE n == Len(vs)
           M == INNER_MEM_REF_CACHE_MAX
           r == Refs(vs, n)
<1>1. /\ n \in Nat /\ told \in Nat /\ ran \in Nat /\ told <= ran /\ n \in 0 .. n /\ n > 0
      /\ told \in 0 .. n /\ mem \in [RefIndex -> Addr] /\ M \in Nat /\ RefIndex = 0 .. M - 1
      /\ cur = Ctx(vs, told) /\ pre = Blk(vs, told)
  <2>1. n \in Nat /\ told \in Nat /\ ran \in Nat /\ told <= ran
    BY SeqFacts DEF IInv, TypeInv, NotesInv, PathOK, told, ran
  <2>2. cur = Ctx(vs, told) /\ pre = Blk(vs, told)
    BY <2>1 DEF IInv, NotesInv
  <2> QED
    BY <2>1, <2>2, SizeAssumption DEF IInv, TypeInv, RefIndex
<1>2. r \in Nat /\ Blk(vs, n) \in Block /\ r = MemRefs[Blk(vs, n)] /\ 2 * r < M
  <2>1. Blk(vs, n) \in Block /\ r \in Nat
    BY <1>1, PathFacts
  <2>2. r = MemRefs[Blk(vs, n)]
    BY <2>1, BlockAssumption DEF Refs, NumRefs
  <2> QED
    BY <2>1, <2>2, SizeAssumption
<1>3. start \in Nat
  <2>1. n - told \in 0 .. n - told
    BY <1>1
  <2>2. o[n - told] \in Nat
    BY <1>1, <2>1, OffsetsGrow
  <2> QED
    BY <1>1, <2>2
<1>4. /\ Notes(bb_cache', vs, n)
      /\ bb_cache'[0] = NoBlock
      /\ ptr' = 1
      /\ mem' = Compact(start, mv)
      /\ mem_ptr' = mv
      /\ cur' = Ctx(vs, n)
      /\ pre' = Blk(vs, n)
      /\ delivered' = Delivery(o, vs)
  BY <1>1, CaughtUp
<1>5. mv \in 0 .. r /\ \A i \in 0 .. mv - 1 : start + i \in RefIndex
  <2>1. mv \in 0 .. r /\ \A i \in 0 .. mv - 1 : Entry(start + i) # NoRef
    BY <1>2, <1>3, MovedFacts
  <2> QED
    BY <2>1 DEF Entry
<1>6. /\ delivered' \in Seq(Report) /\ Len(delivered') = n /\ Told(delivered', vs)
      /\ Precise' => ToldRefs(delivered', vs, ls, n)
  <2>1. TypeInv /\ NotesInv /\ ToldInv
    BY DEF IInv
  <2>2. Delivery(o, vs) \in Seq(Report) /\ Len(Delivery(o, vs)) = n
    BY <1>1, <1>3, <2>1, DeliveryExact, SMTT(20)
  <2>3. Told(Delivery(o, vs), vs)
        /\ (Precise' => ToldRefs(Delivery(o, vs), vs, ls, n))
    BY <1>3, <2>1, DeliveryTells
  <2> QED
    BY <1>4, <2>2, <2>3
<1>7. told' = n /\ ran' = n
  BY <1>6 DEF told, ran
<1>8. mem' \in [RefIndex -> Addr] /\ \A i \in RefIndex :
        mem'[i] = CASE start > 0 /\ i < mv -> mem[start + i]
                    [] (start = 0 \/ i >= mv) /\ i < start + mv -> NoRef
                    [] OTHER -> mem[i]
  <2>1. mem' = [i \in RefIndex |->
                  CASE start > 0 /\ i < mv -> mem[start + i]
                    [] (start = 0 \/ i >= mv) /\ i < start + mv -> NoRef
                    [] OTHER -> mem[i]]
    BY <1>4 DEF Compact
  <2>2. NoRef \in Addr
    BY DEF Addr
  <2>3. ASSUME NEW i \in RefIndex, i < mv PROVE mem[start + i] \in Addr
    <3>1. i \in 0 .. mv - 1
      BY <1>1, <1>2, <1>5, <2>3
    <3>2. start + i \in RefIndex
      BY <1>5, <3>1
    <3> QED
      BY <1>1, <3>2
  <2>4. ASSUME NEW i \in RefIndex
        PROVE (CASE start > 0 /\ i < mv -> mem[start + i]
                    [] (start = 0 \/ i >= mv) /\ i < start + mv -> NoRef
                    [] OTHER -> mem[i]) \in Addr
    <3>1. mem[i] \in Addr /\ i \in Nat /\ mv \in Nat /\ start \in Nat
      BY <1>1, <1>2, <1>3, <1>5
    <3>2. CASE start > 0 /\ i < mv
      BY <2>3, <3>1, <3>2
    <3>3. CASE ~ (start > 0 /\ i < mv) /\ (start = 0 \/ i >= mv) /\ i < start + mv
      BY <2>2, <3>1, <3>3
    <3>4. CASE ~ (start > 0 /\ i < mv) /\ ~ ((start = 0 \/ i >= mv) /\ i < start + mv)
      BY <3>1, <3>4
    <3> QED
      BY <3>2, <3>3, <3>4
  <2> QED
    BY <2>1, <2>4
<1> HIDE DEF n, M, r
<1>9. NotesInv'
  <2>1. recorded' <= r
    BY DEF r, n
  <2>2. n = n /\ n <= n /\ n - n + 1 = 1 /\ n # 0
    BY <1>1
  <2> QED
    BY <1>1, <1>4, <1>7, <2>1, <2>2 DEF NotesInv, r
<1>10. (PathOK(visited) /\ recorded \in Nat /\ recorded <= Refs(visited, ran))'
  <2>1. recorded' <= r
    BY DEF r, n
  <2> QED
    BY <1>7, <2>1 DEF r
<1>11. owed' = r - recorded'
  BY <1>7, <1>10, OwedIsNext DEF r
<1>12. TypeInv'
  <2>1. mem_ptr' \in 0 .. M /\ mem_ptr' + owed' <= M
    <3>1. mem_ptr' = mv /\ owed' = r - recorded' /\ mv \in 0 .. r
      BY <1>4, <1>5, <1>11
    <3>2. M \in Nat /\ r \in Nat /\ 2 * r < M /\ recorded' \in Nat
      BY <1>1, <1>2
    <3> QED
      BY <3>1, <3>2
  <2>2. ptr' \in BBIndex /\ bb_cache' \in [BBIndex -> Block \cup {NoBlock}]
    BY <1>4, SizeAssumption DEF Notes, BBIndex
  <2> QED
    BY <1>6, <1>8, <1>10, <2>1, <2>2 DEF TypeInv, InBounds, M
<1>13. ToldInv'
  BY <1>6, <1>7 DEF ToldInv
<1>14. RefsInv'
  <2> DEFINE z == [k \in 0 .. 0 |-> 0]
  <2>1. Offsets(z, vs, n)
    <3>1. n - n = 0
      BY <1>1
    <3> QED
      BY <3>1 DEF Offsets, n
  <2>4. ASSUME Precise'
        PROVE  /\ mem_ptr' = z[n - n] + recorded'
               /\ \A k \in 0 .. n - n : \A j \in 1 .. recorded' :
                    (Entry(z[k] + j - 1))' = Adr(vs, ls, n + k, j)
               /\ \A i \in Nat : mem_ptr' <= i => (Entry(i))' = NoRef
    <3>1. mem_ptr' = z[n - n] + recorded'
      BY <1>1, <1>4, <2>4
    <3>2. ASSUME NEW k \in 0 .. n - n, NEW j \in 1 .. recorded'
          PROVE  (Entry(z[k] + j - 1))' = Adr(vs, ls, n + k, j)
      <4>1. k = 0 /\ z[k] = 0 /\ n + k = n
        BY <1>1
      <4>0. mv = recorded'
        BY <2>4
      <4> HIDE DEF z
      <4> DEFINE i == j - 1
      <4>2. i \in Nat /\ i < mv /\ z[k] + j - 1 = i /\ i \in 0 .. mv - 1
            /\ start + i = start + j - 1 /\ j \in 1 .. mv /\ i \in RefIndex
        <5>1. start \in Nat /\ mv \in Nat /\ mv <= M /\ j \in 1 .. mv
          BY <1>1, <1>2, <1>3, <1>5, <4>0
        <5>2. i \in Nat /\ i < mv /\ i \in 0 .. mv - 1 /\ 0 + j - 1 = i /\ start + i = start + j - 1
          BY <5>1
        <5>3. i \in 0 .. M - 1
          BY <1>1, <5>1, <5>2
        <5> QED
          BY <1>1, <4>1, <5>1, <5>2, <5>3
      <4> HIDE DEF i
      <4>3. CASE start > 0
        <5>1. mem'[i] = mem[start + i] /\ start + i \in RefIndex
          BY <1>5, <1>8, <4>2, <4>3
        <5>2. Entry(start + i) = Adr(vs, ls, n, j)
          BY <2>4, <4>2, <4>3 DEF n
        <5>3. (Entry(i))' = Entry(start + i)
          BY <4>2, <5>1 DEF Entry, RefIndex
        <5> QED
          BY <4>1, <4>2, <5>2, <5>3
      <4>4. CASE ~ (start > 0)
        <5>1. start = 0 /\ i < start + mv
          <6>1. start = 0
            BY <1>3, <4>4
          <6>2. mv \in Nat /\ i < mv
            BY <1>2, <1>5, <4>2
          <6>3. 0 + mv = mv
            BY <6>2
          <6> QED
            BY <6>1, <6>2, <6>3
        <5>2. mem'[i] = NoRef
          BY <1>8, <4>2, <4>4, <5>1
        <5>3. Adr(vs, ls, n, j) = NoRef
          BY <2>4, <4>2, <4>4 DEF n
        <5>4. (Entry(i))' = NoRef
          BY <4>2, <5>2 DEF Entry, RefIndex
        <5> QED
          BY <4>1, <4>2, <5>3, <5>4
      <4> QED
        BY <4>3, <4>4
    <3>3. ASSUME NEW i \in Nat, mem_ptr' <= i PROVE (Entry(i))' = NoRef
      <4>0. CASE i \notin RefIndex
        BY <4>0 DEF Entry, RefIndex
      <4>1. CASE i \in RefIndex
        <5>1. mv <= i /\ mv \in Nat
          BY <1>1, <1>2, <1>4, <1>5, <3>3
        <5>2. mem'[i] = NoRef
          <6>1. CASE i < start + mv
            <7>1. start = 0 \/ i >= mv
              BY <5>1
            <7>2. ~ (start > 0 /\ i < mv)
              BY <1>3, <5>1
            <7> QED
              BY <1>8, <4>1, <6>1, <7>1, <7>2
          <6>2. CASE ~ (i < start + mv)
            <7>1. start + mv <= i /\ ~ (i < mv)
              BY <1>3, <5>1, <6>2
            <7>2. Entry(i) = NoRef
              BY <2>4, <7>1
            <7>3. mem[i] = NoRef
              BY <4>1, <7>2 DEF Entry
            <7> QED
              BY <1>8, <4>1, <6>2, <7>1, <7>3
          <6> QED
            BY <6>1, <6>2
        <5> QED
          BY <4>1, <5>2 DEF Entry, RefIndex
      <4> QED
        BY <4>0, <4>1
    <3> HIDE DEF z
    <3> QED
      BY <3>1, <3>2, <3>3
  <2> HIDE DEF z
  <2>5. (Placed(z))'
    <3>2. \A k : k \in 0 .. n - n => (written(k))' = recorded'
      BY <1>1, <1>7 DEF written
    <3>3. (ran - told)' = n - n /\ n - n = 0
      BY <1>1, <1>7
    <3>4. Offsets(z, visited, told)'
      BY <1>7, <2>1 DEF Offsets
    <3>5. \A k \in 0 .. n - n : \A j : (Adr(visited, lost, told + k, j))' = Adr(vs, ls, n + k, j)
      BY <1>7
    <3> QED
      BY <2>4, <3>2, <3>3, <3>4, <3>5 DEF Placed
  <2> QED
    BY <2>5 DEF RefsInv
<1>15. LostInv'
  <2>1. ASSUME NEW k \in Nat, NEW j \in Nat, Ref(k, j) \in ls
        PROVE  k <= n /\ (k < n \/ (k = n /\ j <= recorded'))
    <3>1. k < n \/ (k = n /\ j <= recorded')
      BY <2>1 DEF n
    <3> QED
      BY <1>1, <3>1
  <2> QED
    BY <1>7, <2>1 DEF LostInv, Ref
<1> QED
  BY <1>9, <1>12, <1>13, <1>14, <1>15 DEF IInv

LEMMA RecordRefInv == IInv /\ RecordRef => IInv'
<1> SUFFICES ASSUME IInv, RecordRef PROVE IInv'
  OBVIOUS
<1> DEFINE m == ran - told
           M == INNER_MEM_REF_CACHE_MAX
           x == Adr(visited, lost, ran, recorded + 1)
<1>1. /\ ~ended /\ owed > 0 /\ mem' = [mem EXCEPT ![mem_ptr] = x] /\ mem_ptr' = mem_ptr + 1
      /\ recorded' = recorded + 1
      /\ UNCHANGED <<bb_cache, ptr, cur, pre, ended, delivered, visited, lost, disturbed>>
  <2>1. visited # <<>>
    BY DEF RecordRef, owed
  <2>2. ran \in Nat /\ ran # 0
    BY <2>1, SeqFacts DEF IInv, TypeInv, PathOK, ran
  <2>3. Ref(ran, recorded + 1) \notin lost
    BY <2>2 DEF IInv, LostInv, TypeInv
  <2>4. x = Address(Len(visited), recorded + 1)
    BY <2>2, <2>3 DEF Address, Adr, Blk, ran
  <2> HIDE DEF x
  <2> QED
    BY <2>4 DEF RecordRef, cache, history
<1>2. /\ PathOK(visited) /\ recorded \in Nat /\ recorded <= Refs(visited, ran)
      /\ mem_ptr \in 0 .. M /\ mem_ptr + owed <= M /\ mem \in [RefIndex -> Addr]
      /\ told <= ran /\ told \in Nat /\ M \in Nat /\ RefIndex = 0 .. M - 1
  BY <1>1, SeqFacts, SizeAssumption DEF IInv, TypeInv, InBounds, NotesInv, told, RefIndex
<1>3. ran \in Nat /\ Refs(visited, ran) \in Nat /\ owed = Refs(visited, ran) - recorded
  BY <1>2, OwedIs
<1>4. mem_ptr \in RefIndex /\ recorded + 1 <= Refs(visited, ran)
  BY <1>1, <1>2, <1>3
<1>5. x \in Addr
  BY <1>2, <1>3 DEF Ref, Addr, Adr
<1> HIDE DEF x, M
<1>6. /\ mem' \in [RefIndex -> Addr] /\ mem'[mem_ptr] = x
      /\ \A i \in RefIndex : i # mem_ptr => mem'[i] = mem[i]
  BY <1>1, <1>2, <1>4, <1>5
<1>7. told' = told /\ ran' = ran
  BY <1>1 DEF told, ran
<1>8. owed' = owed - 1
  <2>1. (PathOK(visited) /\ recorded \in Nat /\ recorded <= Refs(visited, ran))'
    BY <1>1, <1>2, <1>4, <1>7
  <2>2. owed' = Refs(visited, ran) - recorded'
    BY <1>1, <1>7, <2>1, OwedIsNext
  <2> QED
    BY <1>1, <1>2, <1>3, <2>2
<1>9. TypeInv'
  <2>1. mem_ptr' \in 0 .. M /\ mem_ptr' + owed' <= M
    BY <1>1, <1>2, <1>3, <1>8
  <2> QED
    BY <1>1, <1>2, <1>6, <2>1 DEF IInv, TypeInv, InBounds, M
<1>10. NotesInv'
  BY <1>1, <1>4, <1>7 DEF IInv, NotesInv
<1>11. ToldInv'
  BY <1>1, <1>7 DEF IInv, ToldInv, Precise
<1>12. PICK o : Placed(o)
  BY <1>1 DEF IInv, RefsInv
<1>13. Offsets(o, visited, told)
  BY <1>12 DEF Placed
<1>14. m \in Nat /\ m \in 0 .. m /\ told \in 0 .. Len(visited) /\ m = Len(visited) - told /\ told + m = ran
  BY <1>2, <1>3 DEF ran
<1> HIDE DEF m
<1>15. \A k \in 0 .. m : o[k] \in Nat
  BY <1>2, <1>13, <1>14, OffsetsGrow
<1>17. /\ \A i \in Nat : i # mem_ptr => (Entry(i))' = Entry(i)
       /\ \A i \in Nat : i = mem_ptr => (Entry(i))' = x
  BY <1>4, <1>6 DEF Entry, RefIndex
<1>18. ASSUME Precise
       PROVE  /\ mem_ptr' = o[m] + recorded'
              /\ \A k \in 0 .. m : \A j \in 1 .. (IF k = m THEN recorded' ELSE Refs(visited, told + k)) :
                   (Entry(o[k] + j - 1))' = Adr(visited, lost, told + k, j)
              /\ \A i \in Nat : mem_ptr' <= i => (Entry(i))' = NoRef
  <2>1. /\ mem_ptr = o[m] + recorded
        /\ \A k \in 0 .. m : \A j \in 1 .. (IF k = m THEN recorded ELSE Refs(visited, told + k)) :
             Entry(o[k] + j - 1) = Adr(visited, lost, told + k, j)
        /\ \A i \in Nat : mem_ptr <= i => Entry(i) = NoRef
    BY <1>12, <1>18 DEF Placed, written, m
  <2>2. mem_ptr' = o[m] + recorded'
    <3>1. o[m] \in Nat
      BY <1>14, <1>15
    <3>2. mem_ptr = o[m] + recorded /\ mem_ptr' = mem_ptr + 1 /\ recorded' = recorded + 1
      BY <1>1, <2>1
    <3> QED
      BY <1>2, <3>1, <3>2, SMTT(20)
  <2>3. ASSUME NEW k \in 0 .. m,
               NEW j \in 1 .. (IF k = m THEN recorded' ELSE Refs(visited, told + k))
        PROVE  (Entry(o[k] + j - 1))' = Adr(visited, lost, told + k, j)
    <3>1. CASE k = m /\ j = recorded + 1
      <4>1. o[k] + j - 1 = mem_ptr /\ told + k = ran /\ mem_ptr \in Nat
        BY <1>2, <1>14, <1>15, <2>1, <3>1
      <4> QED
        BY <1>17, <3>1, <4>1 DEF x
    <3>2. CASE ~ (k = m /\ j = recorded + 1)
      <4>1. j \in 1 .. (IF k = m THEN recorded ELSE Refs(visited, told + k))
        BY <1>1, <1>2, <3>2
      <4>2. Entry(o[k] + j - 1) = Adr(visited, lost, told + k, j)
        BY <2>1, <4>1
      <4>3. o[k] \in Nat /\ o[m] \in Nat /\ j \in Nat /\ j >= 1
        BY <1>1, <1>2, <1>14, <1>15, <4>1
      <4>4. o[k] + j <= mem_ptr
        <5>1. CASE k = m
          BY <1>2, <2>1, <4>1, <4>3, <5>1
        <5>2. CASE k # m
          <6>1. k < m /\ j <= Refs(visited, told + k) /\ told + k \in 0 .. Len(visited)
            BY <1>2, <1>3, <1>14, <4>1, <5>2
          <6>2. o[k] + Refs(visited, told + k) <= o[m] /\ Refs(visited, told + k) \in Nat
            BY <1>2, <1>13, <1>14, <6>1, OffsetsGrow, PathFacts
          <6> QED
            BY <1>2, <2>1, <4>3, <6>1, <6>2, SMTT(20)
        <5> QED
          BY <5>1, <5>2
      <4>5. o[k] + j - 1 \in Nat /\ o[k] + j - 1 # mem_ptr
        BY <1>2, <4>3, <4>4, SMTT(20)
      <4> QED
        BY <1>17, <4>2, <4>5
    <3> QED
      BY <3>1, <3>2
  <2>4. ASSUME NEW i \in Nat, mem_ptr' <= i PROVE (Entry(i))' = NoRef
    <3>1. mem_ptr <= i /\ i # mem_ptr
      BY <1>1, <1>2, <2>4
    <3> QED
      BY <1>17, <2>1, <3>1
  <2> QED
    BY <2>2, <2>3, <2>4
<1>19. Placed(o)'
  <2>2. \A k : (written(k))' = IF k = m THEN recorded' ELSE Refs(visited, told + k)
    BY <1>1, <1>7 DEF written, m
  <2>3. Precise' = Precise
    BY <1>1 DEF Precise
  <2>4. (ran - told)' = m
    BY <1>7 DEF m
  <2>5. Offsets(o, visited, told)'
    BY <1>1, <1>7, <1>13 DEF Offsets
  <2> QED
    BY <1>1, <1>7, <1>18, <2>2, <2>3, <2>4, <2>5 DEF Placed
<1>20. RefsInv'
  BY <1>19 DEF RefsInv
<1>21. LostInv'
  BY <1>1, <1>2, <1>7 DEF IInv, LostInv, Ref
<1> QED
  BY <1>9, <1>10, <1>11, <1>20, <1>21 DEF IInv

LEMMA RefreshInv == IInv /\ Refresh => IInv'
<1> SUFFICES ASSUME IInv, Refresh PROVE IInv'
  OBVIOUS
<1> DEFINE m == ran - told
           M == INNER_MEM_REF_CACHE_MAX
           present == IF InitStackCache(bb_cache)[1] = NoBlock THEN {} ELSE 1 .. recorded
           cleared == {Ref(Len(visited), i) : i \in present}
           zero == \E i \in present : Address(Len(visited), i) = NoRef
<1>1. /\ ~ended /\ CatchUp(bb_cache) /\ disturbed' = (disturbed \/ zero)
      /\ lost' = (IF Drained(InitStackCache(bb_cache)).start > 0 THEN lost ELSE lost \cup cleared)
      /\ UNCHANGED <<ended, recorded, visited>>
  BY DEF Refresh
<1>2. /\ PathOK(visited) /\ recorded \in Nat /\ recorded <= Refs(visited, ran)
      /\ mem_ptr \in 0 .. M /\ mem_ptr + owed <= M
      /\ told <= ran /\ told \in Nat /\ M \in Nat /\ RefIndex = 0 .. M - 1
      /\ (ran > 0 => told > 0)
      /\ Notes(bb_cache, visited, told) /\ bb_cache[0] = NoBlock
  BY <1>1, SeqFacts, SizeAssumption DEF IInv, TypeInv, InBounds, NotesInv, told, RefIndex
<1>3. ran \in Nat /\ Refs(visited, ran) \in Nat /\ owed = Refs(visited, ran) - recorded
  BY <1>2, OwedIs
<1>4. InitStackCache(bb_cache) = bb_cache
  BY <1>2 DEF InitStackCache
<1>5. Precise' => Precise /\ ~zero
  BY <1>1, Zenon DEF Precise
<1>6. PICK o : Placed(o)
  BY <1>1 DEF IInv, RefsInv
<1>7. Offsets(o, visited, told)
  BY <1>6 DEF Placed
<1>8. m \in Nat /\ m \in 0 .. m /\ told \in 0 .. Len(visited) /\ m = Len(visited) - told /\ told + m = ran
  BY <1>2, <1>3 DEF ran
<1>9. CASE told = ran
  <2>1. 1 \in 1 .. BB_CACHE_MESSAGE_MAX_NUM - 1 /\ ~ (1 <= Len(visited) - told)
    BY <1>2, <1>3, <1>9, SizeAssumption DEF ran
  <2>2. bb_cache[1] = NoBlock
    BY <1>2, <2>1 DEF Notes
  <2>3. UNCHANGED <<bb_cache, ptr, mem, mem_ptr, cur, pre, delivered, lost>>
    <3>1. cleared = {}
      BY <1>4, <2>2
    <3> QED
      BY <1>1, <1>4, <2>2, <3>1 DEF CatchUp, refs
  <2>4. UNCHANGED <<told, ran, owed>>
    BY <1>1, <2>3 DEF told, ran, owed, running
  <2>5. TypeInv' /\ NotesInv'
    BY <1>1, <2>3, <2>4 DEF IInv, TypeInv, InBounds, NotesInv, Notes
  <2>6. ToldInv'
    BY <1>1, <1>5, <2>3, <2>4 DEF IInv, ToldInv
  <2>7. Placed(o)'
    <3>1. (\A k : (written(k))' = written(k)) /\ (\A i : (Entry(i))' = Entry(i))
      BY <1>1, <2>3, <2>4 DEF written, Entry, RefIndex
    <3>2. Offsets(o, visited, told)'
      BY <1>1, <1>7, <2>4 DEF Offsets
    <3> QED
      BY <1>1, <1>5, <1>6, <2>3, <2>4, <3>1, <3>2 DEF Placed
  <2>8. LostInv'
    BY <1>1, <2>3, <2>4 DEF IInv, LostInv, Ref
  <2> QED
    BY <2>5, <2>6, <2>7, <2>8 DEF IInv, RefsInv
<1>10. CASE told # ran
  <2> DEFINE start == o[m]
             n == Refs(visited, ran)
             mv == Moved(start, n)
  <2>1. start \in Nat /\ recorded \in 0 .. n
    <3> HIDE DEF m
    <3>1. \A k \in 0 .. m : o[k] \in Nat
      BY <1>2, <1>7, <1>8, OffsetsGrow
    <3> QED
      BY <1>2, <1>3, <1>8, <3>1 DEF m
  <2>2. bb_cache[1] # NoBlock
    <3>1. 1 \in 1 .. BB_CACHE_MESSAGE_MAX_NUM - 1 /\ 1 <= Len(visited) - told
          /\ told + 1 \in 0 .. Len(visited) /\ told + 1 > 0
      BY <1>2, <1>3, <1>8, <1>10, SizeAssumption
    <3>2. bb_cache[1] = Blk(visited, told + 1)
      BY <1>2, <3>1 DEF Notes
    <3>3. Blk(visited, told + 1) \in Block
      BY <1>2, <3>1, PathFacts
    <3> QED
      BY <3>2, <3>3, BlockAssumption
  <2>3. Drained(bb_cache).start = start
    <3>1. cur = Ctx(visited, told) /\ pre = Blk(visited, told)
      BY <1>1 DEF IInv, NotesInv
    <3> DEFINE ends == [i \in 1 .. Len(visited) - told |-> EndOf(o, visited, told, i)]
    <3>2. Drained(bb_cache) = [cur |-> Ctx(visited, Len(visited)), pre |-> Blk(visited, Len(visited)),
                               start |-> o[Len(visited) - told], ends |-> ends]
      BY <1>2, <1>7, <1>8, <3>1, DrainedExact
    <3> HIDE DEF ends
    <3> QED
      BY <1>8, <3>2
  <2>4. /\ ~zero => \A j \in 1 .. recorded : j \notin NoAddr[Blk(visited, ran)]
        /\ lost' = (IF start > 0 THEN lost ELSE lost \cup {Ref(ran, i) : i \in 1 .. recorded})
    <3>1. ran # 0
      BY <1>2, <1>3, <1>10
    <3>2. present = 1 .. recorded
      BY <1>4, <2>2
    <3>3. \A j : j \in NoAddr[Blk(visited, ran)] => Address(Len(visited), j) = NoRef
      BY <3>1 DEF Address, Blk, ran
    <3>4. lost' = (IF start > 0 THEN lost ELSE lost \cup cleared)
      BY <1>1, <1>4, <2>3, Zenon
    <3> HIDE DEF start, present
    <3> QED
      BY <3>2, <3>3, <3>4 DEF ran
  <2>17. \A j \in Nat : Ref(ran, j) \notin lost
    BY <1>2, <1>3, <1>10 DEF IInv, LostInv
  <2>18. ASSUME NEW k \in Nat, k < ran PROVE \A j : Adr(visited, lost', k, j) = Adr(visited, lost, k, j)
    <3>1. \A j : Ref(k, j) \in lost' <=> Ref(k, j) \in lost
      <4> HIDE DEF start
      <4> QED
        BY <1>3, <2>4, <2>18 DEF Ref
    <3> QED
      BY <3>1 DEF Adr
  <2>19. \A k, j \in Nat : Ref(k, j) \in lost' => k < ran \/ (k = ran /\ j <= recorded)
    <3> SUFFICES ASSUME NEW k \in Nat, NEW j \in Nat, Ref(k, j) \in lost'
                 PROVE  k < ran \/ (k = ran /\ j <= recorded)
      OBVIOUS
    <3>1. CASE Ref(k, j) \in lost
      BY <3>1 DEF IInv, LostInv
    <3>2. CASE Ref(k, j) \notin lost
      <4>1. PICK i \in 1 .. recorded : Ref(k, j) = Ref(ran, i)
        <5> HIDE DEF start
        <5> QED
          BY <2>4, <3>2
      <4> QED
        BY <1>2, <4>1 DEF Ref
    <3> QED
      BY <3>1, <3>2
  <2>5. ASSUME Precise'
        PROVE  /\ Precise
               /\ \A k \in 0 .. m - 1 : \A j \in 1 .. Refs(visited, told + k) :
                    Entry(o[k] + j - 1) = Adr(visited, lost', told + k, j)
               /\ mv = recorded
               /\ \A j \in 1 .. mv : IF start > 0 THEN Entry(start + j - 1) = Adr(visited, lost', ran, j)
                                                ELSE Adr(visited, lost', ran, j) = NoRef
               /\ \A i \in Nat : start + mv <= i => Entry(i) = NoRef
    <3>1. Precise /\ ~zero
      BY <1>5, <2>5
    <3>2. /\ mem_ptr = o[m] + recorded
          /\ \A k \in 0 .. m : \A j \in 1 .. (IF k = m THEN recorded ELSE Refs(visited, told + k)) :
               Entry(o[k] + j - 1) = Adr(visited, lost, told + k, j)
          /\ \A i \in Nat : mem_ptr <= i => Entry(i) = NoRef
      BY <1>6, <3>1 DEF Placed, written
    <3>3. \A j \in 1 .. recorded : Entry(start + j - 1) = Adr(visited, lost, ran, j)
      <4> HIDE DEF m
      <4> QED
        BY <1>8, <3>2 DEF m
    <3>4. mv = recorded
      <4>1. ASSUME NEW i \in 0 .. recorded - 1 PROVE Entry(start + i) # NoRef
        <5>1. i + 1 \in 1 .. recorded /\ recorded > 0 /\ start + (i + 1) - 1 = start + i
          BY <2>1, <4>1
        <5>2. Entry(start + i) = Adr(visited, lost, ran, i + 1)
          BY <3>3, <5>1
        <5>3. Ref(ran, i + 1) \notin lost /\ i + 1 \notin NoAddr[Blk(visited, ran)]
          BY <2>4, <2>17, <3>1, <5>1
        <5>4. Ref(ran, i + 1) # NoRef
          <6>1. ran \in Nat /\ i + 1 \in Nat
            BY <1>3, <5>1
          <6> QED
            BY <6>1, BlockAssumption DEF Ref
        <5> HIDE DEF start, m
        <5> QED
          BY <5>2, <5>3, <5>4 DEF Adr
      <4>2. Entry(start + recorded) = NoRef
        <5>1. start + recorded \in Nat /\ mem_ptr <= start + recorded
          BY <2>1, <3>2
        <5> QED
          BY <3>2, <5>1
      <4> HIDE DEF start, n, m
      <4> QED
        BY <1>3, <2>1, <4>1, <4>2, MovedExact DEF n
    <3>5. ASSUME NEW k \in 0 .. m - 1, NEW j \in 1 .. Refs(visited, told + k)
          PROVE  Entry(o[k] + j - 1) = Adr(visited, lost', told + k, j)
      <4>1. k \in 0 .. m /\ k # m
        BY <1>8
      <4>2. told + k \in Nat /\ told + k < ran
        BY <1>2, <1>3, <1>8
      <4> HIDE DEF m
      <4> QED
        BY <2>18, <3>2, <4>1, <4>2
    <3>6. \A j \in 1 .. mv : IF start > 0 THEN Entry(start + j - 1) = Adr(visited, lost', ran, j)
                                       ELSE Adr(visited, lost', ran, j) = NoRef
      <4> HIDE DEF start, mv
      <4>1. start > 0 => lost' = lost
        BY <2>4
      <4>2. ~ (start > 0) => \A j \in 1 .. recorded : Ref(ran, j) \in lost'
        BY <2>4
      <4> QED
        BY <3>3, <3>4, <4>1, <4>2 DEF Adr
    <3>7. ASSUME NEW i \in Nat, start + mv <= i PROVE Entry(i) = NoRef
      <4> HIDE DEF m, mv
      <4> QED
        BY <3>2, <3>4, <3>7
    <3> HIDE DEF m, mv, start
    <3> QED
      BY <3>1, <3>4, <3>5, <3>6, <3>7
  <2>6. told < Len(visited) /\ ran <= Len(visited) /\ Len(visited) = ran
    BY <1>2, <1>3, <1>10 DEF ran
  <2> HIDE DEF mv, start
  <2>7. start = o[Len(visited) - told] /\ mv = Moved(start, Refs(visited, Len(visited)))
    BY <2>6 DEF mv, start, ran
  <2>8. recorded' \in Nat /\ recorded' <= Refs(visited, Len(visited))
    BY <1>1, <1>2 DEF ran
  <2>9. Precise' =>
           /\ Precise
           /\ \A k \in 0 .. Len(visited) - told - 1 : \A j \in 1 .. Refs(visited, told + k) :
                Entry(o[k] + j - 1) = Adr(visited, lost', told + k, j)
           /\ mv = recorded'
           /\ \A j \in 1 .. mv : IF start > 0 THEN Entry(start + j - 1) = Adr(visited, lost', Len(visited), j)
                                            ELSE Adr(visited, lost', Len(visited), j) = NoRef
           /\ \A i \in Nat : start + mv <= i => Entry(i) = NoRef
    BY <1>1, <2>5, <2>6
  <2>10. PICK vs, ls : vs = visited /\ ls = lost'
    OBVIOUS
  <2>11. /\ ~ended /\ ~ended' /\ CatchUp(bb_cache)
         /\ visited' = vs /\ PathOK(vs) /\ ran <= Len(vs) /\ told < Len(vs)
         /\ Offsets(o, vs, told)
    BY <1>1, <1>2, <1>7, <2>6, <2>10
  <2>12. Notes(InitStackCache(bb_cache), vs, told) /\ InitStackCache(bb_cache)[0] = NoBlock
    BY <1>2, <1>4, <2>10
  <2>13. \A k \in 0 .. ran : Ctx(vs, k) = Ctx(visited, k) /\ Blk(vs, k) = Blk(visited, k)
    BY <2>10
  <2>14. start = o[Len(vs) - told] /\ mv = Moved(start, Refs(vs, Len(vs)))
    BY <2>7, <2>10
  <2>15. Precise' =>
           /\ Precise
           /\ \A k \in 0 .. Len(vs) - told - 1 : \A j \in 1 .. Refs(vs, told + k) :
                Entry(o[k] + j - 1) = Adr(vs, ls, told + k, j)
           /\ mv = recorded'
           /\ \A j \in 1 .. mv : IF start > 0 THEN Entry(start + j - 1) = Adr(vs, ls, Len(vs), j)
                                            ELSE Adr(vs, ls, Len(vs), j) = NoRef
           /\ \A i \in Nat : start + mv <= i => Entry(i) = NoRef
    BY <2>9, <2>10, Zenon
  <2>16. recorded' <= Refs(vs, Len(vs))
    BY <2>8, <2>10
  <2>20. /\ lost' = ls
         /\ \A k \in 0 .. Len(vs) - 1 : \A j : Adr(vs, ls, k, j) = Adr(visited, lost, k, j)
         /\ \A k, j \in Nat : Ref(k, j) \in ls => k < Len(vs) \/ (k = Len(vs) /\ j <= recorded')
    <3>1. Len(vs) = ran
      BY <2>6, <2>10
    <3>2. \A k \in 0 .. ran - 1 : k \in Nat /\ k < ran
      BY <1>3
    <3> QED
      BY <1>1, <2>10, <2>18, <2>19, <3>1, <3>2
  <2> QED
    BY <2>8, <2>11, <2>12, <2>13, <2>14, <2>15, <2>16, <2>20, CatchUpInv
<1> QED
  BY <1>9, <1>10

LEMMA EnterBBInv == \A b \in Block : IInv /\ EnterBB(b) => IInv'
<1> SUFFICES ASSUME NEW b \in Block, IInv, EnterBB(b) PROVE IInv'
  OBVIOUS
<1> DEFINE m == ran - told
           M == INNER_MEM_REF_CACHE_MAX
           noted == [bb_cache EXCEPT ![ptr] = b]
           c == InitStackCache(noted)
<1>1. /\ ~ended /\ owed = 0 /\ recorded' = 0 /\ UNCHANGED <<ended, lost, disturbed>>
      /\ visited' = Append(visited, NextContext(b))
  BY DEF EnterBB
<1>2. /\ PathOK(visited) /\ recorded \in Nat /\ recorded <= Refs(visited, ran)
      /\ mem_ptr \in 0 .. M /\ told <= ran /\ told \in Nat /\ M \in Nat /\ RefIndex = 0 .. M - 1
      /\ (ran > 0 => told > 0) /\ ptr = (IF ran = 0 THEN 0 ELSE ran - told + 1)
      /\ ptr \in BBIndex /\ bb_cache \in [BBIndex -> Block \cup {NoBlock}]
      /\ cur = Ctx(visited, told) /\ pre = Blk(visited, told)
  BY <1>1, SeqFacts, SizeAssumption DEF IInv, TypeInv, InBounds, NotesInv, told, RefIndex
<1>3. ran \in Nat /\ Refs(visited, ran) \in Nat /\ recorded = Refs(visited, ran)
  <2>1. ran \in Nat /\ Refs(visited, ran) \in Nat /\ owed = Refs(visited, ran) - recorded
    BY <1>2, OwedIs
  <2> QED
    BY <1>1, <1>2, <2>1
<1>4. PICK vs, ls : vs = Append(visited, NextContext(b)) /\ visited' = vs /\ ls = lost /\ lost' = ls
  BY <1>1
<1>5. /\ PathOK(vs)
      /\ Len(vs) = ran + 1
      /\ \A k \in 0 .. ran : /\ Ctx(vs, k) = Ctx(visited, k)
                             /\ Blk(vs, k) = Blk(visited, k)
                             /\ Refs(vs, k) = Refs(visited, k)
      /\ Blk(vs, ran + 1) = b /\ Refs(vs, ran + 1) = MemRefs[b]
  BY <1>2, <1>4, OneMoreBlock, ZenonT(30)
<1>6. Notes(c, vs, told) /\ c[0] = NoBlock /\ (ran > 0 => c = noted)
  <2>1. PICK x : x = noted
    OBVIOUS
  <2> HIDE DEF noted
  <2>2. TypeInv /\ NotesInv
    BY DEF IInv
  <2>3. x = [bb_cache EXCEPT ![ptr] = b]
    BY <2>1 DEF noted
  <2> QED
    BY <1>1, <1>4, <2>1, <2>2, <2>3, NotesOneMore
<1>7. PICK o : Placed(o)
  BY <1>1 DEF IInv, RefsInv
<1>8. Offsets(o, visited, told)
  BY <1>7 DEF Placed
<1>9. m \in Nat /\ m \in 0 .. m /\ told \in 0 .. Len(visited) /\ m = Len(visited) - told /\ told + m = ran
  BY <1>2, <1>3 DEF ran
<1>10. PICK o2 : /\ Offsets(o2, vs, told)
                 /\ \A k \in 0 .. ran - told : o2[k] = o[k]
                 /\ o2[ran + 1 - told] = o[ran - told] + Refs(visited, ran)
  BY <1>2, <1>4, <1>8, OffsetsOneMore
<1>11. \A k \in 0 .. m : o[k] \in Nat
  <2> HIDE DEF m
  <2> QED
    BY <1>2, <1>8, <1>9, OffsetsGrow
<1>12. o[m] \in Nat
  <2> HIDE DEF m
  <2> QED
    BY <1>9, <1>11
<1>13. Precise =>
         /\ mem_ptr = o[m] + recorded
         /\ \A k \in 0 .. m : \A j \in 1 .. Refs(visited, told + k) :
              Entry(o[k] + j - 1) = Adr(visited, lost, told + k, j)
         /\ \A i \in Nat : mem_ptr <= i => Entry(i) = NoRef
  <2>1. ASSUME NEW k PROVE written(k) = Refs(visited, told + k) \/ (k \notin 0 .. m)
    BY <1>3, <1>9 DEF written
  <2> QED
    BY <1>7, <2>1 DEF Placed
<1>14. Precise' = Precise
  BY <1>1 DEF Precise
<1>17. \A k \in 0 .. ran : \A j : Adr(vs, ls, k, j) = Adr(visited, lost, k, j)
  BY <1>4, <1>5 DEF Adr
<1>18. \A k, j \in Nat : Ref(k, j) \in ls => k <= told
  BY <1>4 DEF IInv, LostInv
<1>15. CASE NoRoom(b)
  <2> DEFINE start == o[m] + recorded
             n == Refs(vs, ran + 1)
             mv == Moved(start, n)
  <2>1. CatchUp(noted)
    BY <1>15 DEF EnterBB
  <2>2. start \in Nat /\ n \in Nat
    <3>1. n \in Nat
      BY <1>5, BlockAssumption
    <3> QED
      BY <1>2, <1>12, <3>1
  <2>3. mv \in 0 .. n
    <3> HIDE DEF start, n
    <3> QED
      BY <2>2, MovedFacts
  <2>4. ASSUME Precise
        PROVE  /\ \A k \in 0 .. Len(vs) - told - 1 : \A j \in 1 .. Refs(vs, told + k) :
                     Entry(o2[k] + j - 1) = Adr(vs, ls, told + k, j)
               /\ mv = 0
               /\ \A i \in Nat : start + mv <= i => Entry(i) = NoRef
    <3>1. mem_ptr = start /\ \A i \in Nat : start <= i => Entry(i) = NoRef
      BY <1>13, <2>4
    <3>2. mv = 0
      <4> HIDE DEF start, n
      <4> QED
        BY <2>2, <3>1, MovedExact
    <3>3. ASSUME NEW k \in 0 .. Len(vs) - told - 1, NEW j \in 1 .. Refs(vs, told + k)
          PROVE  Entry(o2[k] + j - 1) = Adr(vs, ls, told + k, j)
      <4>1. k \in 0 .. m /\ told + k \in 0 .. ran
        BY <1>2, <1>3, <1>5, <1>9
      <4>2. o2[k] = o[k] /\ Refs(vs, told + k) = Refs(visited, told + k)
            /\ Adr(vs, ls, told + k, j) = Adr(visited, lost, told + k, j)
        BY <1>5, <1>10, <1>17, <4>1
      <4> HIDE DEF m
      <4> QED
        BY <1>13, <2>4, <4>1, <4>2
    <3>4. ASSUME NEW i \in Nat, start + mv <= i PROVE Entry(i) = NoRef
      <4>1. start + mv = start
        BY <2>2, <3>2
      <4> QED
        BY <3>1, <3>4, <4>1
    <3> HIDE DEF start, mv
    <3> QED
      BY <3>2, <3>3, <3>4
  <2> HIDE DEF start
  <2>5. start = o2[Len(vs) - told]
    <3>1. Len(vs) - told = ran + 1 - told
      <4>1. Len(vs) = ran + 1 /\ told \in Nat /\ ran \in Nat
        BY <1>2, <1>3, <1>5
      <4> QED
        BY <4>1
    <3>2. start = o2[ran + 1 - told]
      BY <1>3, <1>10 DEF start
    <3> QED
      BY <3>1, <3>2
  <2>6. mv = Moved(start, Refs(vs, Len(vs)))
    BY <1>5
  <2> HIDE DEF mv
  <2>7. recorded' \in Nat /\ recorded' <= Refs(vs, Len(vs)) /\ ran <= Len(vs) /\ told < Len(vs)
    BY <1>1, <1>2, <1>3, <1>5, <2>2, <2>3
  <2>8. Precise' =>
           /\ Precise
           /\ \A k \in 0 .. Len(vs) - told - 1 : \A j \in 1 .. Refs(vs, told + k) :
                Entry(o2[k] + j - 1) = Adr(vs, ls, told + k, j)
           /\ mv = recorded'
           /\ \A j \in 1 .. mv : IF start > 0 THEN Entry(start + j - 1) = Adr(vs, ls, Len(vs), j)
                                            ELSE Adr(vs, ls, Len(vs), j) = NoRef
           /\ \A i \in Nat : start + mv <= i => Entry(i) = NoRef
    BY <1>1, <1>14, <2>4
  <2> HIDE DEF noted
  <2>9. PICK c0 : c0 = noted
    OBVIOUS
  <2>10. Notes(InitStackCache(c0), vs, told) /\ InitStackCache(c0)[0] = NoBlock /\ CatchUp(c0)
    BY <1>6, <2>1, <2>9, Zenon
  <2>11. \A k \in 0 .. ran : Ctx(vs, k) = Ctx(visited, k) /\ Blk(vs, k) = Blk(visited, k)
    BY <1>5
  <2>13. /\ lost' = ls
         /\ \A k \in 0 .. Len(vs) - 1 : \A j : Adr(vs, ls, k, j) = Adr(visited, lost, k, j)
         /\ \A k, j \in Nat : Ref(k, j) \in ls => k < Len(vs) \/ (k = Len(vs) /\ j <= recorded')
    <3>1. Len(vs) - 1 = ran /\ \A k \in Nat : k <= told => k < Len(vs)
      BY <1>2, <1>3, <1>5
    <3> QED
      BY <1>4, <1>17, <1>18, <3>1
  <2>12. ~ended' /\ visited' = vs /\ PathOK(vs) /\ Offsets(o2, vs, told)
    BY <1>1, <1>4, <1>5, <1>10
  <2> QED
    BY <1>1, <2>5, <2>6, <2>7, <2>8, <2>10, <2>11, <2>12, <2>13, CatchUpInv
<1>16. CASE ~NoRoom(b)
  <2>1. bb_cache' = noted /\ ptr' = ptr + 1 /\ UNCHANGED <<mem, mem_ptr, cur, pre, delivered>>
    BY <1>16 DEF EnterBB, refs
  <2>2. ptr + 1 # 1 /\ ptr + 1 # BB_CACHE_MESSAGE_MAX_NUM /\ mem_ptr + 1 + MemRefs[b] < M
    <3>1. MemRefs[b] \in Nat
      BY BlockAssumption
    <3> QED
      BY <1>2, <1>16, <3>1 DEF NoRoom
  <2>3. ran > 0 /\ ptr = ran - told + 1 /\ ptr + 1 \in BBIndex
    BY <1>2, <1>3, <2>2, SizeAssumption DEF BBIndex
  <2>4. bb_cache' = c
    BY <1>6, <2>1, <2>3
  <2>5. told' = told /\ ran' = ran + 1
    BY <1>4, <1>5, <2>1 DEF told, ran
  <2>6. NotesInv'
    <3>1. cur' = Ctx(vs, told) /\ pre' = Blk(vs, told)
      <4>1. told \in 0 .. ran
        BY <1>2, <1>3
      <4> QED
        BY <1>2, <1>5, <2>1, <4>1
    <3>2. recorded' <= Refs(vs, ran + 1)
      BY <1>1, <1>5, BlockAssumption
    <3>3. told <= ran + 1 /\ told > 0 /\ ran + 1 # 0 /\ ptr' = (ran + 1) - told + 1
      BY <1>2, <1>3, <2>1, <2>3
    <3>4. Notes(bb_cache', vs, told) /\ bb_cache'[0] = NoBlock
      BY <1>6, <2>4
    <3> HIDE DEF c, noted
    <3> QED
      BY <1>4, <2>5, <3>1, <3>2, <3>3, <3>4 DEF NotesInv
  <2>7. owed' = MemRefs[b]
    <3>1. (PathOK(visited) /\ recorded \in Nat /\ recorded <= Refs(visited, ran))'
      BY <1>1, <1>4, <1>5, <2>5, BlockAssumption
    <3>2. owed' = Refs(vs, ran + 1) - recorded'
      BY <1>4, <2>5, <3>1, OwedIsNext
    <3> QED
      BY <1>1, <1>5, <3>2, BlockAssumption
  <2>8. TypeInv'
    <3>1. mem_ptr' \in 0 .. M /\ mem_ptr' + owed' <= M
      BY <1>2, <2>1, <2>2, <2>7, BlockAssumption
    <3>2. bb_cache' \in [BBIndex -> Block \cup {NoBlock}] /\ ptr' \in BBIndex
      BY <1>6, <2>1, <2>3, <2>4 DEF Notes
    <3>3. PathOK(visited)' /\ recorded' \in Nat
      BY <1>1, <1>4, <1>5
    <3>4. mem' \in [RefIndex -> Addr] /\ delivered' \in Seq(Report)
      BY <2>1 DEF IInv, TypeInv
    <3> QED
      BY <3>1, <3>2, <3>3, <3>4 DEF TypeInv, InBounds, M
  <2>9. ToldInv'
    <3>1. Told(delivered, vs)
      <4> SUFFICES ASSUME NEW i \in 1 .. told PROVE delivered[i].node = Ctx(vs, i - 1)
        BY DEF Told, told
      <4>1. i - 1 \in 0 .. ran
        BY <1>2, <1>3
      <4>2. delivered[i].node = Ctx(visited, i - 1)
        BY DEF IInv, ToldInv, Told, told
      <4> QED
        BY <1>5, <4>1, <4>2
    <3>2. ASSUME Precise PROVE ToldRefs(delivered, vs, ls, told)
      <4> SUFFICES ASSUME NEW i \in 2 .. told
                   PROVE  delivered[i].addrs = [j \in 1 .. Refs(vs, i - 1) |-> Adr(vs, ls, i - 1, j)]
        BY DEF ToldRefs
      <4>1. i - 1 \in 0 .. ran
        BY <1>2, <1>3
      <4>2. delivered[i].addrs = [j \in 1 .. Refs(visited, i - 1) |-> Adr(visited, lost, i - 1, j)]
        BY <1>1, <3>2 DEF IInv, ToldInv, ToldRefs
      <4>3. \A j : Adr(vs, ls, i - 1, j) = Adr(visited, lost, i - 1, j)
        BY <1>17, <4>1
      <4> QED
        BY <1>5, <4>1, <4>2, <4>3
    <3> QED
      BY <1>1, <1>4, <1>14, <2>1, <2>5, <3>1, <3>2 DEF ToldInv
  <2>10. Placed(o2)'
    <3> DEFINE l == o[m] + recorded
    <3>1. (ran + 1) - told = m + 1 /\ o2[m + 1] = l /\ ran + 1 - told = m + 1 /\ l \in Nat
      <4>1. (ran + 1) - told = m + 1 /\ ran + 1 - told = m + 1
        BY <1>2, <1>3
      <4> QED
        BY <1>2, <1>3, <1>10, <1>12, <4>1
    <3>3. \A i : (Entry(i))' = Entry(i)
      BY <2>1 DEF Entry, RefIndex
    <3>4. ASSUME Precise
          PROVE  /\ mem_ptr' = o2[m + 1] + recorded'
                 /\ \A k \in 0 .. m + 1 : \A j \in 1 .. (written(k))' :
                      (Entry(o2[k] + j - 1))' = Adr(vs, ls, told + k, j)
                 /\ \A i \in Nat : mem_ptr' <= i => (Entry(i))' = NoRef
      <4>1. mem_ptr = l
        BY <1>13, <3>4
      <4>2. mem_ptr' = o2[m + 1] + recorded'
        BY <1>1, <2>1, <3>1, <4>1
      <4>3. ASSUME NEW k \in 0 .. m + 1, NEW j \in 1 .. (written(k))'
            PROVE  (Entry(o2[k] + j - 1))' = Adr(vs, ls, told + k, j)
        <5>1. CASE k = m + 1
          <6>1. (written(k))' = 0
            BY <1>1, <2>5, <3>1, <5>1 DEF written
          <6> QED
            BY <6>1
        <5>2. CASE k # m + 1
          <6>1. k \in 0 .. m /\ told + k \in 0 .. ran
            BY <1>2, <1>3, <1>9, <5>2
          <6>2. (written(k))' = Refs(visited, told + k)
            BY <1>4, <1>5, <2>5, <3>1, <5>2, <6>1 DEF written
          <6>3. o2[k] = o[k] /\ Adr(vs, ls, told + k, j) = Adr(visited, lost, told + k, j)
            BY <1>10, <1>17, <6>1
          <6> HIDE DEF m
          <6> QED
            BY <1>13, <3>3, <3>4, <6>1, <6>2, <6>3
        <5> QED
          BY <5>1, <5>2
      <4>4. \A i \in Nat : mem_ptr' <= i => (Entry(i))' = NoRef
        BY <1>13, <2>1, <3>3, <3>4
      <4> QED
        BY <4>2, <4>3, <4>4
    <3>5. Offsets(o2, visited, told)'
      BY <1>4, <1>10, <2>5 DEF Offsets
    <3>6. (ran - told)' = m + 1
      BY <2>5, <3>1
    <3> HIDE DEF m, l
    <3> QED
      BY <1>4, <1>14, <2>5, <3>4, <3>5, <3>6 DEF Placed
  <2>11. LostInv'
    <3>1. ASSUME NEW k \in Nat, NEW j \in Nat, Ref(k, j) \in ls PROVE k <= told /\ k < ran + 1
      BY <1>2, <1>3, <1>18, <3>1
    <3> QED
      BY <1>4, <2>5, <3>1 DEF LostInv, Ref
  <2> QED
    BY <2>6, <2>8, <2>9, <2>10, <2>11 DEF IInv, RefsInv
<1> QED
  BY <1>15, <1>16

LEMMA ThreadEndInv == IInv /\ ThreadEnd => IInv'
<1> SUFFICES ASSUME IInv, ThreadEnd PROVE IInv'
  OBVIOUS
<1> DEFINE d == Drained(InitStackCache(bb_cache))
           last == BlockEnd(d.cur, <<>>)
           m == ran - told
<1>1. /\ ~ended /\ owed = 0 /\ ended' = TRUE /\ UNCHANGED <<bb_cache, ptr, mem, mem_ptr, recorded, visited, lost, disturbed>>
      /\ delivered' = Append(delivered \o d.ends, last)
  BY DEF ThreadEnd, cache, refs
<1>2. /\ PathOK(visited) /\ recorded \in Nat /\ recorded <= Refs(visited, ran)
      /\ told <= ran /\ told \in Nat /\ bb_cache[0] = NoBlock /\ Notes(bb_cache, visited, told)
      /\ cur = Ctx(visited, told) /\ pre = Blk(visited, told)
      /\ mem_ptr \in 0 .. INNER_MEM_REF_CACHE_MAX
  BY <1>1, SeqFacts DEF IInv, TypeInv, InBounds, NotesInv, told
<1>3. ran \in Nat /\ recorded = Refs(visited, ran) /\ told \in 0 .. Len(visited) /\ Len(visited) = ran
      /\ m \in Nat /\ m \in 0 .. m /\ told + m = ran
  <2>1. ran \in Nat /\ Refs(visited, ran) \in Nat /\ owed = Refs(visited, ran) - recorded
    BY <1>2, OwedIs
  <2> QED
    BY <1>1, <1>2, <2>1 DEF ran
<1>4. InitStackCache(bb_cache) = bb_cache
  BY <1>2 DEF InitStackCache
<1>5. PICK o : Placed(o)
  BY <1>1 DEF IInv, RefsInv
<1>6. Offsets(o, visited, told)
  BY <1>5 DEF Placed
<1>8. d.cur = Ctx(visited, ran) /\ delivered \o d.ends = Delivery(o, visited)
  <2> DEFINE ends == [i \in 1 .. Len(visited) - told |-> EndOf(o, visited, told, i)]
  <2>1. d = [cur |-> Ctx(visited, Len(visited)), pre |-> Blk(visited, Len(visited)),
             start |-> o[Len(visited) - told], ends |-> ends]
    BY <1>2, <1>3, <1>4, <1>6, DrainedExact
  <2> HIDE DEF ends, d
  <2>2. d.ends = ends /\ d.cur = Ctx(visited, ran)
    BY <1>3, <2>1
  <2> QED
    BY <2>2 DEF Delivery, ends
<1> HIDE DEF d
<1>9. last \in Report /\ last.node = Ctx(visited, ran)
  <2>1. Ctx(visited, ran) \in Seq(Block)
    BY <1>2, <1>3, PathFacts
  <2>2. <<>> \in Seq(Addr)
    BY EmptySeq
  <2> QED
    BY <1>8, <2>1, <2>2 DEF BlockEnd, Report
<1> HIDE DEF last
<1> DEFINE dl == Delivery(o, visited)
<1>10. /\ dl \in Seq(Report) /\ Len(dl) = ran /\ Told(dl, visited)
       /\ Precise => ToldRefs(dl, visited, lost, ran)
  <2>1. TypeInv /\ NotesInv /\ ToldInv
    BY DEF IInv
  <2>2. dl \in Seq(Report) /\ Len(dl) = ran
    BY <1>2, <1>3, <1>6, <2>1, DeliveryExact
  <2>3. Precise => \A k \in 0 .. Len(visited) - told - 1 : \A j \in 1 .. Refs(visited, told + k) :
                      Entry(o[k] + j - 1) = Adr(visited, lost, told + k, j)
    <3> SUFFICES ASSUME Precise, NEW k \in 0 .. Len(visited) - told - 1, NEW j \in 1 .. Refs(visited, told + k)
                 PROVE  Entry(o[k] + j - 1) = Adr(visited, lost, told + k, j)
      OBVIOUS
    <3>1. k \in 0 .. m /\ k # m
      BY <1>2, <1>3
    <3>2. written(k) = Refs(visited, told + k)
      BY <3>1 DEF written
    <3> QED
      BY <1>5, <3>1, <3>2 DEF Placed
  <2>4. ran <= Len(visited)
    BY <1>3
  <2> HIDE DEF dl
  <2>5. Told(dl, visited) /\ (Precise => ToldRefs(dl, visited, lost, Len(visited)))
    <3>1. PICK ls : ls = lost
      OBVIOUS
    <3>2. \A k \in 0 .. Len(visited) - 1 : \A j : Adr(visited, ls, k, j) = Adr(visited, lost, k, j)
      BY <3>1
    <3>3. Told(dl, visited) /\ (Precise => ToldRefs(dl, visited, ls, Len(visited)))
      BY <1>1, <1>2, <1>6, <2>1, <2>3, <2>4, <3>1, <3>2, DeliveryTells DEF dl
    <3> QED
      BY <3>1, <3>3
  <2> QED
    BY <1>3, <2>2, <2>5
<1>11. delivered' = Append(dl, last)
  BY <1>1, <1>8
<1> HIDE DEF dl
<1>12. /\ delivered' \in Seq(Report) /\ Len(delivered') = ran + 1 /\ delivered'[ran + 1] = last
       /\ \A i \in 1 .. ran : delivered'[i] = dl[i]
  BY <1>9, <1>10, <1>11, AppendLast
<1>13. told' = ran + 1 /\ ran' = ran
  BY <1>1, <1>12 DEF told, ran
<1>14. TypeInv'
  <2>1. owed' = owed
    BY <1>1 DEF owed, running
  <2> QED
    BY <1>1, <1>12, <2>1 DEF IInv, TypeInv, InBounds
<1>15. Told(delivered', visited)
  <2> SUFFICES ASSUME NEW i \in 1 .. ran + 1 PROVE delivered'[i].node = Ctx(visited, i - 1)
    BY <1>12 DEF Told
  <2>1. CASE i = ran + 1
    BY <1>3, <1>9, <1>12, <2>1
  <2>2. CASE i # ran + 1
    <3>1. i \in 1 .. ran
      BY <1>3, <2>2
    <3> QED
      BY <1>10, <1>12, <3>1 DEF Told
  <2> QED
    BY <2>1, <2>2
<1>16. Precise => ToldRefs(delivered', visited, lost, ran)
  BY <1>3, <1>10, <1>12 DEF ToldRefs
<1>17. ToldInv'
  BY <1>1, <1>13, <1>15, <1>16 DEF ToldInv, Precise
<1>18. LostInv'
  <2>1. ASSUME NEW k \in Nat, NEW j \in Nat, Ref(k, j) \in lost
        PROVE  k <= ran + 1 /\ (k < ran \/ (k = ran /\ j <= recorded))
    <3>1. k < ran \/ (k = ran /\ j <= recorded)
      BY <2>1 DEF IInv, LostInv
    <3> QED
      BY <1>3, <3>1
  <2> QED
    BY <1>1, <1>13, <2>1 DEF LostInv, Ref
<1> QED
  BY <1>1, <1>14, <1>17, <1>18 DEF IInv, NotesInv, RefsInv

LEMMA InitIInv == Init => IInv
<1> SUFFICES ASSUME Init PROVE IInv
  OBVIOUS
<1>1. PICK a \in Fresh : mem = [i \in RefIndex |-> a] /\ disturbed = (a # NoRef)
  BY DEF Init
<1>2. /\ bb_cache = [i \in BBIndex |-> NoBlock] /\ ptr = 0 /\ mem_ptr = 0 /\ cur = <<>> /\ pre = RootBlock
      /\ ended = FALSE /\ recorded = 0 /\ delivered = <<>> /\ visited = <<>> /\ lost = {}
  BY DEF Init
<1>3. told = 0 /\ ran = 0 /\ owed = 0 /\ Ctx(visited, 0) = <<>> /\ Blk(visited, 0) = RootBlock
      /\ Refs(visited, 0) = 0
  BY <1>2 DEF told, ran, owed, Ctx, Blk, Refs, NumRefs
<1>4. BBIndex = 0 .. BB_CACHE_MESSAGE_MAX_NUM - 1 /\ 0 \in BBIndex /\ INNER_MEM_REF_CACHE_MAX \in Nat
      /\ BB_CACHE_MESSAGE_MAX_NUM > 1 /\ RefIndex = 0 .. INNER_MEM_REF_CACHE_MAX - 1
  BY SizeAssumption DEF BBIndex, RefIndex
<1>5. Len(visited) = 0 /\ Len(delivered) = 0 /\ visited \in Seq(Seq(Block)) /\ delivered \in Seq(Report)
  BY <1>2
<1>6. TypeInv
  <2>1. PathOK(visited)
    BY <1>5 DEF PathOK
  <2>2. mem \in [RefIndex -> Addr]
    BY <1>1 DEF Addr
  <2>3. InBounds
    BY <1>2, <1>3, <1>4 DEF InBounds
  <2> QED
    BY <1>2, <1>5, <2>1, <2>2, <2>3 DEF TypeInv
<1>7. NotesInv
  <2>1. Notes(bb_cache, visited, told)
    <3>1. \A i \in 1 .. BB_CACHE_MESSAGE_MAX_NUM - 1 : i \in BBIndex /\ ~ (i <= 0)
      BY <1>4
    <3>2. Len(visited) - told = 0 /\ 0 < BB_CACHE_MESSAGE_MAX_NUM
      BY <1>3, <1>4, <1>5, SizeAssumption
    <3>3. \A i \in 1 .. BB_CACHE_MESSAGE_MAX_NUM - 1 :
            bb_cache[i] = IF i <= Len(visited) - told THEN Blk(visited, told + i) ELSE NoBlock
      BY <1>2, <3>1, <3>2
    <3>4. bb_cache \in [BBIndex -> Block \cup {NoBlock}]
      BY <1>2
    <3> QED
      BY <3>2, <3>3, <3>4 DEF Notes
  <2> QED
    BY <1>2, <1>3, <1>4, <2>1 DEF NotesInv
<1>8. ToldInv
  <2>1. Told(delivered, visited) /\ ToldRefs(delivered, visited, lost, 0)
    BY <1>5 DEF Told, ToldRefs
  <2> QED
    BY <1>2, <1>3, <2>1 DEF ToldInv
<1>9. RefsInv
  <2> DEFINE z == [k \in 0 .. 0 |-> 0]
  <2>1. Offsets(z, visited, told)
    BY <1>3, <1>5 DEF Offsets
  <2>2. z[0] = 0
    OBVIOUS
  <2> HIDE DEF z
  <2>4. Precise => \A i : Entry(i) = NoRef
    BY <1>1 DEF Precise, Entry
  <2>5. \A k \in 0 .. 0 : written(k) = 0
    BY <1>2, <1>3 DEF written
  <2>6. Placed(z)
    BY <1>2, <1>3, <2>1, <2>2, <2>4, <2>5 DEF Placed
  <2> QED
    BY <2>6 DEF RefsInv
<1>10. LostInv
  BY <1>2 DEF LostInv
<1> QED
  BY <1>6, <1>7, <1>8, <1>9, <1>10 DEF IInv

LEMMA StepIInv == IInv /\ [Next]_vars => IInv'
<1> SUFFICES ASSUME IInv, [Next]_vars PROVE IInv'
  OBVIOUS
<1>1. ASSUME NEW b \in Block, EnterBB(b) PROVE IInv'
  BY <1>1, EnterBBInv
<1>2. CASE RecordRef
  BY <1>2, RecordRefInv
<1>3. CASE Refresh
  BY <1>3, RefreshInv
<1>4. CASE ThreadEnd
  BY <1>4, ThreadEndInv
<1>5. CASE UNCHANGED vars
  <2>1. UNCHANGED <<bb_cache, ptr, mem, mem_ptr, cur, pre, ended, recorded, delivered, visited, lost, disturbed>>
    BY <1>5 DEF vars, cache, refs, history
  <2>2. UNCHANGED <<told, ran, owed, Precise>>
    BY <2>1 DEF told, ran, owed, running, Precise
  <2>3. TypeInv' /\ NotesInv' /\ ToldInv'
    BY <2>1, <2>2 DEF IInv, TypeInv, InBounds, NotesInv, ToldInv, Notes
  <2>4. RefsInv'
    <3> SUFFICES ASSUME ~ended, NEW o, Placed(o) PROVE Placed(o)'
      BY <2>1 DEF IInv, RefsInv
    <3>1. (\A i : (Entry(i))' = Entry(i)) /\ \A k : (written(k))' = written(k)
      BY <2>1, <2>2 DEF written, Entry, RefIndex
    <3>2. Offsets(o, visited, told)'
      BY <2>1, <2>2 DEF Placed, Offsets
    <3> QED
      BY <2>1, <2>2, <3>1, <3>2 DEF Placed
  <2>5. LostInv'
    BY <2>1, <2>2 DEF IInv, LostInv, Ref
  <2> QED
    BY <2>3, <2>4, <2>5 DEF IInv
<1> QED
  BY <1>1, <1>2, <1>3, <1>4, <1>5 DEF Next

LEMMA Inductive == Spec => []IInv
BY InitIInv, StepIInv, PTL DEF Spec

-----------------------------------------------------------------------------
(* The two pointers never leave their arrays: the clean call comes in time *)
(* whatever the blocks' numbers of references are, and even when the new   *)
(* memory was not zero and the running block seems to have recorded more.  *)
THEOREM PointersInBounds == Spec => []InBounds
<1>1. IInv => InBounds
  BY DEF IInv, TypeInv
<1> QED
  BY <1>1, Inductive, PTL

(* Wherever the thread stopped catching up, its node and its notes lead to *)
(* the context the application is in.                                      *)
THEOREM NotesLeadToContext == Spec => []CaughtUpExact
<1>1. IInv => CaughtUpExact
  <2> SUFFICES ASSUME IInv, ~ended, visited # <<>>
               PROVE  Drained(InitStackCache(bb_cache)).cur = running
    BY DEF CaughtUpExact
  <2>1. /\ PathOK(visited) /\ told <= ran /\ told \in Nat
        /\ bb_cache[0] = NoBlock /\ Notes(bb_cache, visited, told)
        /\ cur = Ctx(visited, told) /\ pre = Blk(visited, told)
    BY SeqFacts DEF IInv, TypeInv, NotesInv, told
  <2>2. Len(visited) \in Nat /\ Len(visited) # 0 /\ told \in 0 .. Len(visited)
    BY <2>1, SeqFacts DEF PathOK, ran
  <2>3. PICK o : Offsets(o, visited, told)
    BY DEF IInv, RefsInv, Placed
  <2>4. InitStackCache(bb_cache) = bb_cache
    BY <2>1 DEF InitStackCache
  <2> DEFINE ends == [i \in 1 .. Len(visited) - told |-> EndOf(o, visited, told, i)]
  <2>5. Drained(bb_cache) = [cur |-> Ctx(visited, Len(visited)), pre |-> Blk(visited, Len(visited)),
                             start |-> o[Len(visited) - told], ends |-> ends]
    BY <2>1, <2>2, <2>3, DrainedExact
  <2> HIDE DEF ends
  <2>6. Drained(bb_cache).cur = Ctx(visited, Len(visited))
    BY <2>5
  <2> QED
    BY <2>2, <2>4, <2>6 DEF running, Last, Ctx
<1> QED
  BY <1>1, Inductive, PTL

(* The client is told of the end of every block once, in order and under   *)
(* the block's context, however many blocks a refresh catches up with.     *)
THEOREM EndsAreReported == Spec => []EveryBlockReported
<1>1. IInv => EveryBlockReported
  <2> SUFFICES ASSUME IInv PROVE EveryBlockReported
    OBVIOUS
  <2> DEFINE expected == <<<<>>>> \o visited
  <2>1. /\ delivered \in Seq(Report) /\ told \in Nat /\ visited \in Seq(Seq(Block)) /\ ran \in Nat
        /\ Told(delivered, visited)
    BY SeqFacts DEF IInv, TypeInv, ToldInv, PathOK, told, ran
  <2>2. told <= ran + 1 /\ (ended => told = ran + 1)
    BY <2>1 DEF IInv, NotesInv, ToldInv
  <2>3. <<<<>>>> \in Seq(Seq(Block)) /\ Len(<<<<>>>>) = 1 /\ <<<<>>>>[1] = <<>>
    OBVIOUS
  <2>4. Len(expected) = ran + 1
        /\ \A i \in 1 .. ran + 1 : expected[i] = IF i = 1 THEN <<>> ELSE visited[i - 1]
    <3> DEFINE s == <<<<>>>>
    <3>1. s \in Seq(Seq(Block)) /\ Len(s) = 1 /\ s[1] = <<>>
      BY <2>3
    <3> HIDE DEF s
    <3>2. Len(s \o visited) = Len(s) + Len(visited)
          /\ \A i \in 1 .. Len(s) + Len(visited) :
               (s \o visited)[i] = IF i <= Len(s) THEN s[i] ELSE visited[i - Len(s)]
      BY <2>1, <3>1, ConcatProperties
    <3>3. expected = s \o visited
      BY DEF s
    <3> HIDE DEF expected
    <3>4. Len(expected) = ran + 1
          /\ \A i \in 1 .. ran + 1 : expected[i] = IF i <= 1 THEN s[i] ELSE visited[i - 1]
      BY <2>1, <3>1, <3>2, <3>3 DEF ran
    <3> QED
      BY <2>1, <3>1, <3>4
  <2> HIDE DEF expected
  <2>5. ASSUME NEW i \in DOMAIN delivered PROVE delivered[i].node = expected[i]
    <3>1. i \in 1 .. told /\ i \in 1 .. ran + 1
      BY <2>1, <2>2, SeqFacts DEF told
    <3>2. delivered[i].node = Ctx(visited, i - 1)
      BY <2>1, <3>1 DEF Told, told
    <3>3. expected[i] = Ctx(visited, i - 1)
      <4>1. expected[i] = IF i = 1 THEN <<>> ELSE visited[i - 1]
        BY <2>4, <3>1
      <4>2. i - 1 = 0 <=> i = 1
        BY <2>1, <3>1
      <4> QED
        BY <4>1, <4>2 DEF Ctx
    <3> QED
      BY <3>2, <3>3
  <2>6. Len(delivered) <= Len(expected) /\ (ended => Len(delivered) = Len(expected))
    BY <2>2, <2>4 DEF told
  <2> QED
    BY <2>5, <2>6 DEF EveryBlockReported, expected
<1> QED
  BY <1>1, Inductive, PTL

(* The client is given the references of the block that ended, in order    *)
(* and no other's, all but those that a refresh has cleared: blocks may    *)
(* have no references, and references no address.                          *)
THEOREM RefsAreExact == Spec => []RefsExact
<1>1. IInv => RefsExact
  <2> SUFFICES ASSUME IInv, ~disturbed,
                      NEW i \in 2 .. Len(delivered), ~ (ended /\ i = Len(delivered))
               PROVE  delivered[i].addrs = [j \in 1 .. NumRefs(Last(visited[i - 1])) |-> Given(i - 1, j)]
    BY DEF RefsExact
  <2>1. told \in Nat /\ ran \in Nat /\ (ended => told = ran + 1)
        /\ ToldRefs(delivered, visited, lost, IF ended THEN ran ELSE told)
    BY SeqFacts DEF IInv, TypeInv, ToldInv, PathOK, Precise, told, ran
  <2>2. i \in 2 .. (IF ended THEN ran ELSE told) /\ i - 1 # 0
    BY <2>1 DEF told
  <2>3. delivered[i].addrs = [j \in 1 .. Refs(visited, i - 1) |-> Adr(visited, lost, i - 1, j)]
    BY <2>1, <2>2 DEF ToldRefs
  <2>4. Refs(visited, i - 1) = NumRefs(Last(visited[i - 1]))
        /\ \A j : Adr(visited, lost, i - 1, j) = Given(i - 1, j)
    BY <2>2 DEF Refs, Blk, Adr, Address, Given
  <2> QED
    BY <2>3, <2>4
<1> QED
  BY <1>1, Inductive, PTL
=============================================================================
