------------------------- MODULE MemoryCacheProofs -------------------------
(***************************************************************************)
(* Proofs about MemoryCache for any number of threads and sizes of pages   *)
(* and refills: no object is in two pieces, and none is handed out twice.  *)
(***************************************************************************)
EXTENDS MemoryCache, SequenceTheorems, DataInduction

PieceSet == [start : Nat, size : Nat \ {0}]

Waiting == {"off", "construct", "refill"}
Filling == {"construct locked", "refill locked"}
Holding == Filling \cup {"return"}

PageTypeOK ==
  /\ page \in Nat /\ page < PageNum
  /\ next \in 0 .. PageSize

ModeTypeOK == debris_mode \in BOOLEAN /\ lock \in Thread \cup {NoThread}

ThreadTypeOK ==
  /\ phase \in [Thread -> Waiting \cup Holding \cup {"run", "ended"}]
  /\ frame_id \in [Thread -> Nat \ {0}]
  /\ use_num \in [Thread -> Nat \cup {-1}]

PiecesTypeOK ==
  /\ debris \in Seq(PieceSet)
  /\ frames \in [Thread -> Seq(PieceSet)]

HandedTypeOK == handed \in [Object -> Nat]

PoolTypeOK == PageTypeOK /\ ModeTypeOK /\ ThreadTypeOK /\ PiecesTypeOK /\ HandedTypeOK

(* Where a thread stands in its frames, and who holds the lock.            *)
Standing(t) ==
  /\ phase[t] \in Holding <=> lock = t
  /\ phase[t] \in Waiting \cup {"ended"} => frames[t] = <<>>
  /\ phase[t] \in Waiting \cup Filling => frame_id[t] = 1 /\ use_num[t] = -1
  /\ phase[t] = "run" => frame_id[t] <= Len(frames[t])
  /\ frame_id[t] <= Len(frames[t]) => use_num[t] < frames[t][frame_id[t]].size

(* The objects of the pages begun so far.                                  *)
Begun == 0 .. (page + 1) * PageSize - 1

PiecesBegun ==
  /\ \A p \in Places : Held(p) \subseteq Begun
  /\ \A o \in Object : handed[o] # 0 => o \in Begun

IInv ==
  /\ PoolTypeOK
  /\ \A t \in Thread : Standing(t)
  /\ PiecesBegun
  /\ PiecesDisjoint

-----------------------------------------------------------------------------
(* Sizes, and sequences of pieces.                                         *)

LEMMA Sizes ==
  /\ PageNum \in Nat \ {0} /\ PageSize \in Nat \ {0}
  /\ MinNum \in Nat \ {0} /\ DebrisMin \in Nat \ {0} /\ MinNum <= PageSize
BY SizeAssumption

LEMMA Names == NoThread \notin Thread /\ "debris" \notin Thread /\ "debris" # NoThread
BY SizeAssumption

LEMMA Positive == PageNum \in Nat /\ PageNum > 0 /\ PageSize \in Nat /\ PageSize > 0
                  /\ MinNum \in Nat /\ MinNum > 0 /\ DebrisMin \in Nat /\ DebrisMin > 0
BY Sizes

LEMMA Times ==
  ASSUME NEW i \in Nat, NEW j \in Nat, i <= j, NEW k \in Nat
  PROVE  i * k \in Nat /\ i * k <= j * k /\ (i + 1) * k = i * k + k
BY Z3

(* What is begun are objects.                                              *)
LEMMA BegunObjects ==
  ASSUME page \in Nat, page < PageNum
  PROVE  Begun \subseteq Object /\ page * PageSize \in Nat
         /\ (page + 1) * PageSize = page * PageSize + PageSize
<1>1. page + 1 \in Nat /\ page + 1 <= PageNum
  BY Sizes
<1>2. (page + 1) * PageSize <= PageNum * PageSize /\ (page + 1) * PageSize \in Nat
  BY <1>1, Sizes, Times
<1>3. page * PageSize \in Nat /\ (page + 1) * PageSize = page * PageSize + PageSize
  BY Sizes, Times
<1>4. PageNum * PageSize \in Nat
  BY Sizes, Times
<1> HIDE DEF Begun
<1>5. QED
  <2> DEFINE a == (page + 1) * PageSize
             b == PageNum * PageSize
  <2>1. a \in Nat /\ b \in Nat /\ a <= b
    BY <1>2, <1>4
  <2> HIDE DEF a, b
  <2>2. 0 .. a - 1 \subseteq 0 .. b - 1
    BY <2>1
  <2> QED
    BY <1>3, <2>2 DEF a, b, Begun, Object

LEMMA SeqFacts ==
  ASSUME NEW s \in Seq(PieceSet)
  PROVE  /\ Len(s) \in Nat /\ DOMAIN s = 1 .. Len(s)
         /\ \A i \in 1 .. Len(s) : s[i] \in PieceSet
BY LenProperties, ElementOfSeq

LEMMA AppendFacts ==
  ASSUME NEW s \in Seq(PieceSet), NEW e \in PieceSet
  PROVE  /\ Append(s, e) \in Seq(PieceSet) /\ Len(Append(s, e)) = Len(s) + 1
         /\ \A i \in 1 .. Len(s) : Append(s, e)[i] = s[i]
         /\ Append(s, e)[Len(s) + 1] = e
BY AppendProperties

LEMMA FrontFacts ==
  ASSUME NEW s \in Seq(PieceSet), s # <<>>
  PROVE  /\ Front(s) \in Seq(PieceSet) /\ Len(Front(s)) = Len(s) - 1
         /\ \A i \in 1 .. Len(s) - 1 : Front(s)[i] = s[i]
         /\ Last(s) = s[Len(s)] /\ Len(s) >= 1
<1>1. Len(s) \in Nat /\ Len(s) >= 1 /\ \A i \in 1 .. Len(s) : s[i] \in PieceSet
  BY SeqFacts, EmptySeq
<1> DEFINE n == Len(s) - 1
           f == [i \in 1 .. n |-> s[i]]
<1>2. n \in Nat /\ f \in [1 .. n -> PieceSet]
  BY <1>1
<1>3. Front(s) = f
  BY DEF Front
<1> HIDE DEF n
<1>4. f \in Seq(PieceSet) /\ Len(f) = n
  BY <1>2, SeqDef, LenProperties
<1>5. \A i \in 1 .. n : f[i] = s[i]
  OBVIOUS
<1> HIDE DEF f
<1> QED
  BY <1>1, <1>3, <1>4, <1>5 DEF n, Last

-----------------------------------------------------------------------------
(* Places and what is in them, now and next.                               *)

LEMMA WhatPlaces ==
  /\ Places = (IF debris_mode THEN {} ELSE {<<NoThread, 1>>})
       \cup {<<"debris", i>> : i \in DOMAIN debris}
       \cup UNION {{<<t, i>> : i \in frame_id[t] .. Len(frames[t])} : t \in Thread}
  /\ Places' = (IF debris_mode' THEN {} ELSE {<<NoThread, 1>>})
       \cup {<<"debris", i>> : i \in DOMAIN debris'}
       \cup UNION {{<<t, i>> : i \in frame_id'[t] .. Len(frames'[t])} : t \in Thread}
BY DEF Places

LEMMA WhatHeld ==
  /\ Held(<<NoThread, 1>>) = Objects(Piece(page * PageSize + next, Room))
  /\ Held(<<NoThread, 1>>)' = Objects(Piece(page' * PageSize + next', Room'))
  /\ \A i : Held(<<"debris", i>>) = Objects(debris[i])
            /\ Held(<<"debris", i>>)' = Objects(debris'[i])
  /\ \A t \in Thread : \A i : /\ Held(<<t, i>>) = Objects(Left(t, i))
                              /\ Held(<<t, i>>)' = Objects(Left(t, i)')
BY Names DEF Held, PieceOf

(* Pieces that only move, shrink or vanish stay apart: every piece of the  *)
(* next state is within one of this state, no two of them within the same. *)
LEMMA PiecesMove ==
  ASSUME PiecesDisjoint, PiecesBegun,
         NEW m \in [Places' -> Places],
         \A p \in Places' : Held(p)' \subseteq Held(m[p]),
         \A p, q \in Places' : p # q => m[p] # m[q] \/ Held(p)' \cap Held(q)' = {},
         \A p \in Places' : \A o \in Held(p)' : handed'[o] = handed[o]
  PROVE  PiecesDisjoint' /\ \A p \in Places' : Held(p)' \subseteq Begun
<1>1. ASSUME NEW p \in Places' PROVE \A o \in Held(p)' : handed'[o] = 0
  BY <1>1 DEF PiecesDisjoint
<1>2. ASSUME NEW p \in Places', NEW q \in Places', p # q
      PROVE  Held(p)' \cap Held(q)' = {}
  <2>1. CASE m[p] # m[q]
    BY <1>2, <2>1 DEF PiecesDisjoint
  <2> QED
    BY <1>2, <2>1
<1>3. \A p \in Places' : Held(p)' \subseteq Begun
  BY DEF PiecesBegun
<1>4. PiecesDisjoint'
  BY <1>1, <1>2 DEF PiecesDisjoint
<1> QED
  BY <1>3, <1>4

LEMMA LeftFacts ==
  ASSUME PoolTypeOK, NEW t \in Thread, Standing(t)
  PROVE  /\ Len(frames[t]) \in Nat /\ DOMAIN frames[t] = 1 .. Len(frames[t])
         /\ frame_id[t] \in Nat /\ frame_id[t] >= 1
         /\ use_num[t] \in Int /\ use_num[t] >= -1
         /\ \A i \in frame_id[t] .. Len(frames[t]) :
              /\ frames[t][i] \in PieceSet
              /\ Left(t, i).start \in Nat /\ Left(t, i).size \in Nat
              /\ Left(t, i) = [start |-> Left(t, i).start, size |-> Left(t, i).size]
              /\ i # frame_id[t] => Left(t, i) = frames[t][i]
              /\ use_num[t] = -1 => Left(t, i).start = frames[t][i].start
                                    /\ Left(t, i).size = frames[t][i].size
<1>1. frames[t] \in Seq(PieceSet)
  BY DEF PoolTypeOK, PageTypeOK, ThreadTypeOK, PiecesTypeOK, HandedTypeOK
<1>2. /\ Len(frames[t]) \in Nat /\ DOMAIN frames[t] = 1 .. Len(frames[t])
      /\ frame_id[t] \in Nat /\ frame_id[t] >= 1
      /\ use_num[t] \in Int /\ use_num[t] >= -1
  BY <1>1, SeqFacts DEF PoolTypeOK, PageTypeOK, ThreadTypeOK, PiecesTypeOK, HandedTypeOK
<1>3. ASSUME NEW i \in frame_id[t] .. Len(frames[t])
      PROVE  /\ frames[t][i] \in PieceSet
             /\ Left(t, i).start \in Nat /\ Left(t, i).size \in Nat
             /\ Left(t, i) = [start |-> Left(t, i).start, size |-> Left(t, i).size]
             /\ i # frame_id[t] => Left(t, i) = frames[t][i]
             /\ use_num[t] = -1 => Left(t, i).start = frames[t][i].start
                                   /\ Left(t, i).size = frames[t][i].size
  <2>1. frames[t][i] \in PieceSet
    BY <1>1, <1>2, <1>3, SeqFacts
  <2>2. i = frame_id[t] => use_num[t] < frames[t][i].size
    BY <1>2, <1>3 DEF Standing
  <2> QED
    BY <1>2, <2>1, <2>2, SMTT(20) DEF Left, Piece, PieceSet
<1> QED
  BY <1>2, <1>3

(* The object a thread hands out is one.                                   *)
LEMMA HandOutObject ==
  ASSUME IInv, NEW t \in Thread, NEW i \in frame_id[t] .. Len(frames[t]),
         NEW k \in Nat, k < frames[t][i].size,
         i = frame_id[t] => k = use_num[t] + 1
  PROVE  /\ frames[t][i].start + k \in Held(<<t, i>>)
         /\ <<t, i>> \in Places
         /\ frames[t][i].start + k \in Object
<1>1. /\ frames[t][i] \in PieceSet
      /\ i # frame_id[t] => Left(t, i) = frames[t][i]
      /\ use_num[t] \in Int
  BY LeftFacts DEF IInv
<1>2. frames[t][i].start + k \in Objects(Left(t, i))
  BY <1>1, SMTT(20) DEF Left, Objects, Piece, PieceSet
<1>3. <<t, i>> \in Places
  BY WhatPlaces
<1>4. frames[t][i].start + k \in Begun
  BY <1>2, <1>3, WhatHeld DEF IInv, PiecesBegun
<1> QED
  BY <1>2, <1>3, <1>4, BegunObjects, WhatHeld DEF IInv, PoolTypeOK, PageTypeOK, ThreadTypeOK, PiecesTypeOK, HandedTypeOK

(* A piece added to the debris is one, unless it is given up.              *)
LEMMA DebrisAdded ==
  ASSUME PoolTypeOK, NEW p, p.start \in Nat, p.size \in Nat,
         p = [start |-> p.start, size |-> p.size], AddDebris(p)
  PROVE  /\ debris' \in Seq(PieceSet)
         /\ Len(debris) \in Nat /\ DOMAIN debris = 1 .. Len(debris)
         /\ \/ debris' = debris
            \/ /\ DOMAIN debris' = 1 .. Len(debris) + 1
               /\ \A i \in 1 .. Len(debris) : debris'[i] = debris[i]
               /\ debris'[Len(debris) + 1] = p
<1>1. debris \in Seq(PieceSet) /\ Len(debris) \in Nat /\ DOMAIN debris = 1 .. Len(debris)
  BY SeqFacts DEF PoolTypeOK, PageTypeOK, ThreadTypeOK, PiecesTypeOK, HandedTypeOK
<1>2. CASE p.size < DebrisMin
  BY <1>1, <1>2 DEF AddDebris
<1>3. CASE ~(p.size < DebrisMin)
  <2>1. p \in PieceSet /\ debris' = Append(debris, p)
    BY <1>3, Sizes DEF AddDebris, PieceSet
  <2> QED
    BY <1>1, <2>1, AppendFacts, SeqFacts
<1> QED
  BY <1>2, <1>3

-----------------------------------------------------------------------------
(* Types.                                                                  *)

LEMMA InvInit == Init => IInv
<1> SUFFICES ASSUME Init PROVE IInv
  OBVIOUS
<1>1. <<>> \in Seq(PieceSet) /\ Len(<<>>) = 0 /\ DOMAIN <<>> = {}
  BY EmptySeq
<1>2. PoolTypeOK
  <2>1. PageTypeOK
    <3>1. page = 0 /\ next = 0
      BY DEF Init
    <3> QED
      BY <3>1, Positive DEF PageTypeOK
  <2>m. ModeTypeOK
    BY DEF Init, ModeTypeOK
  <2>2. ThreadTypeOK
    BY DEF Init, ThreadTypeOK, Waiting
  <2>3. PiecesTypeOK
    BY <1>1 DEF Init, PiecesTypeOK
  <2>4. HandedTypeOK
    BY DEF Init, HandedTypeOK
  <2> QED
    BY <2>1, <2>m, <2>2, <2>3, <2>4 DEF PoolTypeOK
<1>3. ASSUME NEW t \in Thread PROVE Standing(t)
  <2>1. frames[t] = <<>> /\ frame_id[t] = 1 /\ use_num[t] = -1 /\ phase[t] = "off" /\ lock # t
    BY Names DEF Init
  <2> QED
    BY <1>1, <2>1 DEF Standing, Waiting, Holding, Filling
<1>4. Places = {<<NoThread, 1>>}
  BY <1>1, WhatPlaces DEF Init
<1>5. Held(<<NoThread, 1>>) \subseteq Begun /\ Begun \subseteq Object
  <2>1. page = 0 /\ next = 0 /\ PageSize \in Nat /\ PageNum \in Nat /\ PageNum > 0
    BY Positive DEF Init
  <2>2. Begun \subseteq Object /\ page * PageSize = 0 /\ (page + 1) * PageSize = PageSize
    BY <2>1, BegunObjects
  <2> QED
    BY <2>1, <2>2, WhatHeld DEF Objects, Piece, Room, Begun
<1>6. PiecesBegun
  BY <1>4, <1>5 DEF PiecesBegun, Init
<1>7. PiecesDisjoint
  BY <1>4, <1>5 DEF PiecesDisjoint, Init
<1> QED
  BY <1>2, <1>3, <1>6, <1>7 DEF IInv

LEMMA HandOutType ==
  ASSUME IInv, NEW t \in Thread, NEW i \in frame_id[t] .. Len(frames[t]),
         NEW k \in Nat, k < frames[t][i].size,
         i = frame_id[t] => k = use_num[t] + 1, HandOut(t, i, k)
  PROVE  /\ frame_id' \in [Thread -> Nat \ {0}]
         /\ use_num' \in [Thread -> Nat \cup {-1}]
         /\ handed' \in [Object -> Nat]
         /\ frame_id'[t] = i /\ use_num'[t] = k
         /\ \A u \in Thread \ {t} : frame_id'[u] = frame_id[u] /\ use_num'[u] = use_num[u]
         /\ \A o \in Object : o # frames[t][i].start + k => handed'[o] = handed[o]
<1>1. frames[t][i].start + k \in Object
  BY HandOutObject
<1>2. i \in Nat \ {0}
  BY LeftFacts DEF IInv
<1> QED
  BY <1>1, <1>2 DEF HandOut, IInv, PoolTypeOK, PageTypeOK, ThreadTypeOK, PiecesTypeOK, HandedTypeOK

(* A step of one thread leaves the others where they stand.                *)
LEMMA OthersStand ==
  ASSUME NEW t \in Thread, \A u \in Thread : Standing(u),
         lock' = lock \/ (lock = t /\ lock' = NoThread) \/ (lock = NoThread /\ lock' = t),
         \A u \in Thread \ {t} : /\ phase'[u] = phase[u] /\ frames'[u] = frames[u]
                                 /\ frame_id'[u] = frame_id[u] /\ use_num'[u] = use_num[u],
         Standing(t)'
  PROVE  \A u \in Thread : Standing(u)'
<1>1. ASSUME NEW u \in Thread \ {t} PROVE Standing(u)'
  <2>1. lock' = u <=> lock = u
    BY Names
  <2>2. /\ phase'[u] = phase[u] /\ frames'[u] = frames[u]
        /\ frame_id'[u] = frame_id[u] /\ use_num'[u] = use_num[u]
        /\ Standing(u)
    OBVIOUS
  <2> QED
    BY <2>1, <2>2 DEF Standing
<1> QED
  BY <1>1

(* What a thread's step does to the types, part by part.                   *)
LEMMA TypeKept ==
  ASSUME IInv, NEW t \in Thread, Step(t)
  PROVE  PoolTypeOK' /\ \A u \in Thread : Standing(u)'
<1>p. PageTypeOK
  BY DEF IInv, PoolTypeOK
<1>m. ModeTypeOK
  BY DEF IInv, PoolTypeOK
<1>t. ThreadTypeOK
  BY DEF IInv, PoolTypeOK
<1>q. PiecesTypeOK
  BY DEF IInv, PoolTypeOK
<1>h. HandedTypeOK
  BY DEF IInv, PoolTypeOK
<1>s. Standing(t) /\ \A u \in Thread : Standing(u)
  BY DEF IInv
<1>n. /\ frames[t] \in Seq(PieceSet) /\ Len(frames[t]) \in Nat
      /\ frame_id[t] \in Nat /\ frame_id[t] >= 1
      /\ use_num[t] \in Int /\ use_num[t] >= -1
      /\ \A i \in 1 .. Len(frames[t]) : frames[t][i].size > 0
  BY <1>q, <1>s, LeftFacts, SeqFacts DEF IInv, PiecesTypeOK, PieceSet
<1>e. <<>> \in Seq(PieceSet) /\ Len(<<>>) = 0
  BY EmptySeq
<1> DEFINE Phases == Waiting \cup Holding \cup {"run", "ended"}
           Still == UNCHANGED <<page, next>>
           LockMoves == \/ lock' = lock
                        \/ lock = t /\ lock' = NoThread
                        \/ lock = NoThread /\ lock' = t
           Rest == \A u \in Thread \ {t} :
                     /\ phase'[u] = phase[u] /\ frames'[u] = frames[u]
                     /\ frame_id'[u] = frame_id[u] /\ use_num'[u] = use_num[u]
           Kept == PageTypeOK' /\ ModeTypeOK' /\ ThreadTypeOK' /\ PiecesTypeOK' /\ HandedTypeOK'
(* A step that changes the thread's own entries only, to entries of their types. *)
<1>k. ASSUME PageTypeOK', ModeTypeOK', HandedTypeOK', debris' \in Seq(PieceSet),
             \E x \in Phases : phase' = [phase EXCEPT ![t] = x],
             \E x \in Seq(PieceSet) : frames' = [frames EXCEPT ![t] = x],
             \E x \in Nat \ {0} : frame_id' = [frame_id EXCEPT ![t] = x],
             \E x \in Nat \cup {-1} : use_num' = [use_num EXCEPT ![t] = x],
             LockMoves, Standing(t)'
      PROVE  PoolTypeOK' /\ \A u \in Thread : Standing(u)'
  <2>1. phase' \in [Thread -> Phases] /\ \A u \in Thread \ {t} : phase'[u] = phase[u]
    BY <1>k, <1>t DEF ThreadTypeOK
  <2>2. /\ frames' \in [Thread -> Seq(PieceSet)]
        /\ \A u \in Thread \ {t} : frames'[u] = frames[u]
    BY <1>k, <1>q DEF PiecesTypeOK
  <2>3. frame_id' \in [Thread -> Nat \ {0}] /\ \A u \in Thread \ {t} : frame_id'[u] = frame_id[u]
    BY <1>k, <1>t DEF ThreadTypeOK
  <2>4. use_num' \in [Thread -> Nat \cup {-1}] /\ \A u \in Thread \ {t} : use_num'[u] = use_num[u]
    BY <1>k, <1>t DEF ThreadTypeOK
  <2>5. ThreadTypeOK' /\ PiecesTypeOK'
    BY <1>k, <2>1, <2>2, <2>3, <2>4 DEF ThreadTypeOK, PiecesTypeOK
  <2>6. \A u \in Thread : Standing(u)'
    BY <1>k, <1>s, <2>1, <2>2, <2>3, <2>4, OthersStand
  <2> QED
    BY <1>k, <2>5, <2>6 DEF PoolTypeOK
(* What stays as it is, in that form. *)
<1>u. /\ \E x \in Phases : phase = [phase EXCEPT ![t] = x]
      /\ \E x \in Seq(PieceSet) : frames = [frames EXCEPT ![t] = x]
      /\ \E x \in Nat \ {0} : frame_id = [frame_id EXCEPT ![t] = x]
      /\ \E x \in Nat \cup {-1} : use_num = [use_num EXCEPT ![t] = x]
  <2>1. phase[t] \in Phases /\ phase = [phase EXCEPT ![t] = phase[t]]
    BY <1>t DEF ThreadTypeOK
  <2>2. frames[t] \in Seq(PieceSet) /\ frames = [frames EXCEPT ![t] = frames[t]]
    BY <1>q DEF PiecesTypeOK
  <2>3. frame_id[t] \in Nat \ {0} /\ frame_id = [frame_id EXCEPT ![t] = frame_id[t]]
    BY <1>t DEF ThreadTypeOK
  <2>4. use_num[t] \in Nat \cup {-1} /\ use_num = [use_num EXCEPT ![t] = use_num[t]]
    BY <1>t DEF ThreadTypeOK
  <2> QED
    BY <2>1, <2>2, <2>3, <2>4
<1> HIDE DEF Phases, LockMoves
<1>1. CASE ThreadStart(t)
  <2>1. /\ UNCHANGED <<page, next, debris, debris_mode, lock, frames, frame_id, use_num, handed>>
        /\ phase[t] = "off" /\ phase' = [phase EXCEPT ![t] = "construct"]
    BY <1>1 DEF ThreadStart, pool, caches
  <2>2. phase'[t] = "construct" /\ "construct" \in Phases
    BY <1>t, <2>1 DEF ThreadTypeOK, Phases, Waiting
  <2>3. Standing(t)'
    BY <1>s, <2>1, <2>2 DEF Standing, Waiting, Holding, Filling
  <2>4. LockMoves /\ \E x \in Phases : phase' = [phase EXCEPT ![t] = x]
    BY <2>1, <2>2 DEF LockMoves
  <2> QED
    BY <1>p, <1>m, <1>h, <1>q, <1>u, <1>k, <2>1, <2>3, <2>4
       DEF PageTypeOK, ModeTypeOK, HandedTypeOK, PiecesTypeOK
<1>2. CASE GetNextObject(t)
  <2>0. /\ phase[t] = "run" /\ UNCHANGED <<page, next, debris, debris_mode, lock, phase, frames>>
        /\ \E i, k : /\ (i = frame_id[t] /\ k = use_num[t] + 1) \/ (i = frame_id[t] + 1 /\ k = 0)
                     /\ HasObject(t, i, k) /\ HandOut(t, i, k)
    BY <1>2 DEF GetNextObject, pool
  <2>1. PICK i \in frame_id[t] .. Len(frames[t]), k \in Nat :
          /\ k < frames[t][i].size /\ HandOut(t, i, k)
          /\ i = frame_id[t] => k = use_num[t] + 1
    BY <1>n, <2>0, SMTT(20) DEF HasObject
  <2>2. HandedTypeOK' /\ frame_id'[t] = i /\ use_num'[t] = k
    BY <2>1, HandOutType DEF HandedTypeOK
  <2>3. /\ \E x \in Nat \ {0} : frame_id' = [frame_id EXCEPT ![t] = x]
        /\ \E x \in Nat \cup {-1} : use_num' = [use_num EXCEPT ![t] = x]
    <3>1. frame_id' = [frame_id EXCEPT ![t] = i] /\ use_num' = [use_num EXCEPT ![t] = k]
      BY <2>1 DEF HandOut
    <3>2. i \in Nat \ {0} /\ k \in Nat \cup {-1}
      BY <1>n
    <3> QED
      BY <3>1, <3>2, Zenon
  <2>4. Standing(t)'
    <3>1. phase'[t] = "run" /\ lock' = lock /\ "run" \notin Waiting \cup Filling \cup {"ended"}
      BY <2>0 DEF Waiting, Filling
    <3>2. frame_id'[t] <= Len(frames'[t])
      BY <1>n, <2>0, <2>2
    <3>3. use_num'[t] < frames'[t][frame_id'[t]].size
      BY <2>0, <2>1, <2>2
    <3>4. lock' # t /\ "run" \notin Holding
      BY <1>s, <2>0, <3>1 DEF Standing, Holding, Filling
    <3> QED
      BY <3>1, <3>2, <3>3, <3>4 DEF Standing
  <2>5. LockMoves
    BY <2>0 DEF LockMoves
  <2> QED
    BY <1>p, <1>m, <1>q, <1>u, <1>k, <2>0, <2>2, <2>3, <2>4, <2>5
       DEF PageTypeOK, ModeTypeOK, PiecesTypeOK
<1>3. CASE RunDry(t)
  <2>1. /\ UNCHANGED <<page, next, debris, debris_mode, lock, handed>>
        /\ phase[t] = "run" /\ phase' = [phase EXCEPT ![t] = "refill"]
        /\ frames' = [frames EXCEPT ![t] = <<>>]
        /\ frame_id' = [frame_id EXCEPT ![t] = 1]
        /\ use_num' = [use_num EXCEPT ![t] = -1]
    BY <1>3 DEF RunDry, pool
  <2>2. phase'[t] = "refill" /\ frames'[t] = <<>> /\ frame_id'[t] = 1 /\ use_num'[t] = -1
    BY <1>t, <1>q, <2>1 DEF ThreadTypeOK, PiecesTypeOK
  <2>3. Standing(t)'
    <3>1. "refill" \in Waiting /\ "refill" \notin Holding /\ "run" \notin Holding
      BY DEF Waiting, Holding, Filling
    <3>2. lock' # t
      BY <1>s, <2>1, <3>1 DEF Standing
    <3>3. ~(frame_id'[t] <= Len(frames'[t]))
      BY <1>e, <2>2
    <3> QED
      BY <2>2, <3>1, <3>2, <3>3 DEF Standing
  <2>4. /\ LockMoves
        /\ \E x \in Phases : phase' = [phase EXCEPT ![t] = x]
        /\ \E x \in Seq(PieceSet) : frames' = [frames EXCEPT ![t] = x]
        /\ \E x \in Nat \ {0} : frame_id' = [frame_id EXCEPT ![t] = x]
        /\ \E x \in Nat \cup {-1} : use_num' = [use_num EXCEPT ![t] = x]
    <3>1. LockMoves /\ "refill" \in Phases
      BY <2>1 DEF LockMoves, Phases, Waiting
    <3>2. 1 \in Nat \ {0} /\ -1 \in Nat \cup {-1}
      OBVIOUS
    <3> QED
      BY <1>e, <2>1, <3>1, <3>2, Zenon
  <2> QED
    BY <1>p, <1>m, <1>h, <1>q, <1>k, <2>1, <2>3, <2>4
       DEF PageTypeOK, ModeTypeOK, HandedTypeOK, PiecesTypeOK
<1>4. CASE Lock(t)
  <2>1. /\ UNCHANGED <<page, next, debris, debris_mode, frames, frame_id, use_num, handed>>
        /\ lock = NoThread /\ lock' = t
        /\ \/ /\ phase[t] \in {"construct", "refill"}
              /\ \E x \in Filling : phase' = [phase EXCEPT ![t] = x]
           \/ phase[t] = "run" /\ phase' = [phase EXCEPT ![t] = "return"]
    <3>1. /\ phase[t] \in {"construct", "refill", "run"}
          /\ phase' = [phase EXCEPT ![t] = AfterLock[phase[t]]]
      BY <1>4 DEF Lock, AfterLock
    <3>2. /\ AfterLock["construct"] = "construct locked" /\ AfterLock["refill"] = "refill locked"
          /\ AfterLock["run"] = "return"
      BY DEF AfterLock
    <3>3. UNCHANGED <<page, next, debris, debris_mode, frames, frame_id, use_num, handed>>
          /\ lock = NoThread /\ lock' = t
      BY <1>4 DEF Lock, pool, caches
    <3> QED
      BY <3>1, <3>2, <3>3 DEF Filling
  <2>2. PICK x \in Holding : /\ phase' = [phase EXCEPT ![t] = x]
                             /\ x \in Filling => phase[t] \in Waiting
    BY <2>1 DEF Holding, Filling, Waiting
  <2>3. phase'[t] = x /\ x \in Phases
    BY <1>t, <2>2 DEF ThreadTypeOK, Phases
  <2>4. Standing(t)'
    BY <1>s, <2>1, <2>2, <2>3 DEF Standing, Waiting, Holding, Filling
  <2>5. ModeTypeOK' /\ LockMoves
    BY <1>m, <2>1 DEF ModeTypeOK, LockMoves
  <2> QED
    BY <1>p, <1>h, <1>q, <1>u, <1>k, <2>1, <2>2, <2>3, <2>4, <2>5
       DEF PageTypeOK, HandedTypeOK, PiecesTypeOK
<1>5. CASE Carve(t)
  <2> DEFINE p == Piece(page * PageSize + next, MinNum)
  <2>1. /\ UNCHANGED <<page, debris, debris_mode, lock, phase, frame_id, use_num, handed>>
        /\ frames' = [frames EXCEPT ![t] = <<p>>]
        /\ PageSize - next >= MinNum /\ next' = next + MinNum
        /\ phase[t] \in Filling
    BY <1>5 DEF Carve, Room, MoveOn, Refilling, Filling
  <2>2. p \in PieceSet /\ p.size > 0
    BY <1>p, Positive, BegunObjects DEF PageTypeOK, Piece, PieceSet
  <2>3. PageTypeOK'
    BY <1>p, <2>1, Positive DEF PageTypeOK
  <2> HIDE DEF p
  <2>4. <<p>> \in Seq(PieceSet) /\ Len(<<p>>) = 1 /\ <<p>>[1] = p
    BY <2>2
  <2>5. frames'[t] = <<p>>
    BY <1>q, <2>1 DEF PiecesTypeOK
  <2>6. Standing(t)'
    <3>1. /\ phase'[t] \in Filling /\ lock' = lock /\ phase'[t] = phase[t]
          /\ phase'[t] \notin Waiting \cup {"ended", "run"}
      BY <2>1 DEF Filling, Waiting
    <3>2. frame_id[t] = 1 /\ use_num[t] = -1
      BY <1>s, <2>1 DEF Standing
    <3>3. frame_id'[t] = 1 /\ use_num'[t] = -1
      BY <2>1, <3>2
    <3>4. use_num'[t] < frames'[t][frame_id'[t]].size
      <4>1. p.size \in Nat
        BY <2>2 DEF PieceSet
      <4>2. frames'[t][frame_id'[t]] = p
        BY <2>4, <2>5, <3>3
      <4> QED
        BY <2>2, <3>3, <4>1, <4>2
    <3>5. phase'[t] \in Holding <=> lock' = t
      BY <1>s, <3>1 DEF Standing
    <3> QED
      BY <3>1, <3>3, <3>4, <3>5 DEF Standing
  <2>7. LockMoves /\ \E x \in Seq(PieceSet) : frames' = [frames EXCEPT ![t] = x]
    BY <2>1, <2>4 DEF LockMoves
  <2> QED
    BY <1>m, <1>h, <1>q, <1>u, <1>k, <2>1, <2>3, <2>6, <2>7
       DEF ModeTypeOK, HandedTypeOK, PiecesTypeOK
<1>6. CASE EnterDebrisMode(t)
  <2> DEFINE p == Piece(page * PageSize + next, Room)
  <2>1. /\ UNCHANGED <<page, next, lock, phase, frames, frame_id, use_num, handed>>
        /\ debris_mode' = TRUE /\ AddDebris(p)
    BY <1>6 DEF EnterDebrisMode, caches
  <2>2. p.start \in Nat /\ p.size \in Nat /\ p = [start |-> p.start, size |-> p.size]
    BY <1>p, Positive, BegunObjects DEF PageTypeOK, Piece, Room
  <2> HIDE DEF p
  <2>3. debris' \in Seq(PieceSet)
    BY <2>1, <2>2, DebrisAdded DEF IInv
  <2>4. Standing(t)' /\ LockMoves
    BY <1>s, <2>1 DEF Standing, LockMoves
  <2>5. ModeTypeOK'
    BY <1>m, <2>1 DEF ModeTypeOK
  <2> QED
    BY <1>p, <1>h, <1>u, <1>k, <2>1, <2>3, <2>4, <2>5 DEF PageTypeOK, HandedTypeOK
<1>7. CASE TakeDebris(t)
  <2>1. /\ UNCHANGED <<page, next, debris_mode, lock, phase, frame_id, use_num, handed>>
        /\ phase[t] \in Filling /\ debris # <<>>
        /\ debris' = Front(debris)
        /\ frames' = [frames EXCEPT ![t] = Append(frames[t], Last(debris))]
    BY <1>7 DEF TakeDebris, Refilling, Filling
  <2>2. Front(debris) \in Seq(PieceSet) /\ Last(debris) \in PieceSet
    BY <1>q, <2>1, FrontFacts, SeqFacts DEF PiecesTypeOK
  <2>3. /\ Append(frames[t], Last(debris)) \in Seq(PieceSet)
        /\ frames'[t] = Append(frames[t], Last(debris))
    BY <1>q, <1>n, <2>1, <2>2, AppendFacts DEF PiecesTypeOK
  <2>4. \A i \in 1 .. Len(frames'[t]) : frames'[t][i].size > 0
    BY <2>3, SeqFacts DEF PieceSet
  <2>5. Len(frames'[t]) \in Nat
    BY <2>3, SeqFacts
  <2>6. Standing(t)'
    <3>1. /\ phase'[t] \in Filling /\ lock' = lock /\ phase'[t] = phase[t]
          /\ phase'[t] \notin Waiting \cup {"ended", "run"}
      BY <2>1 DEF Filling, Waiting
    <3>2. frame_id[t] = 1 /\ use_num[t] = -1
      BY <1>s, <2>1 DEF Standing
    <3>3. frame_id'[t] = 1 /\ use_num'[t] = -1
      BY <2>1, <3>2
    <3>4. frame_id'[t] <= Len(frames'[t]) => use_num'[t] < frames'[t][frame_id'[t]].size
      <4>1. 1 <= Len(frames'[t]) => frames'[t][1].size \in Nat /\ frames'[t][1].size > 0
        BY <2>3, <2>5, SeqFacts DEF PieceSet
      <4> QED
        BY <3>3, <4>1
    <3>5. phase'[t] \in Holding <=> lock' = t
      BY <1>s, <3>1 DEF Standing
    <3> QED
      BY <3>1, <3>3, <3>4, <3>5 DEF Standing
  <2>7. LockMoves /\ \E x \in Seq(PieceSet) : frames' = [frames EXCEPT ![t] = x]
    BY <2>1, <2>3 DEF LockMoves
  <2> QED
    BY <1>p, <1>m, <1>h, <1>u, <1>k, <2>1, <2>2, <2>6, <2>7
       DEF PageTypeOK, ModeTypeOK, HandedTypeOK
<1>8. CASE NewPage(t)
  <2>1. /\ UNCHANGED <<debris, lock, phase, frames, frame_id, use_num, handed>>
        /\ page + 1 < PageNum /\ page' = page + 1 /\ next' = 0
    BY <1>8 DEF NewPage, caches
  <2>2. PageTypeOK'
    BY <1>p, <2>1, Positive DEF PageTypeOK
  <2>3. ModeTypeOK'
    BY <1>m, <1>8 DEF NewPage, ModeTypeOK
  <2>4. Standing(t)' /\ LockMoves
    BY <1>s, <2>1 DEF Standing, LockMoves
  <2> QED
    BY <1>h, <1>q, <1>u, <1>k, <2>1, <2>2, <2>3, <2>4 DEF HandedTypeOK, PiecesTypeOK
<1>9. CASE FullError(t)
  <2>1. UNCHANGED <<page, next, debris, debris_mode, lock, phase, frames, frame_id, use_num, handed>>
    BY <1>9 DEF FullError, pool, caches
  <2>2. Standing(t)' /\ LockMoves
    BY <1>s, <2>1 DEF Standing, LockMoves
  <2> QED
    BY <1>p, <1>m, <1>h, <1>q, <1>u, <1>k, <2>1, <2>2
       DEF PageTypeOK, ModeTypeOK, HandedTypeOK, PiecesTypeOK
<1>10. CASE Unlock(t)
  <2>1. /\ UNCHANGED <<page, next, debris, debris_mode, frames>>
        /\ lock' = NoThread /\ phase' = [phase EXCEPT ![t] = "run"]
        /\ phase[t] \in Filling /\ frames[t] # <<>>
        /\ HandOut(t, 1, 0) \/ UNCHANGED <<frame_id, use_num, handed>>
    BY <1>10 DEF Unlock, pool, Refilling, Filling, Filled
  <2>2. frame_id[t] = 1 /\ use_num[t] = -1 /\ lock = t
    BY <1>s, <2>1 DEF Standing, Holding
  <2>3. 1 \in frame_id[t] .. Len(frames[t]) /\ frames[t][1].size > 0
    BY <1>n, <2>1, <2>2, EmptySeq
  <2>4. /\ HandedTypeOK' /\ frame_id'[t] = 1 /\ use_num'[t] \in {-1, 0}
        /\ \E x \in Nat \ {0} : frame_id' = [frame_id EXCEPT ![t] = x]
        /\ \E x \in Nat \cup {-1} : use_num' = [use_num EXCEPT ![t] = x]
    <3>1. CASE HandOut(t, 1, 0)
      <4>1. HandedTypeOK' /\ frame_id'[t] = 1 /\ use_num'[t] = 0
        BY <2>2, <2>3, <3>1, HandOutType DEF HandedTypeOK
      <4>2. frame_id' = [frame_id EXCEPT ![t] = 1] /\ use_num' = [use_num EXCEPT ![t] = 0]
        BY <3>1 DEF HandOut
      <4>3. 1 \in Nat \ {0} /\ 0 \in Nat \cup {-1}
        OBVIOUS
      <4> QED
        BY <4>1, <4>2, <4>3, Zenon
    <3>2. CASE UNCHANGED <<frame_id, use_num, handed>>
      BY <1>h, <1>u, <2>2, <3>2 DEF HandedTypeOK
    <3> QED
      BY <2>1, <3>1, <3>2
  <2>5. phase'[t] = "run" /\ "run" \in Phases
    BY <1>t, <2>1 DEF ThreadTypeOK, Phases
  <2>6. Standing(t)'
    <3>1. /\ "run" \notin Waiting \cup Filling \cup {"ended"} /\ "run" \notin Holding
          /\ lock' # t
      BY <2>1, Names DEF Waiting, Holding, Filling
    <3>2. frame_id'[t] <= Len(frames'[t])
      BY <1>n, <2>1, <2>2, <2>3, <2>4
    <3>3. use_num'[t] < frames'[t][frame_id'[t]].size
      <4>1. frames[t][1].size \in Nat
        BY <1>n, <2>2, <2>3, SeqFacts DEF PieceSet
      <4> QED
        BY <2>1, <2>3, <2>4, <4>1
    <3> QED
      BY <2>5, <3>1, <3>2, <3>3 DEF Standing
  <2>7. ModeTypeOK' /\ LockMoves
    BY <1>m, <2>1, <2>2 DEF ModeTypeOK, LockMoves
  <2> QED
    BY <1>p, <1>q, <1>u, <1>k, <2>1, <2>4, <2>5, <2>6, <2>7 DEF PageTypeOK, PiecesTypeOK
<1>11. CASE FreeUnuseObject(t)
  <2> DEFINE p == Left(t, frame_id[t])
  <2>1. /\ UNCHANGED <<page, next, debris_mode, lock, phase, frames, handed>>
        /\ phase[t] = "return" /\ frame_id[t] <= Len(frames[t]) /\ AddDebris(p)
        /\ frame_id' = [frame_id EXCEPT ![t] = frame_id[t] + 1]
        /\ use_num' = [use_num EXCEPT ![t] = -1]
    BY <1>11 DEF FreeUnuseObject, GivenBack
  <2>2. p.start \in Nat /\ p.size \in Nat /\ p = [start |-> p.start, size |-> p.size]
    BY <1>n, <1>s, <2>1, LeftFacts DEF IInv
  <2> HIDE DEF p
  <2>3. debris' \in Seq(PieceSet)
    BY <2>1, <2>2, DebrisAdded DEF IInv
  <2>4. frame_id'[t] = frame_id[t] + 1 /\ use_num'[t] = -1
    BY <1>t, <2>1 DEF ThreadTypeOK
  <2>5. Standing(t)'
    <3>1. /\ phase'[t] = "return" /\ lock' = lock
          /\ "return" \notin Waiting \cup Filling \cup {"ended", "run"}
      BY <2>1 DEF Waiting, Filling
    <3>2. phase'[t] \in Holding <=> lock' = t
      BY <1>s, <2>1 DEF Standing
    <3>3. frame_id'[t] <= Len(frames'[t]) => use_num'[t] < frames'[t][frame_id'[t]].size
      <4>1. frame_id[t] + 1 <= Len(frames[t])
              => /\ frames[t][frame_id[t] + 1].size \in Nat
                 /\ frames[t][frame_id[t] + 1].size > 0
        BY <1>n, SeqFacts, SMTT(20) DEF PieceSet
      <4> QED
        BY <2>1, <2>4, <4>1
    <3> QED
      BY <3>1, <3>2, <3>3 DEF Standing
  <2>6. /\ LockMoves
        /\ \E x \in Nat \ {0} : frame_id' = [frame_id EXCEPT ![t] = x]
        /\ \E x \in Nat \cup {-1} : use_num' = [use_num EXCEPT ![t] = x]
    <3>1. LockMoves
      BY <2>1 DEF LockMoves
    <3>2. frame_id[t] + 1 \in Nat \ {0} /\ -1 \in Nat \cup {-1}
      BY <1>n
    <3> QED
      BY <2>1, <3>1, <3>2, Zenon
  <2> QED
    BY <1>p, <1>m, <1>h, <1>u, <1>k, <2>1, <2>3, <2>5, <2>6
       DEF PageTypeOK, ModeTypeOK, HandedTypeOK
<1>12. CASE ThreadEnd(t)
  <2>1. /\ UNCHANGED <<page, next, debris, debris_mode, frame_id, use_num, handed>>
        /\ lock' = NoThread /\ phase[t] = "return" /\ phase' = [phase EXCEPT ![t] = "ended"]
        /\ frames' = [frames EXCEPT ![t] = <<>>]
    BY <1>12 DEF ThreadEnd, pool
  <2>2. phase'[t] = "ended" /\ frames'[t] = <<>> /\ "ended" \in Phases
    BY <1>t, <1>q, <2>1 DEF ThreadTypeOK, PiecesTypeOK, Phases
  <2>3. Standing(t)'
    <3>1. "ended" \notin Waiting \cup Filling \cup {"run"} /\ "ended" \notin Holding /\ lock' # t
      BY <2>1, Names DEF Waiting, Holding, Filling
    <3>2. frame_id'[t] = frame_id[t]
      BY <2>1
    <3>3. ~(frame_id'[t] <= Len(frames'[t]))
      BY <1>n, <1>e, <2>2, <3>2
    <3> QED
      BY <2>2, <3>1, <3>3 DEF Standing
  <2>4. ModeTypeOK' /\ LockMoves
    BY <1>m, <1>s, <2>1 DEF ModeTypeOK, LockMoves, Standing, Holding
  <2> QED
    BY <1>p, <1>h, <1>q, <1>e, <1>u, <1>k, <2>1, <2>2, <2>3, <2>4
       DEF PageTypeOK, HandedTypeOK, PiecesTypeOK
<1> QED
  BY <1>1, <1>2, <1>3, <1>4, <1>5, <1>6, <1>7, <1>8, <1>9, <1>10, <1>11, <1>12 DEF Step

-----------------------------------------------------------------------------
(* Where the pieces go.                                                    *)

(* A step changes the entries of the thread that takes it.                 *)
LEMMA OwnEntries ==
  ASSUME IInv, NEW t \in Thread, Step(t), NEW u \in Thread \ {t}
  PROVE  /\ frames'[u] = frames[u] /\ frame_id'[u] = frame_id[u] /\ use_num'[u] = use_num[u]
         /\ \A i : Left(u, i)' = Left(u, i)
<1>1. DOMAIN frames = Thread /\ DOMAIN frame_id = Thread /\ DOMAIN use_num = Thread
  BY DEF IInv, PoolTypeOK, PiecesTypeOK, ThreadTypeOK
<1>2. frames' = frames \/ \E x : frames' = [frames EXCEPT ![t] = x]
  BY DEF Step, ThreadStart, GetNextObject, RunDry, Lock, Carve, EnterDebrisMode, TakeDebris,
         NewPage, FullError, Unlock, FreeUnuseObject, ThreadEnd, caches
<1>3. frame_id' = frame_id \/ \E x : frame_id' = [frame_id EXCEPT ![t] = x]
  BY DEF Step, ThreadStart, GetNextObject, RunDry, Lock, Carve, EnterDebrisMode, TakeDebris,
         NewPage, FullError, Unlock, FreeUnuseObject, ThreadEnd, caches, HandOut
<1>4. use_num' = use_num \/ \E x : use_num' = [use_num EXCEPT ![t] = x]
  BY DEF Step, ThreadStart, GetNextObject, RunDry, Lock, Carve, EnterDebrisMode, TakeDebris,
         NewPage, FullError, Unlock, FreeUnuseObject, ThreadEnd, caches, HandOut
<1>5. frames'[u] = frames[u] /\ frame_id'[u] = frame_id[u] /\ use_num'[u] = use_num[u]
  BY <1>1, <1>2, <1>3, <1>4
<1> QED
  BY <1>5 DEF Left

LEMMA PlaceCases ==
  /\ \A p \in Places :
       \/ p = <<NoThread, 1>> /\ ~debris_mode
       \/ \E i \in DOMAIN debris : p = <<"debris", i>>
       \/ \E u \in Thread : \E i \in frame_id[u] .. Len(frames[u]) : p = <<u, i>>
  /\ \A p \in Places' :
       \/ p = <<NoThread, 1>> /\ ~debris_mode'
       \/ \E i \in DOMAIN debris' : p = <<"debris", i>>
       \/ \E u \in Thread : \E i \in frame_id'[u] .. Len(frames'[u]) : p = <<u, i>>
  /\ ~debris_mode => <<NoThread, 1>> \in Places
  /\ \A i \in DOMAIN debris : <<"debris", i>> \in Places
  /\ \A u \in Thread : \A i \in frame_id[u] .. Len(frames[u]) : <<u, i>> \in Places
BY WhatPlaces

(* The places of the other threads.                                        *)
LEMMA OthersPlaces ==
  ASSUME IInv, NEW t \in Thread, Step(t), NEW u \in Thread \ {t},
         NEW i \in frame_id'[u] .. Len(frames'[u])
  PROVE  <<u, i>> \in Places /\ Held(<<u, i>>)' = Held(<<u, i>>)
BY OwnEntries, PlaceCases, WhatHeld

(* The page and the debris as they were, the thread's pieces shrink.       *)
LEMMA PiecesShrink ==
  ASSUME IInv, NEW t \in Thread, Step(t),
         UNCHANGED <<page, next, debris, debris_mode>>,
         \A i \in frame_id'[t] .. Len(frames'[t]) :
            /\ i \in frame_id[t] .. Len(frames[t])
            /\ Objects(Left(t, i)') \subseteq Objects(Left(t, i))
  PROVE  \A p \in Places' : p \in Places /\ Held(p)' \subseteq Held(p)
<1>1. ASSUME NEW p \in Places' PROVE p \in Places /\ Held(p)' \subseteq Held(p)
  <2>1. CASE p = <<NoThread, 1>> /\ ~debris_mode'
    <3>1. ~debris_mode
      BY <2>1
    <3>2. Room' = Room /\ page' = page /\ next' = next
      BY DEF Room
    <3> QED
      BY <2>1, <3>1, <3>2, PlaceCases, WhatHeld
  <2>2. CASE \E i \in DOMAIN debris' : p = <<"debris", i>>
    BY <2>2, PlaceCases, WhatHeld
  <2>3. CASE \E u \in Thread : \E i \in frame_id'[u] .. Len(frames'[u]) : p = <<u, i>>
    <3>1. PICK u \in Thread : \E i \in frame_id'[u] .. Len(frames'[u]) : p = <<u, i>>
      BY <2>3
    <3>2. PICK i \in frame_id'[u] .. Len(frames'[u]) : p = <<u, i>>
      BY <3>1
    <3>3. CASE u = t
      BY <3>2, <3>3, PlaceCases, WhatHeld
    <3>4. CASE u # t
      BY <3>2, <3>4, OthersPlaces
    <3> QED
      BY <3>3, <3>4
  <2> QED
    BY <2>1, <2>2, <2>3, PlaceCases
<1> QED
  BY <1>1

LEMMA PiecesStay ==
  ASSUME PiecesDisjoint, PiecesBegun,
         \A p \in Places' : p \in Places /\ Held(p)' \subseteq Held(p),
         \A p \in Places' : \A o \in Held(p)' : handed'[o] = handed[o]
  PROVE  PiecesDisjoint' /\ \A p \in Places' : Held(p)' \subseteq Begun
<1> DEFINE m == [p \in Places' |-> p]
<1>1. m \in [Places' -> Places] /\ \A p \in Places' : m[p] = p
  OBVIOUS
<1> HIDE DEF m
<1>2. \A p \in Places' : Held(p)' \subseteq Held(m[p])
  BY <1>1
<1>3. \A p, q \in Places' : p # q => m[p] # m[q] \/ Held(p)' \cap Held(q)' = {}
  BY <1>1
<1> QED
  BY <1>1, <1>2, <1>3, PiecesMove

LEMMA ObjectsOf ==
  ASSUME NEW a \in Int, NEW n \in Int
  PROVE  Objects(Piece(a, n)) = a .. a + n - 1
BY DEF Objects, Piece

(* What is left of a piece when its object k, and those before, are used.   *)
LEMMA RestOfPiece ==
  ASSUME NEW f \in PieceSet, NEW k \in Nat, k < f.size
  PROVE  /\ Objects(Piece(f.start + k + 1, f.size - k - 1)) \subseteq Objects(f)
         /\ \A n \in Int : n >= -1 /\ k = n + 1 =>
              Objects(Piece(f.start + k + 1, f.size - k - 1))
                \subseteq Objects(Piece(f.start + n + 1, f.size - n - 1))
         /\ f.start + k \notin Objects(Piece(f.start + k + 1, f.size - k - 1))
<1> DEFINE a == f.start
           b == f.size
<1>1. a \in Int /\ b \in Int /\ k \in Int /\ Objects(f) = a .. a + b - 1
  BY DEF PieceSet, Objects
<1> HIDE DEF a, b
<1>2. Objects(Piece(a + k + 1, b - k - 1)) = (a + k + 1) .. (a + k + 1) + (b - k - 1) - 1
  BY <1>1, ObjectsOf
<1>3. ASSUME NEW n \in Int, n >= -1, k = n + 1
      PROVE  Objects(Piece(a + k + 1, b - k - 1)) \subseteq Objects(Piece(a + n + 1, b - n - 1))
  <2>1. Objects(Piece(a + n + 1, b - n - 1)) = (a + n + 1) .. (a + n + 1) + (b - n - 1) - 1
    BY <1>1, ObjectsOf
  <2> QED
    BY <1>1, <1>2, <1>3, <2>1
<1>4. /\ Objects(Piece(a + k + 1, b - k - 1)) \subseteq a .. a + b - 1
      /\ a + k \notin Objects(Piece(a + k + 1, b - k - 1))
  BY <1>1, <1>2
<1> QED
  BY <1>1, <1>3, <1>4 DEF a, b

(* Handing out an object takes it from the piece of the thread.            *)
LEMMA HandOutShrinks ==
  ASSUME IInv, NEW t \in Thread, Step(t), NEW i \in frame_id[t] .. Len(frames[t]),
         NEW k \in Nat, k < frames[t][i].size,
         i = frame_id[t] => k = use_num[t] + 1, HandOut(t, i, k),
         UNCHANGED <<page, next, debris, debris_mode, frames>>
  PROVE  /\ PiecesDisjoint' /\ PiecesBegun'
         /\ frames[t][i].start + k \in Object /\ handed[frames[t][i].start + k] = 0
<1> DEFINE x == frames[t][i].start + k
<1>1. x \in Held(<<t, i>>) /\ <<t, i>> \in Places /\ x \in Object
  BY HandOutObject
<1>2. /\ frame_id'[t] = i /\ use_num'[t] = k
      /\ \A o \in Object : o # x => handed'[o] = handed[o]
  BY HandOutType
<1>3. /\ Standing(t) /\ PoolTypeOK /\ PiecesDisjoint /\ PiecesBegun
      /\ Begun \subseteq Object
  BY BegunObjects DEF IInv, PoolTypeOK, PageTypeOK
<1>4. /\ Len(frames[t]) \in Nat /\ frame_id[t] \in Nat
      /\ frame_id[t] >= 1 /\ use_num[t] \in Int /\ use_num[t] >= -1
      /\ \A j \in frame_id[t] .. Len(frames[t]) :
            /\ frames[t][j] \in PieceSet
            /\ j # frame_id[t] => Left(t, j) = frames[t][j]
  BY <1>3, LeftFacts
<1>5. ASSUME NEW j \in frame_id'[t] .. Len(frames'[t])
      PROVE  /\ j \in frame_id[t] .. Len(frames[t])
             /\ Objects(Left(t, j)') \subseteq Objects(Left(t, j))
             /\ j = i => x \notin Objects(Left(t, j)')
  <2>1. frames'[t] = frames[t] /\ j \in i .. Len(frames[t])
    BY <1>2, <1>5
  <2>2. j \in frame_id[t] .. Len(frames[t])
    BY <1>4, <2>1
  <2>3. CASE j # i
    <3>1. Left(t, j)' = frames[t][j] /\ Left(t, j) = frames[t][j]
      BY <1>2, <1>4, <2>1, <2>2, <2>3 DEF Left
    <3> QED
      BY <2>2, <2>3, <3>1
  <2>4. CASE j = i
    <3> DEFINE f == frames[t][i]
    <3>2. Left(t, j)' = Piece(f.start + k + 1, f.size - k - 1)
      BY <1>2, <2>1, <2>4 DEF Left
    <3>3. \/ i # frame_id[t] /\ Left(t, j) = f
          \/ /\ i = frame_id[t] /\ k = use_num[t] + 1
             /\ Left(t, j) = Piece(f.start + use_num[t] + 1, f.size - use_num[t] - 1)
      BY <1>4, <2>4 DEF Left
    <3>4. f \in PieceSet /\ k < f.size
      BY <1>4
    <3>5. f.start + k \notin Objects(Left(t, j)')
      BY <3>2, <3>4, RestOfPiece
    <3>6. Objects(Left(t, j)') \subseteq Objects(Left(t, j))
      BY <1>4, <3>2, <3>3, <3>4, RestOfPiece
    <3> QED
      BY <2>2, <3>5, <3>6
  <2> QED
    BY <2>3, <2>4
<1> HIDE DEF x
<1>6. \A p \in Places' : p \in Places /\ Held(p)' \subseteq Held(p)
  BY <1>5, PiecesShrink
<1>7. ASSUME NEW p \in Places' PROVE x \notin Held(p)'
  <2>1. CASE p = <<t, i>>
    <3>1. Held(p)' = Objects(Left(t, i)')
      BY <2>1, WhatHeld
    <3>2. frames'[t] = frames[t] /\ i \in frame_id'[t] .. Len(frames'[t])
      BY <1>2, <1>4
    <3> QED
      BY <1>5, <3>1, <3>2
  <2>2. CASE p # <<t, i>>
    <3>1. p \in Places /\ Held(p)' \subseteq Held(p)
      BY <1>6
    <3>2. Held(p) \cap Held(<<t, i>>) = {}
      BY <1>1, <1>3, <2>2, <3>1 DEF PiecesDisjoint
    <3> QED
      BY <1>1, <3>1, <3>2
  <2> QED
    BY <2>1, <2>2
<1>8. \A p \in Places' : \A o \in Held(p)' : o \in Begun
  BY <1>3, <1>6 DEF PiecesBegun
<1>9. \A p \in Places' : \A o \in Held(p)' : handed'[o] = handed[o]
  BY <1>2, <1>3, <1>7, <1>8
<1>10. PiecesDisjoint' /\ \A p \in Places' : Held(p)' \subseteq Begun
  BY <1>3, <1>6, <1>9, PiecesStay
<1>11. Begun' = Begun
  BY DEF Begun
<1>12. x \in Begun
  BY <1>1, <1>3 DEF PiecesBegun
<1>13. \A o \in Object : handed'[o] # 0 => o \in Begun
  BY <1>2, <1>3, <1>12 DEF PiecesBegun
<1>14. handed[x] = 0
  BY <1>1, <1>3 DEF PiecesDisjoint
<1> QED
  BY <1>1, <1>10, <1>11, <1>13, <1>14 DEF PiecesBegun, x

(* A step that leaves the page, the debris and what was handed out alone,  *)
(* and the thread's frames too or empties them.                            *)
LEMMA QuietStep ==
  ASSUME IInv, NEW t \in Thread, Step(t),
         UNCHANGED <<page, next, debris, debris_mode, handed>>,
         frames'[t] = <<>> \/ UNCHANGED <<frames, frame_id, use_num>>
  PROVE  PiecesDisjoint' /\ PiecesBegun'
<1>1. ASSUME NEW i \in frame_id'[t] .. Len(frames'[t])
      PROVE  /\ i \in frame_id[t] .. Len(frames[t])
             /\ Objects(Left(t, i)') \subseteq Objects(Left(t, i))
  <2>1. CASE frames'[t] = <<>>
    <3>1. Len(frames'[t]) = 0
      BY <2>1, EmptySeq
    <3>2. frame_id'[t] \in Nat \ {0}
      BY TypeKept DEF PoolTypeOK, ThreadTypeOK
    <3> QED
      BY <1>1, <3>1, <3>2
  <2>2. CASE UNCHANGED <<frames, frame_id, use_num>>
    <3>1. Left(t, i)' = Left(t, i)
      BY <2>2 DEF Left
    <3> QED
      BY <1>1, <2>2, <3>1
  <2> QED
    BY <2>1, <2>2
<1>2. \A p \in Places' : p \in Places /\ Held(p)' \subseteq Held(p)
  BY <1>1, PiecesShrink
<1>3. PiecesDisjoint' /\ \A p \in Places' : Held(p)' \subseteq Begun
  BY <1>2, PiecesStay DEF IInv
<1>4. Begun' = Begun
  BY DEF Begun
<1> QED
  BY <1>3, <1>4 DEF IInv, PiecesBegun

(* Pieces that move, with what was handed out and the begun pages as they  *)
(* were.                                                                   *)
LEMMA MoveStep ==
  ASSUME IInv, UNCHANGED <<page, handed>>, NEW m \in [Places' -> Places],
         \A p \in Places' : Held(p)' \subseteq Held(m[p]),
         \A p, q \in Places' : p # q => m[p] # m[q] \/ Held(p)' \cap Held(q)' = {}
  PROVE  PiecesDisjoint' /\ PiecesBegun'
<1>1. Begun' = Begun
  BY DEF Begun
<1>2. PiecesDisjoint' /\ \A p \in Places' : Held(p)' \subseteq Begun
  BY PiecesMove DEF IInv
<1> QED
  BY <1>1, <1>2 DEF IInv, PiecesBegun

LEMMA DebrisModePieces ==
  ASSUME IInv, NEW t \in Thread, EnterDebrisMode(t)
  PROVE  PiecesDisjoint' /\ PiecesBegun'
<1> DEFINE e == Piece(page * PageSize + next, Room)
           d == <<"debris", Len(debris) + 1>>
           m == [p \in Places' |-> IF p = d THEN <<NoThread, 1>> ELSE p]
<1>1. /\ UNCHANGED <<page, next, frames, frame_id, use_num, handed>>
      /\ debris_mode' = TRUE /\ ~debris_mode /\ AddDebris(e) /\ Step(t)
  BY DEF EnterDebrisMode, caches, Step
<1>2. e.start \in Nat /\ e.size \in Nat /\ e = [start |-> e.start, size |-> e.size]
  BY Positive, BegunObjects DEF IInv, PoolTypeOK, PageTypeOK, Piece, Room
<1>3. /\ Len(debris) \in Nat /\ DOMAIN debris = 1 .. Len(debris)
      /\ \/ debris' = debris
         \/ /\ DOMAIN debris' = 1 .. Len(debris) + 1
            /\ \A i \in 1 .. Len(debris) : debris'[i] = debris[i]
            /\ debris'[Len(debris) + 1] = e
  <2> HIDE DEF e
  <2> QED
    BY <1>1, <1>2, DebrisAdded DEF IInv
<1>4. <<NoThread, 1>> \in Places /\ Held(<<NoThread, 1>>) = Objects(e)
  BY <1>1, PlaceCases, WhatHeld
<1> HIDE DEF e
<1>5. ASSUME NEW p \in Places'
      PROVE  /\ p # <<NoThread, 1>>
             /\ m[p] \in Places /\ Held(p)' \subseteq Held(m[p])
  <2>1. CASE \E i \in DOMAIN debris' : p = <<"debris", i>>
    <3>1. PICK i \in DOMAIN debris' : p = <<"debris", i>>
      BY <2>1
    <3>2. CASE i \in DOMAIN debris
      <4>1. p # d /\ m[p] = p
        BY <1>3, <3>1, <3>2
      <4>2. debris'[i] = debris[i]
        BY <1>3, <3>2
      <4> QED
        BY <3>1, <3>2, <4>1, <4>2, PlaceCases, WhatHeld, Names
    <3>3. CASE i \notin DOMAIN debris
      <4>1. i = Len(debris) + 1 /\ debris'[i] = e
        BY <1>3, <3>1, <3>3
      <4>2. m[p] = <<NoThread, 1>>
        BY <3>1, <4>1
      <4> QED
        BY <1>4, <3>1, <4>1, <4>2, WhatHeld, Names
    <3> QED
      BY <3>2, <3>3
  <2>2. CASE \E u \in Thread : \E i \in frame_id'[u] .. Len(frames'[u]) : p = <<u, i>>
    <3>1. PICK u \in Thread : \E i \in frame_id'[u] .. Len(frames'[u]) : p = <<u, i>>
      BY <2>2
    <3>2. PICK i \in frame_id'[u] .. Len(frames'[u]) : p = <<u, i>>
      BY <3>1
    <3>3. m[p] = p /\ p # <<NoThread, 1>>
      BY <3>2, Names
    <3>4. p \in Places
      BY <1>1, <3>2, PlaceCases
    <3>5. Held(p)' = Held(p)
      <4>1. Left(u, i)' = Left(u, i)
        BY <1>1 DEF Left
      <4> QED
        BY <3>2, <4>1, WhatHeld
    <3> QED
      BY <3>3, <3>4, <3>5
  <2> QED
    BY <1>1, <2>1, <2>2, PlaceCases
<1>6. m \in [Places' -> Places] /\ \A p \in Places' : Held(p)' \subseteq Held(m[p])
  BY <1>5
<1>7. \A p, q \in Places' : p # q => m[p] # m[q]
  BY <1>5
<1> HIDE DEF m
<1> QED
  BY <1>1, <1>6, <1>7, MoveStep

LEMMA TakeDebrisPieces ==
  ASSUME IInv, NEW t \in Thread, TakeDebris(t)
  PROVE  PiecesDisjoint' /\ PiecesBegun'
<1> DEFINE f == <<t, Len(frames[t]) + 1>>
           l == <<"debris", Len(debris)>>
           m == [p \in Places' |-> IF p = f THEN l ELSE p]
<1>1. /\ UNCHANGED <<page, next, debris_mode, frame_id, use_num, handed>> /\ Step(t)
      /\ debris # <<>> /\ debris' = Front(debris)
      /\ frames' = [frames EXCEPT ![t] = Append(frames[t], Last(debris))]
      /\ phase[t] \in Filling
  BY DEF TakeDebris, Step, Refilling, Filling
<1>2. /\ debris \in Seq(PieceSet) /\ frames[t] \in Seq(PieceSet)
      /\ frames'[t] = Append(frames[t], Last(debris))
  BY <1>1 DEF IInv, PoolTypeOK, PiecesTypeOK
<1>3. /\ Len(debris) \in Nat /\ Len(debris) >= 1 /\ DOMAIN debris = 1 .. Len(debris)
      /\ DOMAIN debris' = 1 .. Len(debris) - 1
      /\ \A i \in 1 .. Len(debris) - 1 : debris'[i] = debris[i]
      /\ Last(debris) = debris[Len(debris)] /\ Last(debris) \in PieceSet
  <2>1. /\ Front(debris) \in Seq(PieceSet) /\ Len(Front(debris)) = Len(debris) - 1
        /\ \A i \in 1 .. Len(debris) - 1 : Front(debris)[i] = debris[i]
        /\ Last(debris) = debris[Len(debris)] /\ Len(debris) >= 1
    BY <1>1, <1>2, FrontFacts
  <2>2. /\ Len(debris) \in Nat /\ DOMAIN debris = 1 .. Len(debris)
        /\ \A i \in 1 .. Len(debris) : debris[i] \in PieceSet
    BY <1>2, SeqFacts
  <2>3. DOMAIN Front(debris) = 1 .. Len(Front(debris))
    BY <2>1, SeqFacts
  <2> QED
    BY <1>1, <2>1, <2>2, <2>3
<1>4. /\ Len(frames[t]) \in Nat /\ Len(frames'[t]) = Len(frames[t]) + 1
      /\ \A i \in 1 .. Len(frames[t]) : frames'[t][i] = frames[t][i]
      /\ frames'[t][Len(frames[t]) + 1] = Last(debris)
  BY <1>2, <1>3, AppendFacts, SeqFacts
<1>5. frame_id[t] = 1 /\ use_num[t] = -1
  BY <1>1 DEF IInv, Standing
<1>6. l \in Places /\ Held(l) = Objects(Last(debris))
  BY <1>3, PlaceCases, WhatHeld
<1>7. ASSUME NEW p \in Places'
      PROVE  p # l /\ m[p] \in Places /\ Held(p)' \subseteq Held(m[p])
  <2>1. CASE p = <<NoThread, 1>> /\ ~debris_mode'
    <3>1. p # l /\ m[p] = p /\ p \in Places
      BY <1>1, <2>1, Names, PlaceCases
    <3>2. Room' = Room /\ page' = page /\ next' = next
      BY <1>1 DEF Room
    <3> QED
      BY <2>1, <3>1, <3>2, WhatHeld
  <2>2. CASE \E i \in DOMAIN debris' : p = <<"debris", i>>
    <3>1. PICK i \in DOMAIN debris' : p = <<"debris", i>>
      BY <2>2
    <3>2. i \in DOMAIN debris /\ i # Len(debris) /\ debris'[i] = debris[i]
      BY <1>3
    <3>3. p # l /\ m[p] = p /\ p \in Places
      BY <3>1, <3>2, Names, PlaceCases
    <3> QED
      BY <3>1, <3>2, <3>3, WhatHeld
  <2>3. CASE \E u \in Thread : \E i \in frame_id'[u] .. Len(frames'[u]) : p = <<u, i>>
    <3>1. PICK u \in Thread : \E i \in frame_id'[u] .. Len(frames'[u]) : p = <<u, i>>
      BY <2>3
    <3>2. PICK i \in frame_id'[u] .. Len(frames'[u]) : p = <<u, i>>
      BY <3>1
    <3>3. p # l
      BY <3>2, Names
    <3>4. CASE u # t
      <4>1. m[p] = p
        BY <3>2, <3>4
      <4> QED
        BY <1>1, <3>2, <3>3, <3>4, <4>1, OthersPlaces
    <3>5. CASE u = t /\ i = Len(frames[t]) + 1
      <4>1. m[p] = l
        BY <3>2, <3>5
      <4>2. Left(t, i)'.start = Last(debris).start /\ Left(t, i)'.size = Last(debris).size
        BY <1>1, <1>3, <1>4, <1>5, <3>5 DEF Left, Piece, PieceSet
      <4>3. Held(p)' = Objects(Left(t, i)')
        BY <3>2, <3>5, WhatHeld
      <4>4. Objects(Left(t, i)') = Objects(Last(debris))
        BY <4>2 DEF Objects
      <4> QED
        BY <1>6, <3>3, <4>1, <4>3, <4>4
    <3>6. CASE u = t /\ i # Len(frames[t]) + 1
      <4>1. i \in frame_id[t] .. Len(frames[t]) /\ frames'[t][i] = frames[t][i]
        BY <1>1, <1>4, <1>5, <3>6
      <4>2. m[p] = p /\ p \in Places
        BY <3>2, <3>6, <4>1, PlaceCases
      <4>3. frame_id'[t] = frame_id[t] /\ use_num'[t] = use_num[t]
        BY <1>1
      <4>4. Left(t, i)' = Left(t, i)
        BY <4>1, <4>3 DEF Left
      <4> QED
        BY <3>2, <3>3, <3>6, <4>2, <4>4, WhatHeld
    <3> QED
      BY <3>4, <3>5, <3>6
  <2> QED
    BY <2>1, <2>2, <2>3, PlaceCases
<1>8. m \in [Places' -> Places] /\ \A p \in Places' : Held(p)' \subseteq Held(m[p])
  BY <1>7
<1>9. \A p, q \in Places' : p # q => m[p] # m[q]
  BY <1>7
<1> HIDE DEF m
<1> QED
  BY <1>1, <1>8, <1>9, MoveStep

LEMMA GivenBackPieces ==
  ASSUME IInv, NEW t \in Thread, FreeUnuseObject(t)
  PROVE  PiecesDisjoint' /\ PiecesBegun'
<1> DEFINE e == Left(t, frame_id[t])
           d == <<"debris", Len(debris) + 1>>
           f == <<t, frame_id[t]>>
           m == [p \in Places' |-> IF p = d THEN f ELSE p]
<1>1. /\ UNCHANGED <<page, next, debris_mode, frames, handed>> /\ Step(t)
      /\ AddDebris(e) /\ frame_id[t] <= Len(frames[t])
      /\ frame_id' = [frame_id EXCEPT ![t] = frame_id[t] + 1]
      /\ use_num' = [use_num EXCEPT ![t] = -1]
  BY DEF FreeUnuseObject, GivenBack, Step
<1>2. /\ frame_id'[t] = frame_id[t] + 1 /\ use_num'[t] = -1
  BY <1>1 DEF IInv, PoolTypeOK, ThreadTypeOK
<1>3. /\ Len(frames[t]) \in Nat /\ frame_id[t] \in Nat
      /\ e.start \in Nat /\ e.size \in Nat /\ e = [start |-> e.start, size |-> e.size]
      /\ \A i \in frame_id[t] .. Len(frames[t]) :
            frames[t][i] \in PieceSet /\ (i # frame_id[t] => Left(t, i) = frames[t][i])
  BY <1>1, LeftFacts DEF IInv
<1>4. /\ Len(debris) \in Nat /\ DOMAIN debris = 1 .. Len(debris)
      /\ \/ debris' = debris
         \/ /\ DOMAIN debris' = 1 .. Len(debris) + 1
            /\ \A i \in 1 .. Len(debris) : debris'[i] = debris[i]
            /\ debris'[Len(debris) + 1] = e
  <2> HIDE DEF e
  <2> QED
    BY <1>1, <1>3, DebrisAdded DEF IInv
<1>5. f \in Places /\ Held(f) = Objects(e)
  BY <1>1, <1>3, PlaceCases, WhatHeld
<1> HIDE DEF e
<1>6. ASSUME NEW p \in Places'
      PROVE  p # f /\ m[p] \in Places /\ Held(p)' \subseteq Held(m[p])
  <2>1. CASE p = <<NoThread, 1>> /\ ~debris_mode'
    <3>1. p # f /\ m[p] = p /\ p \in Places
      BY <1>1, <2>1, Names, PlaceCases
    <3>2. Room' = Room /\ page' = page /\ next' = next
      BY <1>1 DEF Room
    <3> QED
      BY <2>1, <3>1, <3>2, WhatHeld
  <2>2. CASE \E i \in DOMAIN debris' : p = <<"debris", i>>
    <3>1. PICK i \in DOMAIN debris' : p = <<"debris", i>>
      BY <2>2
    <3>2. p # f
      BY <3>1, Names
    <3>3. CASE i \in DOMAIN debris
      <4>1. m[p] = p /\ debris'[i] = debris[i]
        BY <1>4, <3>1, <3>3
      <4> QED
        BY <3>1, <3>2, <3>3, <4>1, PlaceCases, WhatHeld
    <3>4. CASE i \notin DOMAIN debris
      <4>1. i = Len(debris) + 1 /\ debris'[i] = e
        BY <1>4, <3>1, <3>4
      <4>2. m[p] = f
        BY <3>1, <4>1
      <4> QED
        BY <1>5, <3>1, <3>2, <4>1, <4>2, WhatHeld
    <3> QED
      BY <3>3, <3>4
  <2>3. CASE \E u \in Thread : \E i \in frame_id'[u] .. Len(frames'[u]) : p = <<u, i>>
    <3>1. PICK u \in Thread : \E i \in frame_id'[u] .. Len(frames'[u]) : p = <<u, i>>
      BY <2>3
    <3>2. PICK i \in frame_id'[u] .. Len(frames'[u]) : p = <<u, i>>
      BY <3>1
    <3>3. m[p] = p
      BY <3>2, Names
    <3>4. CASE u # t
      BY <1>1, <3>2, <3>3, <3>4, OthersPlaces
    <3>5. CASE u = t
      <4>1. /\ i \in frame_id[t] .. Len(frames[t]) /\ i # frame_id[t]
            /\ frames'[t] = frames[t]
        BY <1>1, <1>2, <1>3, <3>5
      <4>2. Left(t, i) = frames[t][i] /\ frames[t][i] \in PieceSet
        BY <1>3, <4>1
      <4>3. /\ Left(t, i)'.start = frames[t][i].start
            /\ Left(t, i)'.size = frames[t][i].size
        BY <1>2, <4>1, <4>2 DEF Left, Piece, PieceSet
      <4>4. Objects(Left(t, i)') = Objects(Left(t, i))
        BY <4>2, <4>3 DEF Objects
      <4>5. p \in Places /\ p # f
        BY <3>2, <3>5, <4>1, PlaceCases
      <4> QED
        BY <3>2, <3>3, <3>5, <4>4, <4>5, WhatHeld
    <3> QED
      BY <3>4, <3>5
  <2> QED
    BY <2>1, <2>2, <2>3, PlaceCases
<1>7. m \in [Places' -> Places] /\ \A p \in Places' : Held(p)' \subseteq Held(m[p])
  BY <1>6
<1>8. \A p, q \in Places' : p # q => m[p] # m[q]
  BY <1>6
<1> HIDE DEF m
<1> QED
  BY <1>1, <1>7, <1>8, MoveStep

LEMMA CarvePieces ==
  ASSUME IInv, NEW t \in Thread, Carve(t)
  PROVE  PiecesDisjoint' /\ PiecesBegun'
<1> DEFINE b == page * PageSize
           f == <<t, 1>>
           g == <<NoThread, 1>>
           m == [p \in Places' |-> IF p = f THEN g ELSE p]
<1>1. /\ UNCHANGED <<page, debris, debris_mode, frame_id, use_num, handed>> /\ Step(t)
      /\ ~debris_mode /\ Room >= MinNum /\ next' = next + MinNum
      /\ frames[t] = <<>> /\ frames' = [frames EXCEPT ![t] = <<Piece(b + next, MinNum)>>]
      /\ phase[t] \in Filling
  BY DEF Carve, Step, MoveOn, Refilling, Filling
<1>2. frame_id[t] = 1 /\ use_num[t] = -1
  BY <1>1 DEF IInv, Standing
<1>3. /\ b \in Int /\ next \in Int /\ MinNum \in Int /\ MinNum > 0
      /\ PageSize \in Int /\ next + MinNum <= PageSize
  <2>1. page \in Nat /\ page < PageNum /\ next \in 0 .. PageSize
    BY DEF IInv, PoolTypeOK, PageTypeOK
  <2>2. page * PageSize \in Nat
    BY <2>1, BegunObjects
  <2> QED
    BY <1>1, <2>1, <2>2, Positive DEF Room
<1>4. /\ frames'[t] = <<Piece(b + next, MinNum)>>
      /\ Len(frames'[t]) = 1 /\ frames'[t][1] = Piece(b + next, MinNum)
  BY <1>1 DEF IInv, PoolTypeOK, PiecesTypeOK
<1>5. g \in Places /\ Held(g) = Objects(Piece(b + next, PageSize - next))
  BY <1>1, PlaceCases, WhatHeld DEF Room
<1>6. Held(f)' = Objects(Piece(b + next, MinNum))
  <2>1. frame_id'[t] = 1 /\ use_num'[t] = -1
    BY <1>1, <1>2
  <2>2. Left(t, 1)' = Piece(frames'[t][1].start + -1 + 1, frames'[t][1].size - -1 - 1)
    BY <2>1 DEF Left
  <2>3. frames'[t][1].start = b + next /\ frames'[t][1].size = MinNum
    BY <1>4 DEF Piece
  <2>4. (b + next) + -1 + 1 = b + next /\ MinNum - -1 - 1 = MinNum
    BY <1>3
  <2>5. Left(t, 1)' = Piece(b + next, MinNum)
    BY <2>2, <2>3, <2>4
  <2> QED
    BY <2>5, WhatHeld
<1>7. Held(g)' = Objects(Piece(b + next + MinNum, PageSize - (next + MinNum)))
  <2>1. page' * PageSize + next' = b + next + MinNum /\ Room' = PageSize - (next + MinNum)
    BY <1>1, <1>3 DEF Room
  <2> QED
    BY <2>1, WhatHeld
<1> HIDE DEF b
<1>8. /\ Held(f)' \subseteq Held(g) /\ Held(g)' \subseteq Held(g)
      /\ Held(f)' \cap Held(g)' = {}
  <2>1. Held(g) = b + next .. b + next + (PageSize - next) - 1
    BY <1>3, <1>5, ObjectsOf
  <2>2. Held(f)' = b + next .. b + next + MinNum - 1
    BY <1>3, <1>6, ObjectsOf
  <2>3. Held(g)' = b + next + MinNum .. b + next + MinNum + (PageSize - (next + MinNum)) - 1
    BY <1>3, <1>7, ObjectsOf
  <2> QED
    BY <1>3, <2>1, <2>2, <2>3
<1>9. ASSUME NEW p \in Places'
      PROVE  m[p] \in Places /\ Held(p)' \subseteq Held(m[p])
  <2>1. CASE p = g
    <3>1. p # f /\ m[p] = g
      BY <2>1, Names
    <3> QED
      BY <1>5, <1>8, <2>1, <3>1
  <2>2. CASE \E i \in DOMAIN debris' : p = <<"debris", i>>
    <3>1. PICK i \in DOMAIN debris' : p = <<"debris", i>>
      BY <2>2
    <3>2. m[p] = p /\ i \in DOMAIN debris /\ debris'[i] = debris[i]
      BY <1>1, <3>1, Names
    <3> QED
      BY <3>1, <3>2, PlaceCases, WhatHeld
  <2>3. CASE \E u \in Thread : \E i \in frame_id'[u] .. Len(frames'[u]) : p = <<u, i>>
    <3>1. PICK u \in Thread : \E i \in frame_id'[u] .. Len(frames'[u]) : p = <<u, i>>
      BY <2>3
    <3>2. PICK i \in frame_id'[u] .. Len(frames'[u]) : p = <<u, i>>
      BY <3>1
    <3>3. CASE u # t
      <4>1. m[p] = p
        BY <3>2, <3>3
      <4> QED
        BY <1>1, <3>2, <3>3, <4>1, OthersPlaces
    <3>4. CASE u = t
      <4>1. i = 1
        BY <1>1, <1>2, <1>4, <3>4
      <4>2. p = f /\ m[p] = g
        BY <3>2, <3>4, <4>1
      <4> QED
        BY <1>5, <1>8, <4>2
    <3> QED
      BY <3>3, <3>4
  <2> QED
    BY <2>1, <2>2, <2>3, PlaceCases
<1>10. m \in [Places' -> Places] /\ \A p \in Places' : Held(p)' \subseteq Held(m[p])
  BY <1>9
<1>11. \A p, q \in Places' : p # q => m[p] # m[q] \/ Held(p)' \cap Held(q)' = {}
  <2>1. ASSUME NEW p \in Places', NEW q \in Places', p # q
        PROVE  m[p] # m[q] \/ {p, q} = {f, g}
    BY <2>1
  <2> QED
    BY <1>8, <2>1
<1> HIDE DEF m
<1> QED
  BY <1>1, <1>10, <1>11, MoveStep

(* The objects of a new page were in no piece, and none of them was handed *)
(* out.                                                                    *)
LEMMA NewPagePieces ==
  ASSUME IInv, NEW t \in Thread, NewPage(t)
  PROVE  PiecesDisjoint' /\ PiecesBegun'
<1> DEFINE g == <<NoThread, 1>>
<1>1. /\ UNCHANGED <<debris, frames, frame_id, use_num, handed>> /\ Step(t)
      /\ debris_mode /\ ~debris_mode' /\ page' = page + 1 /\ next' = 0
      /\ page + 1 < PageNum
  BY DEF NewPage, Step, caches
<1>2. page \in Nat /\ page < PageNum
  BY DEF IInv, PoolTypeOK, PageTypeOK
<1> DEFINE b == (page + 1) * PageSize
           e == (page + 1 + 1) * PageSize
<1>3. /\ b \in Nat /\ e = b + PageSize /\ Begun = 0 .. b - 1 /\ Begun' = 0 .. e - 1
      /\ Begun' \subseteq Object
  <2>1. (page + 1) * PageSize \in Nat /\ (page + 1 + 1) * PageSize = b + PageSize
    BY <1>2, Times, Positive
  <2>2. Begun' = 0 .. (page + 1 + 1) * PageSize - 1
    BY <1>1 DEF Begun
  <2>3. page' \in Nat /\ page' < PageNum
    BY <1>1, <1>2
  <2>4. (page + 1 + 1) * PageSize \in Nat /\ (page + 1 + 1) * PageSize <= PageNum * PageSize
        /\ PageNum * PageSize \in Nat
    BY <1>1, <1>2, Times, Positive
  <2>5. Begun' \subseteq Object
    <3> DEFINE c == (page + 1 + 1) * PageSize
               n == PageNum * PageSize
    <3>1. c \in Nat /\ n \in Nat /\ c <= n
      BY <2>4
    <3> HIDE DEF c, n
    <3>2. 0 .. c - 1 \subseteq 0 .. n - 1
      BY <3>1
    <3> QED
      BY <2>2, <3>2 DEF c, n, Object
  <2>6. Begun = 0 .. b - 1
    BY DEF Begun
  <2> QED
    BY <2>1, <2>2, <2>5, <2>6
<1>4. Held(g)' = b .. b + PageSize - 1
  <2>1. Held(g)' = Objects(Piece(b, PageSize))
    <3>1. page' * PageSize + next' = b /\ Room' = PageSize
      <4> HIDE DEF b
      <4>1. page' * PageSize = b /\ next' = 0
        BY <1>1 DEF b
      <4> QED
        BY <1>3, <4>1, Positive DEF Room
    <3> QED
      BY <3>1, WhatHeld
  <2> QED
    BY <1>3, <2>1, ObjectsOf, Positive
<1> HIDE DEF b, e
<1>5. Held(g)' \cap Begun = {} /\ Held(g)' \subseteq Begun' /\ Begun \subseteq Begun'
  BY <1>3, <1>4, Positive
<1>6. ASSUME NEW p \in Places', p # g
      PROVE  p \in Places /\ Held(p)' = Held(p)
  <2>1. CASE \E i \in DOMAIN debris' : p = <<"debris", i>>
    BY <1>1, <2>1, PlaceCases, WhatHeld
  <2>2. CASE \E u \in Thread : \E i \in frame_id'[u] .. Len(frames'[u]) : p = <<u, i>>
    <3>1. PICK u \in Thread : \E i \in frame_id'[u] .. Len(frames'[u]) : p = <<u, i>>
      BY <2>2
    <3>2. PICK i \in frame_id'[u] .. Len(frames'[u]) : p = <<u, i>>
      BY <3>1
    <3>3. Left(u, i)' = Left(u, i)
      BY <1>1 DEF Left
    <3> QED
      BY <1>1, <3>2, <3>3, PlaceCases, WhatHeld
  <2> QED
    BY <1>6, <2>1, <2>2, PlaceCases
<1>7. PiecesDisjoint /\ PiecesBegun
  BY DEF IInv
<1>8. \A o \in Held(g)' : handed'[o] = 0
  BY <1>1, <1>3, <1>5, <1>7 DEF PiecesBegun
<1>9. ASSUME NEW p \in Places'
      PROVE  /\ \A o \in Held(p)' : handed'[o] = 0
             /\ Held(p)' \subseteq Begun'
  <2>1. CASE p = g
    BY <1>5, <1>8, <2>1
  <2>2. CASE p # g
    BY <1>1, <1>5, <1>6, <1>7, <2>2 DEF PiecesDisjoint, PiecesBegun
  <2> QED
    BY <2>1, <2>2
<1>10. ASSUME NEW p \in Places', NEW q \in Places', p # q
       PROVE  Held(p)' \cap Held(q)' = {}
  <2>1. CASE p = g
    <3>1. Held(q)' \subseteq Begun
      BY <1>6, <1>7, <1>10, <2>1 DEF PiecesBegun
    <3> QED
      BY <1>5, <2>1, <3>1
  <2>2. CASE q = g
    <3>1. Held(p)' \subseteq Begun
      BY <1>6, <1>7, <1>10, <2>2 DEF PiecesBegun
    <3> QED
      BY <1>5, <2>2, <3>1
  <2>3. CASE p # g /\ q # g
    BY <1>6, <1>7, <1>10, <2>3 DEF PiecesDisjoint
  <2> QED
    BY <2>1, <2>2, <2>3
<1>11. PiecesDisjoint'
  BY <1>9, <1>10 DEF PiecesDisjoint
<1>12. PiecesBegun'
  BY <1>1, <1>5, <1>7, <1>9 DEF PiecesBegun
<1> QED
  BY <1>11, <1>12

-----------------------------------------------------------------------------
(* A refill ends at the first object of the first frame.                   *)
LEMMA UnlockHandsOut ==
  ASSUME IInv, NEW t \in Thread, Unlock(t)
  PROVE  /\ 1 \in frame_id[t] .. Len(frames[t]) /\ 0 \in Nat /\ 0 < frames[t][1].size
         /\ (1 = frame_id[t] => 0 = use_num[t] + 1)
<1>1. frames[t] # <<>> /\ phase[t] \in Filling
  BY DEF Unlock, Filled, Refilling, Filling
<1>2. frame_id[t] = 1 /\ use_num[t] = -1 /\ frames[t] \in Seq(PieceSet)
  BY <1>1 DEF IInv, Standing, PoolTypeOK, PiecesTypeOK
<1>3. Len(frames[t]) \in Nat /\ Len(frames[t]) >= 1
  BY <1>1, <1>2, FrontFacts, SeqFacts
<1>4. frames[t][1] \in PieceSet
  BY <1>2, <1>3, SeqFacts
<1> QED
  BY <1>2, <1>3, <1>4 DEF PieceSet

(* Every step keeps the pieces apart.                                      *)
LEMMA StepKeeps ==
  ASSUME IInv, NEW t \in Thread, Step(t)
  PROVE  IInv'
<1>1. PiecesDisjoint' /\ PiecesBegun'
  <2>n. /\ Standing(t) /\ frames[t] \in Seq(PieceSet) /\ Len(frames[t]) \in Nat
        /\ frame_id[t] \in Nat /\ use_num[t] \in Int /\ use_num[t] >= -1
        /\ DOMAIN frames = Thread
    BY LeftFacts DEF IInv, PoolTypeOK, PiecesTypeOK
  <2>1. CASE ThreadStart(t)
    <3>1. UNCHANGED <<page, next, debris, debris_mode, handed, frames, frame_id, use_num>>
      BY <2>1 DEF ThreadStart, pool, caches
    <3> QED
      BY <3>1, QuietStep
  <2>2. CASE GetNextObject(t)
    <3>1. /\ UNCHANGED <<page, next, debris, debris_mode, frames>>
          /\ \E i, k : /\ (i = frame_id[t] /\ k = use_num[t] + 1) \/ (i = frame_id[t] + 1 /\ k = 0)
                       /\ HasObject(t, i, k) /\ HandOut(t, i, k)
      BY <2>2 DEF GetNextObject, pool
    <3>2. PICK i \in frame_id[t] .. Len(frames[t]), k \in Nat :
            /\ k < frames[t][i].size /\ HandOut(t, i, k)
            /\ i = frame_id[t] => k = use_num[t] + 1
      BY <2>n, <3>1 DEF HasObject
    <3> QED
      BY <3>1, <3>2, HandOutShrinks
  <2>3. CASE RunDry(t)
    <3>1. UNCHANGED <<page, next, debris, debris_mode, handed>> /\ frames'[t] = <<>>
      BY <2>3, <2>n DEF RunDry, pool
    <3> QED
      BY <3>1, QuietStep
  <2>4. CASE Lock(t)
    <3>1. UNCHANGED <<page, next, debris, debris_mode, handed, frames, frame_id, use_num>>
      BY <2>4 DEF Lock, pool, caches
    <3> QED
      BY <3>1, QuietStep
  <2>5. CASE Carve(t)
    BY <2>5, CarvePieces
  <2>6. CASE EnterDebrisMode(t)
    BY <2>6, DebrisModePieces
  <2>7. CASE TakeDebris(t)
    BY <2>7, TakeDebrisPieces
  <2>8. CASE NewPage(t)
    BY <2>8, NewPagePieces
  <2>9. CASE FullError(t)
    <3>1. UNCHANGED <<page, next, debris, debris_mode, handed, frames, frame_id, use_num>>
      BY <2>9 DEF FullError, pool, caches
    <3> QED
      BY <3>1, QuietStep
  <2>10. CASE Unlock(t)
    <3>1. CASE HandOut(t, 1, 0)
      <4>1. 1 \in frame_id[t] .. Len(frames[t]) /\ 0 < frames[t][1].size
            /\ (1 = frame_id[t] => 0 = use_num[t] + 1)
        BY <2>10, UnlockHandsOut
      <4>2. UNCHANGED <<page, next, debris, debris_mode, frames>>
        BY <2>10 DEF Unlock, pool
      <4> QED
        BY <3>1, <4>1, <4>2, HandOutShrinks
    <3>2. CASE UNCHANGED <<frame_id, use_num, handed>>
      <4>1. UNCHANGED <<page, next, debris, debris_mode, handed, frames, frame_id, use_num>>
        BY <2>10, <3>2 DEF Unlock, pool
      <4> QED
        BY <4>1, QuietStep
    <3> QED
      BY <2>10, <3>1, <3>2 DEF Unlock
  <2>11. CASE FreeUnuseObject(t)
    BY <2>11, GivenBackPieces
  <2>12. CASE ThreadEnd(t)
    <3>1. UNCHANGED <<page, next, debris, debris_mode, handed>> /\ frames'[t] = <<>>
      BY <2>12, <2>n DEF ThreadEnd, pool
    <3> QED
      BY <3>1, QuietStep
  <2> QED
    BY <2>1, <2>2, <2>3, <2>4, <2>5, <2>6, <2>7, <2>8, <2>9, <2>10, <2>11, <2>12 DEF Step
<1> QED
  BY <1>1, TypeKept DEF IInv

LEMMA StutterKeeps == IInv /\ UNCHANGED vars => IInv'
<1> SUFFICES ASSUME IInv, UNCHANGED vars PROVE IInv'
  OBVIOUS
<1>1. UNCHANGED <<page, next, debris, debris_mode, lock, phase, frames, frame_id, use_num, handed>>
  BY DEF vars, pool, caches
<1>2. PoolTypeOK' /\ \A t \in Thread : Standing(t)'
  BY <1>1 DEF IInv, PoolTypeOK, PageTypeOK, ModeTypeOK, ThreadTypeOK, PiecesTypeOK,
              HandedTypeOK, Standing
<1>3. Places' = Places /\ Begun' = Begun
  BY <1>1 DEF Places, Begun
<1>4. \A p : Held(p)' = Held(p)
  BY <1>1 DEF Held, PieceOf, Left, Room
<1> QED
  BY <1>1, <1>2, <1>3, <1>4 DEF IInv, PiecesBegun, PiecesDisjoint

LEMMA InvHolds == Spec => []IInv
<1>1. IInv /\ [Next]_vars => IInv'
  BY StepKeeps, StutterKeeps DEF Next
<1> QED
  BY <1>1, InvInit, PTL DEF Spec

(* For every number of threads and every size of pages, refills and debris *)
(* memory_cache_t keeps: what the page, the debris and the threads have to *)
(* hand out are pieces apart, of objects nobody has been given.            *)
THEOREM PiecesStayApart == Spec => []PiecesDisjoint
<1>1. IInv => PiecesDisjoint
  BY DEF IInv
<1> QED
  BY <1>1, InvHolds, PTL

-----------------------------------------------------------------------------
(* get_next_object returns an object nobody has been given: the threads'   *)
(* caches implement ObjectPool.                                            *)

LEMMA HandOutImplements ==
  ASSUME IInv, NEW t \in Thread, NEW i \in frame_id[t] .. Len(frames[t]),
         NEW k \in Nat, k < frames[t][i].size, i = frame_id[t] => k = use_num[t] + 1,
         HandOut(t, i, k)
  PROVE  Pool!Next
<1> DEFINE x == frames[t][i].start + k
<1>1. x \in Object /\ x \in Held(<<t, i>>) /\ <<t, i>> \in Places
  BY HandOutObject
<1>2. handed[x] = 0
  BY <1>1 DEF IInv, PiecesDisjoint
<1>3. handed' = [handed EXCEPT ![x] = handed[x] + 1]
  BY DEF HandOut
<1> HIDE DEF x
<1>4. handed' = [handed EXCEPT ![x] = 1]
  BY <1>2, <1>3
<1> QED
  BY <1>1, <1>2, <1>4 DEF Pool!Next, Pool!GetNextObject

LEMMA StepImplements ==
  ASSUME IInv, NEW t \in Thread, Step(t)
  PROVE  [Pool!Next]_handed
<1>n. /\ Len(frames[t]) \in Nat /\ frame_id[t] \in Nat /\ use_num[t] \in Int /\ use_num[t] >= -1
  BY LeftFacts DEF IInv
<1>1. CASE GetNextObject(t)
  <2>1. \E i, k : /\ (i = frame_id[t] /\ k = use_num[t] + 1) \/ (i = frame_id[t] + 1 /\ k = 0)
                  /\ HasObject(t, i, k) /\ HandOut(t, i, k)
    BY <1>1 DEF GetNextObject
  <2>2. PICK i \in frame_id[t] .. Len(frames[t]), k \in Nat :
          /\ k < frames[t][i].size /\ HandOut(t, i, k)
          /\ i = frame_id[t] => k = use_num[t] + 1
    BY <1>n, <2>1, SMTT(20) DEF HasObject
  <2> QED
    BY <2>2, HandOutImplements
<1>2. CASE Unlock(t) /\ HandOut(t, 1, 0)
  BY <1>2, UnlockHandsOut, HandOutImplements
<1>3. CASE UNCHANGED handed
  BY <1>3
<1>4. GetNextObject(t) \/ (Unlock(t) /\ HandOut(t, 1, 0)) \/ UNCHANGED handed
  BY DEF Step, ThreadStart, RunDry, Lock, Carve, EnterDebrisMode, TakeDebris, NewPage,
         FullError, Unlock, FreeUnuseObject, ThreadEnd
<1> QED
  BY <1>1, <1>2, <1>3, <1>4

(* get_next_object, called by threads whose refills and ends interleave in  *)
(* any way, never returns an object it has returned before.                *)
THEOREM CacheImplementsPool == Spec => Implements
<1>1. Init => Pool!Init
  BY DEF Init, Pool!Init
<1>2. IInv /\ [Next]_vars => [Pool!Next]_handed
  <2>1. UNCHANGED vars => UNCHANGED handed
    BY DEF vars
  <2> QED
    BY <2>1, StepImplements DEF Next
<1> QED
  BY <1>1, <1>2, InvHolds, PTL DEF Spec, Implements, Pool!Spec

-----------------------------------------------------------------------------
(* Total is defined by a fold that takes the last piece first; it is the   *)
(* last of the sums of the first k pieces.                                 *)
LEMMA TotalSums ==
  ASSUME NEW ps \in Seq(PieceSet)
  PROVE  \E f \in [0 .. Len(ps) -> Nat] :
           /\ f[0] = 0
           /\ \A k \in 0 .. Len(ps) - 1 : f[k + 1] = f[k] + ps[k + 1].size
           /\ Total(ps) = f[Len(ps)]
<1> DEFINE n == Len(ps)
           S == 1 .. n
           Sums(f) == f = [s \in SUBSET S |-> IF s = {} THEN 0 ELSE f[s \ {Max(s)}] + ps[Max(s)].size]
           it == CHOOSE f : Sums(f)
           g == [p \in S \X Nat |-> p[2] + ps[p[1]].size]
           c == [s \in SUBSET S |-> Max(s)]
<1>1. n \in Nat /\ DOMAIN ps = S /\ \A i \in S : ps[i].size \in Nat
  BY SeqFacts DEF PieceSet
<1>2. Total(ps) = it[S]
  <2>1. Total(ps) = (CHOOSE f : f = [s \in SUBSET DOMAIN ps |->
                                       IF s = {} THEN 0 ELSE f[s \ {Max(s)}] + ps[Max(s)].size])[DOMAIN ps]
    BY Zenon DEF Total, FoldLeft, MapThenFoldSet
  <2> QED
    BY <1>1, <2>1, Zenon
<1> HIDE DEF n
<1>3. Chooses(c, S)
  BY <1>1, MaxOfSet DEF Chooses
<1>4. g \in FoldSteps(S, Nat) /\ IsFiniteSet(S)
  <2>1. \A p \in S \X Nat : p[2] + ps[p[1]].size \in Nat
    BY <1>1
  <2> QED
    BY <1>1, <2>1, FS_Interval DEF FoldSteps
<1>5. PICK f : Folds(f, S, Nat, 0, g, c)
  <2> HIDE DEF g, c, S
  <2> QED
    BY <1>3, <1>4, FoldExists
<1>13. f \in [SUBSET S -> Nat]
      /\ f = [s \in SUBSET S |-> IF s = {} THEN 0 ELSE g[<<c[s], f[s \ {c[s]}]>>]]
  BY <1>5, Zenon DEF Folds
<1>6. Sums(f)
  <2>1. ASSUME NEW s \in SUBSET S, s # {}
        PROVE  g[<<c[s], f[s \ {c[s]}]>>] = f[s \ {Max(s)}] + ps[Max(s)].size
    <3>1. c[s] = Max(s) /\ c[s] \in S
      BY <1>3, <2>1 DEF Chooses
    <3>2. f[s \ {c[s]}] \in Nat
      BY <1>13
    <3> QED
      BY <3>1, <3>2
  <2> QED
    BY <1>13, <2>1
<1>7. Sums(it)
  <2> HIDE DEF Sums
  <2> QED
    BY <1>6, Zenon
<1> HIDE DEF it
<1>8. it[{}] = 0
  BY <1>7
<1>9. ASSUME NEW k \in 0 .. n - 1 PROVE it[1 .. k + 1] = it[1 .. k] + ps[k + 1].size
  <2>0. n \in Nat /\ k \in Nat /\ k + 1 <= n /\ k + 1 \in 1 .. k + 1
    BY <1>1
  <2>1. 1 .. k + 1 \in SUBSET S /\ 1 .. k + 1 # {}
    <3>1. \A i \in 1 .. k + 1 : i \in S
      BY <2>0
    <3> QED
      BY <2>0, <3>1
  <2>2. Max(1 .. k + 1) = k + 1
    BY MaxOfInterval
  <2>3. (1 .. k + 1) \ {k + 1} = 1 .. k
    BY <1>1
  <2>4. it[1 .. k + 1] = it[(1 .. k + 1) \ {Max(1 .. k + 1)}] + ps[Max(1 .. k + 1)].size
    BY <1>7, <2>1
  <2> QED
    BY <2>2, <2>3, <2>4
<1> DEFINE T == {k \in 0 .. n : it[1 .. k] \in Nat}
<1>10. 0 .. n \subseteq T
  <2>1. 0 \in T
    BY <1>1, <1>8
  <2>2. ASSUME NEW k \in 0 .. n - 1, k \in T PROVE k + 1 \in T
    BY <1>1, <1>9, <2>2
  <2> HIDE DEF T
  <2> QED
    BY <1>1, <2>1, <2>2, IntervalInduction
<1> DEFINE h == [k \in 0 .. n |-> it[1 .. k]]
<1>11. h \in [0 .. n -> Nat] /\ h[0] = 0 /\ Total(ps) = h[n]
  BY <1>1, <1>2, <1>8, <1>10
<1>12. \A k \in 0 .. n - 1 : h[k + 1] = h[k] + ps[k + 1].size
  BY <1>1, <1>9
<1> QED
  BY <1>11, <1>12 DEF n

(* No pieces have no objects.                                              *)
LEMMA TotalNone == Total(<<>>) = 0
<1>1. <<>> \in Seq(PieceSet) /\ Len(<<>>) = 0
  OBVIOUS
<1> QED
  BY <1>1, TotalSums

(* A piece more adds its size.                                             *)
LEMMA TotalAppend ==
  ASSUME NEW ps \in Seq(PieceSet), NEW p \in PieceSet
  PROVE  Total(Append(ps, p)) = Total(ps) + p.size /\ Total(ps) \in Nat
<1> DEFINE qs == Append(ps, p)
           n == Len(ps)
<1>1. /\ n \in Nat /\ qs \in Seq(PieceSet) /\ Len(qs) = n + 1 /\ qs[n + 1] = p
      /\ \A i \in 1 .. n : qs[i] = ps[i]
  BY AppendFacts, SeqFacts
<1> HIDE DEF qs
<1>2. PICK f \in [0 .. n -> Nat] : /\ f[0] = 0
                                   /\ \A k \in 0 .. n - 1 : f[k + 1] = f[k] + ps[k + 1].size
                                   /\ Total(ps) = f[n]
  BY TotalSums
<1>3. PICK e \in [0 .. n + 1 -> Nat] : /\ e[0] = 0
                                       /\ \A k \in 0 .. n : e[k + 1] = e[k] + qs[k + 1].size
                                       /\ Total(qs) = e[n + 1]
  <2>1. PICK e \in [0 .. Len(qs) -> Nat] : /\ e[0] = 0
                                       /\ \A k \in 0 .. Len(qs) - 1 : e[k + 1] = e[k] + qs[k + 1].size
                                       /\ Total(qs) = e[Len(qs)]
    BY <1>1, TotalSums
  <2> QED
    BY <1>1, <2>1
<1> DEFINE T == {k \in 0 .. n : e[k] = f[k]}
<1>4. 0 .. n \subseteq T
  <2>1. 0 \in T
    BY <1>1, <1>2, <1>3
  <2>2. ASSUME NEW k \in 0 .. n - 1, k \in T PROVE k + 1 \in T
    BY <1>1, <1>2, <1>3, <2>2
  <2> HIDE DEF T
  <2> QED
    BY <1>1, <2>1, <2>2, IntervalInduction
<1>5. e[n] = f[n]
  BY <1>1, <1>4
<1> QED
  BY <1>1, <1>2, <1>3, <1>5 DEF qs

(* One piece has its own size.                                             *)
LEMMA TotalOfOne ==
  ASSUME NEW p \in PieceSet
  PROVE  Total(<<p>>) = p.size
<1>1. <<>> \in Seq(PieceSet) /\ <<p>> = Append(<<>>, p) /\ p.size \in Nat
  BY DEF PieceSet
<1>2. Total(Append(<<>>, p)) = Total(<<>>) + p.size
  BY <1>1, TotalAppend, Zenon
<1>3. Total(<<>>) = 0
  BY TotalNone, Zenon
<1> QED
  BY <1>1, <1>2, <1>3

(* The last piece taken away takes its size with it.                       *)
LEMMA TotalFront ==
  ASSUME NEW ps \in Seq(PieceSet), ps # <<>>
  PROVE  Total(ps) = Total(Front(ps)) + Last(ps).size /\ Last(ps) \in PieceSet
         /\ Total(Front(ps)) \in Nat /\ Total(ps) \in Nat
<1>1. /\ Front(ps) \in Seq(PieceSet) /\ Last(ps) \in PieceSet
  BY FrontFacts, SeqFacts
<1>2. ps = Append(Front(ps), Last(ps))
  <2> DEFINE f == Front(ps)
             l == Last(ps)
             n == Len(ps)
  <2>1. /\ f \in Seq(PieceSet) /\ l \in PieceSet /\ l = ps[n] /\ n \in Nat /\ n >= 1
        /\ Len(f) = n - 1 /\ \A i \in 1 .. n - 1 : f[i] = ps[i]
    BY <1>1, FrontFacts, SeqFacts
  <2> HIDE DEF f, l, n
  <2>2. /\ Append(f, l) \in Seq(PieceSet) /\ Len(Append(f, l)) = Len(f) + 1
        /\ \A i \in 1 .. Len(f) : Append(f, l)[i] = f[i]
        /\ Append(f, l)[Len(f) + 1] = l
    BY <2>1, AppendFacts
  <2>3. Len(Append(f, l)) = n /\ \A i \in 1 .. n : Append(f, l)[i] = ps[i]
    BY <2>1, <2>2
  <2>4. ps = Append(f, l)
    BY <2>2, <2>3, SeqEqual DEF n
  <2> QED
    BY <2>4 DEF f, l
<1> QED
  BY <1>1, <1>2, TotalAppend

(* Pieces of at least d objects are together that many times d.            *)
LEMMA TotalLeast ==
  ASSUME NEW ps \in Seq(PieceSet), NEW d \in Nat, \A i \in 1 .. Len(ps) : ps[i].size >= d
  PROVE  Total(ps) >= Len(ps) * d
<1> DEFINE n == Len(ps)
<1>1. n \in Nat /\ \A i \in 1 .. n : ps[i].size \in Nat
  BY SeqFacts DEF PieceSet
<1>2. PICK f \in [0 .. n -> Nat] : /\ f[0] = 0
                                   /\ \A k \in 0 .. n - 1 : f[k + 1] = f[k] + ps[k + 1].size
                                   /\ Total(ps) = f[n]
  BY TotalSums
<1> DEFINE T == {k \in 0 .. n : f[k] >= k * d}
<1>3. 0 .. n \subseteq T
  <2>1. 0 \in T
    BY <1>1, <1>2
  <2>2. ASSUME NEW k \in 0 .. n - 1, k \in T PROVE k + 1 \in T
    <3>1. k \in Nat /\ (k + 1) * d = k * d + d /\ k * d \in Nat
      BY <1>1, Times
    <3>2. f[k] >= k * d /\ f[k + 1] = f[k] + ps[k + 1].size /\ ps[k + 1].size >= d
          /\ ps[k + 1].size \in Nat /\ f[k] \in Nat
      BY <1>1, <1>2, <2>2
    <3> DEFINE kd == k * d
               kd1 == (k + 1) * d
    <3>3. f[k + 1] >= kd1
      <4> HIDE DEF kd, kd1
      <4>1. kd1 = kd + d /\ kd \in Nat /\ f[k] >= kd
        BY <3>1, <3>2 DEF kd, kd1
      <4> QED
        BY <3>2, <4>1
    <3> QED
      BY <1>1, <3>3
  <2> HIDE DEF T
  <2> QED
    BY <1>1, <2>1, <2>2, IntervalInduction
<1> QED
  BY <1>1, <1>2, <1>3

(* As many pieces as there are frames, each of the least size kept, are    *)
(* enough for a refill.                                                    *)
LEMMA EnoughFrames ==
  /\ FrameNum \in Nat \ {0}
  /\ MinNum <= FrameNum * DebrisMin
<1> DEFINE q == MinNum \div DebrisMin
           r == MinNum % DebrisMin
<1>1. /\ q \in Nat /\ r \in Nat /\ r < DebrisMin
      /\ MinNum = DebrisMin * q + r
  BY Positive
<1>2. DebrisMin * q = q * DebrisMin /\ (q + 1) * DebrisMin = q * DebrisMin + DebrisMin
  BY <1>1, Positive, Z3
<1>3. FrameNum = IF r > 0 THEN q + 1 ELSE q
  BY DEF FrameNum
<1> HIDE DEF q, r
<1>4. q = 0 => q * DebrisMin = 0
  BY Positive
<1>5. CASE r > 0
  BY <1>1, <1>2, <1>3, <1>5, Positive
<1>6. CASE r = 0
  <2>1. q # 0
    BY <1>1, <1>2, <1>4, <1>6, Positive
  <2> QED
  BY <1>1, <1>2, <1>3, <1>6, <2>1, Positive
<1> QED
  BY <1>1, <1>5, <1>6

(* The debris is of pieces worth keeping.  What a refill has collected     *)
(* will do with the debris that is left, and it goes on only with pieces   *)
(* of the debris.                                                          *)
Large(ps) == \A i \in 1 .. Len(ps) : ps[i].size >= DebrisMin

RefillOK(t) ==
  /\ Len(frames[t]) <= FrameNum
  /\ phase[t] = "run" => Total(frames[t]) >= MinNum
  /\ phase[t] \in Filling /\ frames[t] # <<>> =>
       /\ Total(frames[t]) + Total(debris) >= MinNum
       /\ Total(frames[t]) >= MinNum \/ Large(frames[t])

RefillInv == Large(debris) /\ \A t \in Thread : RefillOK(t)

(* Nothing is collected when the program starts.                           *)
LEMMA RefillInit == Init => RefillInv
<1> SUFFICES ASSUME Init PROVE RefillInv
  OBVIOUS
<1>1. Len(<<>>) = 0
  OBVIOUS
<1>2. Large(debris)
  BY <1>1 DEF Init, Large
<1>3. ASSUME NEW t \in Thread PROVE RefillOK(t)
  BY <1>1, EnoughFrames DEF Init, RefillOK, Filling
<1> QED
  BY <1>2, <1>3 DEF RefillInv

(* A step of one thread does not disturb the others' refills: only the     *)
(* thread that holds the lock changes the debris.                          *)
LEMMA OthersRefill ==
  ASSUME IInv, RefillInv, NEW t \in Thread, debris' = debris \/ lock = t,
         \A u \in Thread \ {t} : phase'[u] = phase[u] /\ frames'[u] = frames[u],
         Large(debris'), RefillOK(t)'
  PROVE  RefillInv'
<1>1. ASSUME NEW u \in Thread \ {t} PROVE RefillOK(u)'
  <2>1. RefillOK(u) /\ phase'[u] = phase[u] /\ frames'[u] = frames[u]
    BY DEF RefillInv
  <2>2. phase[u] \in Filling => lock = u
    BY DEF IInv, Standing, Holding
  <2>3. phase[u] \in Filling => debris' = debris
    BY <2>2
  <2> QED
    BY <2>1, <2>3 DEF RefillOK
<1>2. Large(debris)'
  BY DEF Large
<1> QED
  BY <1>1, <1>2 DEF RefillInv

(* Only pieces of the least size are kept as debris.                       *)
LEMMA LargeAdded ==
  ASSUME PoolTypeOK, Large(debris), NEW p \in [start : Nat, size : Nat], AddDebris(p)
  PROVE  Large(debris')
<1>1. CASE p.size < DebrisMin
  BY <1>1 DEF AddDebris
<1>2. CASE ~(p.size < DebrisMin)
  <2>1. p \in PieceSet /\ debris' = Append(debris, p) /\ p.size >= DebrisMin
    BY <1>2, Positive DEF AddDebris, PieceSet
  <2>2. /\ Len(debris) \in Nat /\ Len(debris') = Len(debris) + 1
        /\ \A i \in 1 .. Len(debris) : debris'[i] = debris[i]
        /\ debris'[Len(debris) + 1] = p
    BY <2>1, AppendFacts, SeqFacts DEF PoolTypeOK, PiecesTypeOK
  <2> QED
    BY <2>1, <2>2 DEF Large
<1> QED
  BY <1>1, <1>2

(* A turn of the loop over the debris: there was a frame left for the      *)
(* piece, because pieces of the least size would have done.                *)
LEMMA TakeDebrisRefills ==
  ASSUME IInv, RefillInv, NEW t \in Thread, TakeDebris(t)
  PROVE  Large(debris') /\ RefillOK(t)'
<1> DEFINE fs == frames[t]
           p == Last(debris)
<1>1. /\ phase[t] \in Filling /\ phase' = phase /\ debris # <<>>
      /\ frames'[t] = Append(fs, p) /\ debris' = Front(debris)
      /\ fs = <<>> => UseDebris
      /\ fs # <<>> => Total(fs) < MinNum
  <2>1. fs # <<>> => Total(fs) \in Nat
    BY TotalFront DEF IInv, PoolTypeOK, PiecesTypeOK
  <2>2. fs # <<>> => ~(Total(fs) >= MinNum)
    BY DEF TakeDebris, Filled
  <2>3. fs # <<>> => Total(fs) < MinNum
    BY <2>1, <2>2, Positive
  <2>4. phase[t] \in Filling /\ phase' = phase /\ debris # <<>> /\ debris' = Front(debris)
        /\ (fs = <<>> => UseDebris)
    BY DEF TakeDebris, Refilling, Filling
  <2>5. frames'[t] = Append(fs, p)
    BY DEF TakeDebris, IInv, PoolTypeOK, PiecesTypeOK
  <2> QED
    BY <2>3, <2>4, <2>5
<1>2. debris \in Seq(PieceSet) /\ fs \in Seq(PieceSet) /\ RefillOK(t) /\ Large(debris)
  BY DEF IInv, RefillInv, PoolTypeOK, PiecesTypeOK
<1> HIDE DEF fs
<1>3. /\ Total(debris) = Total(Front(debris)) + p.size /\ p \in PieceSet
      /\ Total(Front(debris)) \in Nat /\ Total(debris) \in Nat
  BY <1>1, <1>2, TotalFront
<1>4. /\ Total(Append(fs, p)) = Total(fs) + p.size /\ Total(fs) \in Nat
      /\ Len(Append(fs, p)) = Len(fs) + 1 /\ Append(fs, p) # <<>>
      /\ \A i \in 1 .. Len(fs) : Append(fs, p)[i] = fs[i]
      /\ Append(fs, p)[Len(fs) + 1] = p
  BY <1>2, <1>3, TotalAppend, AppendProperties, AppendFacts
<1>5. Len(debris) \in Nat /\ Len(fs) \in Nat /\ Len(debris) >= 1 /\ Len(Front(debris)) = Len(debris) - 1
      /\ (\A i \in 1 .. Len(debris) - 1 : Front(debris)[i] = debris[i]) /\ p = debris[Len(debris)]
  BY <1>1, <1>2, FrontFacts, SeqFacts
<1>6. Large(Front(debris)) /\ p.size >= DebrisMin
  BY <1>2, <1>5 DEF Large
<1>7. FrameNum \in Nat /\ FrameNum > 0 /\ MinNum <= FrameNum * DebrisMin /\ DebrisMin \in Nat /\ MinNum \in Nat
      /\ FrameNum * DebrisMin \in Nat
  BY EnoughFrames, Positive, Times
<1>8. Total(fs) + Total(debris) >= MinNum
  <2>1. CASE fs = <<>>
    <3>1. CASE Total(debris) >= MinNum
      BY <3>1, <1>3, <1>4, <1>7
    <3>2. CASE FrameNum <= Len(debris)
      <4>1. Total(debris) >= Len(debris) * DebrisMin
        BY <1>2, <1>7, TotalLeast DEF Large
      <4>4. FrameNum \in Nat /\ Len(debris) \in Nat /\ DebrisMin \in Nat
        BY <1>5, <1>7
      <4>2. FrameNum * DebrisMin <= Len(debris) * DebrisMin /\ Len(debris) * DebrisMin \in Nat
        BY <3>2, <4>4, Times
      <4> DEFINE a == FrameNum * DebrisMin
                 b == Len(debris) * DebrisMin
      <4>3. Total(debris) >= b /\ a <= b /\ b \in Nat /\ a \in Nat /\ MinNum <= a
        BY <4>1, <4>2, <1>7
      <4> HIDE DEF a, b
      <4> QED
        BY <4>3, <1>3, <1>4, <1>7
    <3> QED
      BY <2>1, <3>1, <3>2, <1>1 DEF UseDebris
  <2>2. CASE fs # <<>>
    BY <2>2, <1>1, <1>2 DEF RefillOK, fs
  <2> QED
    BY <2>1, <2>2
<1>9. Large(fs)
  <2>1. CASE fs = <<>>
    BY <2>1, <1>5 DEF Large
  <2>2. CASE fs # <<>>
    BY <2>2, <1>1, <1>2, <1>4, <1>7 DEF RefillOK, fs
  <2> QED
    BY <2>1, <2>2
<1>10. Len(fs) + 1 <= FrameNum
  <2>1. CASE fs = <<>>
    BY <2>1, <1>5, <1>7
  <2>2. CASE fs # <<>>
    <3>1. Total(fs) >= Len(fs) * DebrisMin
      BY <1>2, <1>7, <1>9, TotalLeast DEF Large
    <3>2. Len(fs) * DebrisMin \in Nat
      BY <1>5, <1>7, Times
    <3>3. FrameNum <= Len(fs) => FrameNum * DebrisMin <= Len(fs) * DebrisMin
      BY <1>5, <1>7, Times
    <3> DEFINE a == FrameNum * DebrisMin
               b == Len(fs) * DebrisMin
    <3>4. Total(fs) >= b /\ b \in Nat /\ a \in Nat /\ MinNum <= a /\ (FrameNum <= Len(fs) => a <= b)
      BY <3>1, <3>2, <3>3, <1>7
    <3> HIDE DEF a, b
    <3> QED
      BY <2>2, <3>4, <1>1, <1>4, <1>5, <1>7
  <2> QED
    BY <2>1, <2>2
<1>11. Large(Append(fs, p))
  BY <1>4, <1>5, <1>6, <1>9 DEF Large
<1>12. Total(Append(fs, p)) + Total(Front(debris)) >= MinNum
  <2>1. p.size \in Nat
    BY <1>3 DEF PieceSet
  <2> HIDE DEF p
  <2> QED
    BY <2>1, <1>3, <1>4, <1>7, <1>8
<1>13. Large(debris')
  BY <1>1, <1>6
<1>14. RefillOK(t)'
  <2>1. phase'[t] # "run"
    BY <1>1 DEF Filling
  <2>2. frames'[t] = Append(fs, p) /\ debris' = Front(debris)
    BY <1>1
  <2> HIDE DEF p
  <2> QED
    BY <2>1, <2>2, <1>4, <1>10, <1>11, <1>12 DEF RefillOK, Large
<1> QED
  BY <1>13, <1>14

(* One case per action; a refill ends only when there is enough.           *)
LEMMA StepRefills ==
  ASSUME IInv, RefillInv, NEW t \in Thread, Step(t)
  PROVE  RefillInv'
<1>1. /\ frames \in [Thread -> Seq(PieceSet)] /\ phase \in [Thread -> Waiting \cup Holding \cup {"run", "ended"}]
      /\ RefillOK(t) /\ Standing(t) /\ Large(debris) /\ PoolTypeOK
      /\ Len(<<>>) = 0 /\ 0 <= FrameNum
  BY EnoughFrames DEF IInv, RefillInv, PoolTypeOK, PiecesTypeOK, ThreadTypeOK
<1>2. ASSUME UNCHANGED <<debris, frames>>,
             \A u \in Thread \ {t} : phase'[u] = phase[u],
             phase'[t] = "run" => phase[t] = "run" \/ (phase[t] \in Filling /\ Filled(t)),
             phase'[t] \in Filling => phase[t] \in Filling \/ frames[t] = <<>>
      PROVE  RefillInv'
  <2>1. phase[t] \in Filling /\ Filled(t) => Total(frames[t]) >= MinNum
    <3> SUFFICES ASSUME phase[t] \in Filling, Filled(t), debris = <<>>
                 PROVE  Total(frames[t]) >= MinNum
      BY DEF Filled
    <3>1. Total(frames[t]) + 0 >= MinNum /\ Total(frames[t]) \in Nat
      BY <1>1, TotalNone, TotalFront DEF RefillOK, Filled
    <3> QED
      BY <3>1
  <2>2. RefillOK(t)'
    BY <1>1, <1>2, <2>1 DEF RefillOK
  <2> QED
    BY <1>1, <1>2, <2>2, OthersRefill
<1>3. ASSUME frames' = [frames EXCEPT ![t] = <<>>], debris' = debris,
             \A u \in Thread \ {t} : phase'[u] = phase[u], phase'[t] # "run"
      PROVE  RefillInv'
  <2>1. frames'[t] = <<>> /\ \A u \in Thread \ {t} : frames'[u] = frames[u]
    BY <1>1, <1>3
  <2>2. RefillOK(t)'
    BY <1>1, <1>3, <2>1 DEF RefillOK
  <2> QED
    BY <1>1, <1>3, <2>1, <2>2, OthersRefill
<1>4. ASSUME NEW p \in [start : Nat, size : Nat], AddDebris(p), frames' = frames, phase' = phase,
             phase[t] \in Holding, phase[t] \in Filling => frames[t] = <<>>
      PROVE  RefillInv'
  <2>1. Large(debris')
    BY <1>1, <1>4, LargeAdded
  <2>2. RefillOK(t)'
    BY <1>1, <1>4 DEF RefillOK
  <2>3. lock = t
    BY <1>1, <1>4 DEF Standing
  <2> QED
    BY <1>4, <2>1, <2>2, <2>3, OthersRefill
<1>5. CASE ThreadStart(t)
  BY <1>1, <1>2, <1>5 DEF ThreadStart, pool, caches, Filling
<1>6. CASE GetNextObject(t)
  BY <1>1, <1>2, <1>6 DEF GetNextObject, pool
<1>7. CASE RunDry(t)
  BY <1>1, <1>3, <1>7 DEF RunDry, pool
<1>8. CASE Lock(t)
  <2>1. /\ phase[t] \in {"construct", "refill", "run"} /\ phase' = [phase EXCEPT ![t] = AfterLock[@]]
        /\ UNCHANGED <<debris, frames>>
    BY <1>8 DEF Lock, AfterLock, pool, caches
  <2>3. /\ AfterLock["construct"] = "construct locked" /\ AfterLock["refill"] = "refill locked"
        /\ AfterLock["run"] = "return"
    BY DEF AfterLock
  <2>4. phase'[t] = AfterLock[phase[t]]
    BY <1>1, <2>1
  <2>2. phase'[t] # "run" /\ (phase'[t] \in Filling => frames[t] = <<>>)
    BY <1>1, <2>1, <2>3, <2>4 DEF Filling, Standing, Waiting
  <2> QED
    BY <1>1, <1>2, <2>1, <2>2
<1>9. CASE Carve(t)
  <2> DEFINE p == Piece(page * PageSize + next, MinNum)
  <2>1. /\ phase' = phase /\ debris' = debris /\ phase[t] \in Filling
        /\ frames' = [frames EXCEPT ![t] = <<p>>]
    BY <1>9 DEF Carve, Refilling, Filling
  <2>2. p \in PieceSet /\ p.size = MinNum
    <3>1. page * PageSize \in Nat /\ next \in Nat
      BY BegunObjects, Positive DEF IInv, PoolTypeOK, PageTypeOK
    <3> QED
      BY <3>1, Positive DEF Piece, PieceSet
  <2>3. Total(<<p>>) = MinNum /\ Len(<<p>>) = 1 /\ MinNum \in Nat
    BY <2>2, TotalOfOne, Positive
  <2> HIDE DEF p
  <2>4. frames'[t] = <<p>> /\ \A u \in Thread \ {t} : frames'[u] = frames[u]
    BY <1>1, <2>1
  <2>5. debris # <<>> => Total(debris) \in Nat
    BY TotalFront DEF IInv, PoolTypeOK, PiecesTypeOK
  <2>6. Total(debris) \in Nat
    BY <2>5, TotalNone
  <2>7. RefillOK(t)'
    <3>1. PICK q : q = <<p>>
      OBVIOUS
    <3>2. frames'[t] = q /\ Total(q) = MinNum /\ Len(q) = 1 /\ phase'[t] # "run" /\ debris' = debris
      BY <2>1, <2>3, <2>4, <3>1 DEF Filling
    <3> QED
      BY <2>3, <2>6, <3>2, EnoughFrames DEF RefillOK
  <2> QED
    BY <1>1, <2>1, <2>4, <2>7, OthersRefill
<1>10. CASE EnterDebrisMode(t)
  <2> DEFINE p == Piece(page * PageSize + next, Room)
  <2>1. p \in [start : Nat, size : Nat]
    <3>1. page * PageSize \in Nat /\ next \in Nat /\ next <= PageSize
      BY BegunObjects, Positive DEF IInv, PoolTypeOK, PageTypeOK
    <3> QED
      BY <3>1, Positive DEF Piece, Room
  <2> HIDE DEF p
  <2>2. AddDebris(p) /\ frames' = frames /\ phase' = phase /\ phase[t] \in Filling /\ frames[t] = <<>>
    BY <1>10 DEF EnterDebrisMode, Refilling, Filling, caches, p
  <2> QED
    BY <1>4, <2>1, <2>2 DEF Holding
<1>11. CASE TakeDebris(t)
  <2>1. Large(debris') /\ RefillOK(t)'
    BY <1>11, TakeDebrisRefills
  <2>2. phase' = phase /\ phase[t] \in Filling
        /\ frames' = [frames EXCEPT ![t] = Append(@, Last(debris))]
    BY <1>11 DEF TakeDebris, Refilling, Filling
  <2>3. lock = t
    BY <1>1, <2>2 DEF Standing, Holding
  <2>4. \A u \in Thread \ {t} : phase'[u] = phase[u] /\ frames'[u] = frames[u]
    BY <1>1, <2>2
  <2> QED
    BY <2>1, <2>3, <2>4, OthersRefill
<1>12. CASE NewPage(t) \/ FullError(t)
  BY <1>1, <1>2, <1>12 DEF NewPage, FullError, pool, caches
<1>13. CASE Unlock(t)
  <2>1. phase[t] \in Filling /\ Filled(t) /\ phase' = [phase EXCEPT ![t] = "run"]
        /\ UNCHANGED <<debris, frames>>
    BY <1>13 DEF Unlock, Refilling, Filling, pool
  <2> QED
    BY <1>1, <1>2, <2>1 DEF Filling
<1>14. CASE FreeUnuseObject(t)
  <2> DEFINE p == GivenBack(t)
  <2>1. p \in [start : Nat, size : Nat]
    <3>1. frame_id[t] \in frame_id[t] .. Len(frames[t])
      BY <1>1, <1>14, LeftFacts DEF FreeUnuseObject
    <3> QED
      BY <1>1, <3>1, LeftFacts DEF GivenBack
  <2> HIDE DEF p
  <2>2. AddDebris(p) /\ frames' = frames /\ phase' = phase /\ phase[t] = "return"
    BY <1>14 DEF FreeUnuseObject, p
  <2> QED
    BY <1>4, <2>1, <2>2 DEF Holding, Filling
<1>15. CASE ThreadEnd(t)
  BY <1>1, <1>3, <1>15 DEF ThreadEnd, pool
<1> QED
  BY <1>5, <1>6, <1>7, <1>8, <1>9, <1>10, <1>11, <1>12, <1>13, <1>14, <1>15 DEF Step

(* The invariant of the refills, from the one of the pieces.               *)
LEMMA RefillHolds == Spec => []RefillInv
<1>1. IInv /\ RefillInv /\ [Next]_vars => RefillInv'
  <2> SUFFICES ASSUME IInv, RefillInv, [Next]_vars PROVE RefillInv'
    OBVIOUS
  <2>1. CASE UNCHANGED vars
    BY <2>1 DEF vars, pool, caches, RefillInv, RefillOK, Large
  <2> QED
    BY <2>1, StepRefills DEF Next
<1> QED
  BY <1>1, RefillInit, InvHolds, PTL DEF Spec

(* A refill never collects more pieces than a thread has frames for, and a *)
(* thread goes on only with as many objects as it asked for.               *)
THEOREM RefillsFit == Spec => []RefillFits
<1>1. RefillInv => RefillFits
  BY DEF RefillInv, RefillOK, RefillFits
<1> QED
  BY <1>1, RefillHolds, PTL
=============================================================================
