-------------------------- MODULE SplayTreeProofs --------------------------
(***************************************************************************)
(* The splay trees of callees are search trees at every step: proofs.      *)
(*                                                                         *)
(* Every node of a tree has bounds, one on each side, between which the    *)
(* keys of its subtree lie.  What is proved of a link is local: it leads   *)
(* to a node that has the bounds of that part, or nowhere, and then no key *)
(* of the tree lies there.  It says that the tree is ordered and that a    *)
(* search meets every node, with no word on paths or reachability, and a   *)
(* rotation, a cut or a new node changes the bounds of at most two nodes.  *)
(*                                                                         *)
(* In the loop of splay_tree_update there are three such trees, below the  *)
(* dummy node on either side of the key and below the root; of the two     *)
(* innermost nodes the link that is free is the only one that says         *)
(* nothing, as it is set when the next node is cut off.                    *)
(***************************************************************************)
EXTENDS SplayTree, DataInduction

Sides == {"left", "right"}

(* x lies on side s of y.                                                  *)
Beyond(s, x, y) == IF s = "left" THEN x < y ELSE y < x

(* A number beyond all keys, and what bounds a whole tree on a side.       *)
Far == CHOOSE w \in Nat : \A kk \in Key : kk < w
End(t) == IF t = "left" THEN -1 ELSE Far

(* The keys below node n on side s lie between its own key and the bound   *)
(* it has on that side.  What is collected below the dummy node on a side  *)
(* lies between the key and the end on the other side.                     *)
Edge(kf, n, s) == IF n = Dummy THEN End(Other(s)) ELSE kf[n]
InPart(kf, bnd, n, s, x) == Beyond(s, x, Edge(kf, n, s)) /\ Beyond(Other(s), x, bnd[n][s])
Inside(b, x) == \A t \in Sides : Beyond(Other(t), x, b[t])

(* Link m from n on side s: its node has the bounds of that part, or there *)
(* is none and no key of A in that part.                                   *)
Leads(A, kf, bnd, n, s, m) ==
  IF m = NULL THEN \A y \in A : ~ InPart(kf, bnd, n, s, kf[y])
  ELSE m \in A /\ bnd[m][s] = bnd[n][s] /\ bnd[m][Other(s)] = Edge(kf, n, s)

(* The nodes A have different keys, within their bounds.                   *)
Ordered(A, links, kf, bnd) ==
  /\ A \subseteq SplayNode \ {Dummy}
  /\ links \in [SplayNode -> [Sides -> SplayNode \cup {NULL}]]
  /\ kf \in [SplayNode -> Nat]
  /\ bnd \in [SplayNode -> [Sides -> Int]]
  /\ \A n \in A : kf[n] \in Key /\ Inside(bnd[n], kf[n])
  /\ \A m, n \in A : kf[m] = kf[n] => m = n

(* Search tree A with root r.                                              *)
Tree(A, links, kf, bnd, r) ==
  /\ Ordered(A, links, kf, bnd)
  /\ r \in A
  /\ \A t \in Sides : bnd[r][t] = End(t)
  /\ \A n \in A, s \in Sides : Leads(A, kf, bnd, n, s, links[n][s])

(* The loop at root r: what is left of the tree lies between the nodes mx, *)
(* each the innermost of its part, and the next one cut off goes to its    *)
(* free side.                                                              *)
Loop(A, links, kf, bnd, mx, r, x) ==
  /\ Ordered(A, links, kf, bnd)
  /\ x \in Key
  /\ r \in A
  /\ mx \in [Sides -> A \cup {Dummy}]
  /\ \A s \in Sides : bnd[Dummy][s] = x /\ bnd[mx[s]][s] = x
  /\ \A s \in Sides : bnd[r][Other(s)] = Edge(kf, mx[s], s)
  /\ Inside(bnd[r], x)
  /\ \A n \in A \cup {Dummy}, s \in Sides : n # mx[s] => Leads(A, kf, bnd, n, s, links[n][s])

-----------------------------------------------------------------------------
LEMMA FarBeyond == Far \in Nat /\ \A kk \in Key : kk < Far
<1>1. \E w \in Nat : \A kk \in Key : kk < w
  <2>1. CASE Key = {}
    BY <2>1
  <2>2. CASE Key # {}
    <3>1. PICK m \in Key : \A y \in Key : y <= m
      BY <2>2, TreeAssumption, MaxOfFinite
    <3> QED
      BY <3>1, TreeAssumption
  <2> QED
    BY <2>1, <2>2
<1> QED
  BY <1>1 DEF Far

LEMMA SideFacts ==
  /\ Other("left") = "right" /\ Other("right") = "left"
  /\ \A s \in Sides : Other(s) \in Sides /\ Other(s) # s /\ Other(Other(s)) = s
  /\ \A s, t \in Sides : t = s \/ t = Other(s)
BY DEF Sides, Other

LEMMA NodeFacts == SplayNode \subseteq Nat /\ Dummy \in SplayNode /\ NULL \notin SplayNode
<1>1. Cardinality(Caller) \in Nat /\ Cardinality(Key) \in Nat
  BY TreeAssumption, FS_CardinalityType
<1>2. Cardinality(Caller) * Cardinality(Key) \in Nat
  BY <1>1
<1> QED
  BY <1>2, TreeAssumption DEF SplayNode, Dummy

(* A part is known by its edge.                                            *)
LEMMA EdgeInjective ==
  ASSUME NEW A, NEW links, NEW kf, NEW bnd, Ordered(A, links, kf, bnd),
         NEW m \in A \cup {Dummy}, NEW n \in A \cup {Dummy}, NEW s \in Sides,
         Edge(kf, m, s) = Edge(kf, n, s)
  PROVE  m = n
<1>1. \A y \in A : kf[y] \in Key /\ y # Dummy
  BY DEF Ordered
<1>2. \A y \in A : kf[y] \in Nat /\ kf[y] < Far /\ Far \in Nat /\ y # Dummy
  BY <1>1, FarBeyond, TreeAssumption
<1>3. \A y \in A : \A t \in Sides : kf[y] # End(t)
  BY <1>2 DEF End
<1>4. CASE m = Dummy /\ n # Dummy
  BY <1>3, <1>4, SideFacts DEF Edge
<1>5. CASE m # Dummy /\ n = Dummy
  BY <1>3, <1>5, SideFacts DEF Edge
<1>6. CASE m # Dummy /\ n # Dummy
  BY <1>6 DEF Edge, Ordered
<1> QED
  BY <1>4, <1>5, <1>6

(* What the order needs.                                                   *)
LEMMA Order ==
  ASSUME NEW s \in Sides, NEW x \in Int, NEW y \in Int, NEW z \in Int
  PROVE  /\ ~ Beyond(s, x, x)
         /\ Beyond(s, x, y) /\ Beyond(s, y, z) => Beyond(s, x, z)
         /\ Beyond(s, x, y) <=> Beyond(Other(s), y, x)
         /\ Beyond(s, x, y) => x # y /\ ~ Beyond(Other(s), x, y)
         /\ x # y => Beyond(s, x, y) \/ Beyond(Other(s), x, y)
BY DEF Beyond, Other, Sides

LEMMA InsideFacts ==
  ASSUME NEW b, NEW x, NEW s \in Sides
  PROVE  Inside(b, x) <=> Beyond(Other(s), x, b[s]) /\ Beyond(s, x, b[Other(s)])
BY DEF Inside, Other, Sides

-----------------------------------------------------------------------------
(* The loop.                                                               *)
LEMMA LoopFacts ==
  ASSUME NEW A, NEW links, NEW kf, NEW bnd, NEW mx, NEW r, NEW x,
         Loop(A, links, kf, bnd, mx, r, x)
  PROVE  /\ x \in Nat
         /\ \A n \in A : kf[n] \in Nat /\ n \in SplayNode /\ n # Dummy /\ n # NULL
         /\ \A n \in A \cup {Dummy}, t \in Sides : n \in SplayNode /\ bnd[n][t] \in Int
         /\ \A n \in A \cup {Dummy}, t \in Sides : Edge(kf, n, t) \in Int
         /\ \A t \in Sides : mx[t] \in A \cup {Dummy}
<1>1. /\ A \subseteq SplayNode \ {Dummy} /\ kf \in [SplayNode -> Nat]
      /\ bnd \in [SplayNode -> [Sides -> Int]] /\ x \in Key
      /\ mx \in [Sides -> A \cup {Dummy}]
  BY DEF Loop, Ordered
<1>2. \A t \in Sides : End(Other(t)) \in Int
  BY FarBeyond DEF End
<1> QED
  BY <1>1, <1>2, NodeFacts, TreeAssumption DEF Edge

(* The root is not one of the two innermost nodes, nor is its child on the *)
(* key's side, and no other link leads to either.                          *)
LEMMA RootApart ==
  ASSUME NEW A, NEW links, NEW kf, NEW bnd, NEW mx, NEW r, NEW x,
         Loop(A, links, kf, bnd, mx, r, x), NEW t \in Sides
  PROVE  /\ r # mx[t]
         /\ \A n \in A \cup {Dummy} : n # mx[t] => links[n][t] # r
<1>1. /\ r \in A /\ bnd[r][Other(t)] = Edge(kf, mx[t], t) /\ Inside(bnd[r], kf[r])
      /\ mx[t] \in A \cup {Dummy} /\ Ordered(A, links, kf, bnd)
  BY DEF Loop, Ordered
<1>2. r # mx[t]
  <2>1. Beyond(t, kf[r], bnd[r][Other(t)])
    BY <1>1, SideFacts DEF Inside
  <2>2. kf[r] # bnd[r][Other(t)]
    BY <1>1, <2>1, LoopFacts, Order, SideFacts
  <2>3. r # Dummy
    BY <1>1, LoopFacts
  <2> QED
    BY <1>1, <2>2, <2>3 DEF Edge
<1>3. ASSUME NEW n \in A \cup {Dummy}, n # mx[t], links[n][t] = r PROVE FALSE
  <2>1. Leads(A, kf, bnd, n, t, r) /\ r # NULL
    BY <1>1, <1>3, LoopFacts DEF Loop
  <2>2. Edge(kf, n, t) = Edge(kf, mx[t], t)
    BY <1>1, <2>1 DEF Leads
  <2> QED
    BY <1>1, <1>3, <2>2, EdgeInjective
<1> QED
  BY <1>2, <1>3

LEMMA ChildApart ==
  ASSUME NEW A, NEW links, NEW kf, NEW bnd, NEW mx, NEW r, NEW x,
         Loop(A, links, kf, bnd, mx, r, x), NEW s \in Sides, links[r][s] # NULL
  PROVE  LET m == links[r][s]
         IN  /\ m \in A /\ m # r
             /\ bnd[m][s] = bnd[r][s] /\ bnd[m][Other(s)] = kf[r]
             /\ Inside(bnd[m], kf[m])
             /\ \A t \in Sides : m # mx[t]
             /\ \A n \in A \cup {Dummy}, t \in Sides :
                  n # mx[t] /\ links[n][t] = m => n = r /\ t = s
<1> DEFINE m == links[r][s]
           o == Other(s)
<1>1. /\ r \in A /\ \A t \in Sides : bnd[r][Other(t)] = Edge(kf, mx[t], t)
      /\ \A n \in A : Inside(bnd[n], kf[n])
      /\ \A t \in Sides : mx[t] \in A \cup {Dummy}
      /\ Ordered(A, links, kf, bnd)
  BY DEF Loop, Ordered
<1>2. r # mx[s] /\ r # Dummy
  BY <1>1, RootApart, LoopFacts
<1>3. Leads(A, kf, bnd, r, s, m)
  BY <1>1, <1>2 DEF Loop
<1> HIDE DEF m
<1>4. m \in A /\ bnd[m][s] = bnd[r][s] /\ bnd[m][o] = kf[r] /\ m # Dummy
  BY <1>2, <1>3, LoopFacts DEF Leads, Edge, m
<1>5. Inside(bnd[m], kf[m])
  BY <1>1, <1>4
<1>6. o \in Sides /\ Other(o) = s /\ o # s /\ \A t \in Sides : t = s \/ t = o
  BY SideFacts
<1>7. /\ kf[m] \in Int /\ kf[r] \in Int /\ bnd[r][o] \in Int /\ bnd[r][s] \in Int
  BY <1>1, <1>4, <1>6, LoopFacts
<1>8. Beyond(s, kf[m], kf[r]) /\ Beyond(o, kf[m], bnd[r][s]) /\ Beyond(s, kf[r], bnd[r][o])
  <2>1. Inside(bnd[r], kf[r])
    BY <1>1
  <2> QED
    BY <1>4, <1>5, <1>6, <2>1 DEF Inside
<1>9. kf[m] # kf[r] /\ kf[m] # bnd[r][o] /\ kf[m] # bnd[r][s]
  BY <1>6, <1>7, <1>8, Order
<1>10. ASSUME NEW t \in Sides PROVE m # mx[t]
  <2>1. Other(t) = o \/ Other(t) = s
    BY <1>6
  <2>2. kf[m] # Edge(kf, mx[t], t)
    BY <1>1, <1>9, <2>1
  <2> QED
    BY <1>4, <2>2 DEF Edge
<1>11. ASSUME NEW n \in A \cup {Dummy}, NEW t \in Sides, n # mx[t], links[n][t] = m
       PROVE  n = r /\ t = s
  <2>1. Leads(A, kf, bnd, n, t, m)
    BY <1>11 DEF Loop
  <2>2. m # NULL
    BY <1>4, LoopFacts
  <2>3. bnd[m][t] = bnd[n][t] /\ bnd[m][Other(t)] = Edge(kf, n, t)
    BY <2>1, <2>2 DEF Leads
  <2>4. CASE t = s
    <3>1. Edge(kf, n, s) = Edge(kf, r, s)
      BY <1>2, <1>4, <2>3, <2>4 DEF Edge
    <3> QED
      BY <1>1, <2>4, <3>1, EdgeInjective
  <2>5. CASE t = o
    <3>1. Edge(kf, n, t) = Edge(kf, mx[t], t)
      BY <1>1, <1>4, <1>6, <2>3, <2>5
    <3> QED
      BY <1>1, <1>11, <3>1, EdgeInjective
  <2> QED
    BY <1>6, <2>4, <2>5
<1> QED
  BY <1>4, <1>5, <1>9, <1>10, <1>11 DEF m

(* A rotation keeps the loop's invariant: only the root and its child get  *)
(* other bounds.                                                           *)
LEMMA RotateKeeps ==
  ASSUME NEW A, NEW links, NEW kf, NEW bnd, NEW mx, NEW r, NEW x,
         Loop(A, links, kf, bnd, mx, r, x), NEW s \in Sides, links[r][s] # NULL
  PROVE  \E b2 : Loop(A, Rotate(links, r, s), kf, b2, mx, links[r][s], x)
<1> DEFINE m == links[r][s]
           o == Other(s)
           l2 == Rotate(links, r, s)
           b2 == [bnd EXCEPT ![m] = bnd[r], ![r][s] = kf[m]]
<1>1. /\ r \in A /\ \A t \in Sides : bnd[r][Other(t)] = Edge(kf, mx[t], t)
      /\ \A n \in A : Inside(bnd[n], kf[n])
      /\ Ordered(A, links, kf, bnd) /\ x \in Key /\ mx \in [Sides -> A \cup {Dummy}]
      /\ \A t \in Sides : bnd[Dummy][t] = x /\ bnd[mx[t]][t] = x
      /\ Inside(bnd[r], x)
      /\ \A n \in A \cup {Dummy}, t \in Sides : n # mx[t] => Leads(A, kf, bnd, n, t, links[n][t])
  BY DEF Loop, Ordered
<1>2. /\ m \in A /\ m # r
      /\ bnd[m][s] = bnd[r][s] /\ bnd[m][o] = kf[r]
      /\ \A t \in Sides : m # mx[t]
      /\ \A n \in A \cup {Dummy}, t \in Sides : n # mx[t] /\ links[n][t] = m => n = r /\ t = s
  BY ChildApart
<1>3. /\ \A t \in Sides : r # mx[t]
      /\ \A n \in A \cup {Dummy}, t \in Sides : n # mx[t] => links[n][t] # r
  BY RootApart
<1>4. o \in Sides /\ Other(o) = s /\ o # s /\ \A t \in Sides : t = s \/ t = o
  BY SideFacts
<1>5. /\ links \in [SplayNode -> [Sides -> SplayNode \cup {NULL}]]
      /\ bnd \in [SplayNode -> [Sides -> Int]] /\ kf \in [SplayNode -> Nat]
      /\ A \subseteq SplayNode \ {Dummy} /\ Dummy \in SplayNode /\ NULL \notin SplayNode
  BY <1>1, NodeFacts DEF Ordered
<1>6. /\ kf[m] \in Int /\ kf[r] \in Int /\ x \in Int
      /\ bnd[m][o] \in Int /\ bnd[m][s] \in Int /\ bnd[r][o] \in Int /\ bnd[r][s] \in Int
  BY <1>1, <1>2, <1>4, LoopFacts
<1>0. l2 = [links EXCEPT ![r][s] = links[m][o], ![m][o] = r]
  BY DEF Rotate
<1> HIDE DEF m, o, l2
<1>7. /\ l2 \in [SplayNode -> [Sides -> SplayNode \cup {NULL}]]
      /\ l2[r][s] = links[m][o] /\ l2[m][o] = r
      /\ l2[r][o] = links[r][o] /\ l2[m][s] = links[m][s]
      /\ \A n \in SplayNode : n # r /\ n # m => l2[n] = links[n]
  <2>1. r \in SplayNode /\ m \in SplayNode /\ m # r /\ s \in Sides /\ o \in Sides /\ o # s
        /\ links[m][o] \in SplayNode \cup {NULL}
    BY <1>1, <1>2, <1>4, <1>5
  <2> DEFINE la == [links EXCEPT ![r][s] = links[m][o]]
  <2>2. /\ la \in [SplayNode -> [Sides -> SplayNode \cup {NULL}]]
        /\ la[r][s] = links[m][o] /\ la[r][o] = links[r][o]
        /\ \A n \in SplayNode : n # r => la[n] = links[n]
    BY <1>5, <2>1
  <2>3. l2 = [la EXCEPT ![m][o] = r]
    BY <1>0
  <2> HIDE DEF la
  <2> QED
    BY <2>1, <2>2, <2>3
<1>8. /\ b2 \in [SplayNode -> [Sides -> Int]]
      /\ b2[m] = bnd[r] /\ b2[r][s] = kf[m] /\ b2[r][o] = bnd[r][o]
      /\ \A n \in SplayNode : n # r /\ n # m => b2[n] = bnd[n]
  BY <1>1, <1>2, <1>4, <1>5, <1>6
<1> HIDE DEF l2, b2
<1>9. Inside(b2[r], kf[r]) /\ Inside(b2[m], kf[m])
  <2>1. /\ Beyond(s, kf[m], bnd[m][o]) /\ Beyond(o, kf[m], bnd[m][s])
        /\ Beyond(s, kf[r], bnd[r][o]) /\ Beyond(o, kf[r], bnd[r][s])
    BY <1>1, <1>2, <1>4, InsideFacts DEF o
  <2>2. Beyond(o, kf[r], kf[m]) /\ Beyond(s, kf[m], bnd[r][o])
    BY <1>2, <1>4, <1>6, <2>1, Order
  <2> QED
    BY <1>2, <1>4, <1>8, <2>1, <2>2, InsideFacts DEF o
<1>10. Ordered(A, l2, kf, b2)
  <2>1. \A n \in A : kf[n] \in Key /\ Inside(b2[n], kf[n])
    <3>1. \A n \in A : kf[n] \in Key
      BY <1>1 DEF Ordered
    <3> QED
      BY <1>1, <1>5, <1>8, <1>9, <3>1
  <2> QED
    BY <1>1, <1>5, <1>7, <1>8, <2>1 DEF Ordered
<1>11. \A t \in Sides : b2[Dummy][t] = x /\ b2[mx[t]][t] = x
  BY <1>1, <1>2, <1>3, <1>5, <1>8
<1>12. \A t \in Sides : b2[m][Other(t)] = Edge(kf, mx[t], t)
  BY <1>1, <1>8
<1>13. Inside(b2[m], x)
  BY <1>1, <1>8
<1>14. ASSUME NEW n \in A \cup {Dummy}, NEW t \in Sides, n # mx[t]
       PROVE  Leads(A, kf, b2, n, t, l2[n][t])
  <2>1. CASE n # r /\ n # m
    <3>1. Leads(A, kf, bnd, n, t, links[n][t])
      BY <1>1, <1>14
    <3>2. links[n][t] # r /\ links[n][t] # m
      BY <1>2, <1>3, <1>14, <2>1
    <3> QED
      BY <1>5, <1>7, <1>8, <2>1, <3>1, <3>2 DEF Leads, InPart
  <2>2. CASE n = r /\ t = o
    <3>1. Leads(A, kf, bnd, r, o, links[r][o]) /\ links[r][o] # r /\ links[r][o] # m
      BY <1>1, <1>2, <1>3, <1>4, <1>14, <2>2
    <3> QED
      BY <1>1, <1>4, <1>5, <1>7, <1>8, <2>2, <3>1 DEF Leads, InPart
  <2>3. CASE n = m /\ t = s
    <3>1. Leads(A, kf, bnd, m, s, links[m][s]) /\ links[m][s] # r /\ links[m][s] # m
      BY <1>1, <1>2, <1>3, <1>4, <1>14, <2>3
    <3> QED
      BY <1>1, <1>2, <1>4, <1>5, <1>7, <1>8, <2>3, <3>1 DEF Leads, InPart
  <2>4. CASE n = m /\ t = o
    <3>1. m # Dummy /\ r # NULL
      BY <1>1, <1>2, <1>5
    <3> QED
      BY <1>1, <1>2, <1>4, <1>7, <1>8, <2>4, <3>1 DEF Leads, Edge
  <2>5. CASE n = r /\ t = s
    <3>1. Leads(A, kf, bnd, m, o, links[m][o]) /\ links[m][o] # r /\ links[m][o] # m
      BY <1>1, <1>2, <1>3, <1>4
    <3>2. m # Dummy /\ r # Dummy
      BY <1>1, <1>2, <1>5
    <3>3. Edge(kf, m, o) = kf[m] /\ Edge(kf, r, s) = kf[r]
      BY <3>2 DEF Edge
    <3>4. CASE links[m][o] = NULL
      <4>1. ASSUME NEW y \in A, InPart(kf, b2, r, s, kf[y]) PROVE FALSE
        <5>1. Beyond(s, kf[y], kf[r]) /\ Beyond(o, kf[y], kf[m]) /\ kf[y] \in Int
          BY <1>4, <1>8, <3>3, <4>1, LoopFacts DEF InPart, o
        <5>2. InPart(kf, bnd, m, o, kf[y])
          BY <1>2, <1>4, <3>3, <5>1 DEF InPart
        <5> QED
          BY <3>1, <3>4, <5>2 DEF Leads
      <4> QED
        BY <1>7, <2>5, <3>4, <4>1 DEF Leads
    <3>5. CASE links[m][o] # NULL
      <4>1. links[m][o] \in A /\ bnd[links[m][o]][o] = kf[r] /\ bnd[links[m][o]][s] = kf[m]
        BY <1>2, <1>4, <3>1, <3>3, <3>5 DEF Leads
      <4>2. b2[links[m][o]] = bnd[links[m][o]]
        BY <1>5, <1>8, <3>1, <4>1
      <4> QED
        BY <1>4, <1>7, <1>8, <2>5, <3>3, <3>5, <4>1, <4>2 DEF Leads, o
    <3> QED
      BY <3>4, <3>5
  <2> QED
    BY <1>4, <2>1, <2>2, <2>3, <2>4, <2>5
<1> QED
  <2>1. Loop(A, l2, kf, b2, mx, m, x)
    BY <1>1, <1>2, <1>10, <1>11, <1>12, <1>13, <1>14 DEF Loop
  <2> QED
    BY <2>1 DEF l2, m

(* No node has the key if the root has no child on the key's side.         *)
LEMMA KeyMissing ==
  ASSUME NEW A, NEW links, NEW kf, NEW bnd, NEW mx, NEW r, NEW x,
         Loop(A, links, kf, bnd, mx, r, x), NEW s \in Sides, links[r][s] = NULL,
         Beyond(s, x, kf[r])
  PROVE  /\ \A y \in A : ~ InPart(kf, bnd, r, s, kf[y]) /\ kf[y] # x
         /\ Beyond(Other(s), x, bnd[r][s])
         /\ Edge(kf, r, s) = kf[r]
<1>1. r \in A /\ r # mx[s] /\ r # Dummy
  BY RootApart, LoopFacts DEF Loop
<1>2. Leads(A, kf, bnd, r, s, NULL)
  BY <1>1 DEF Loop
<1>3. \A y \in A : ~ InPart(kf, bnd, r, s, kf[y])
  BY <1>2 DEF Leads
<1>4. Beyond(Other(s), x, bnd[r][s])
  BY InsideFacts DEF Loop
<1>5. Edge(kf, r, s) = kf[r]
  BY <1>1 DEF Edge
<1>6. InPart(kf, bnd, r, s, x)
  BY <1>4, <1>5 DEF InPart
<1> QED
  BY <1>3, <1>4, <1>5, <1>6

(* Then no other free link is the key's place.                             *)
LEMMA PlaceUnique ==
  ASSUME NEW A, NEW links, NEW kf, NEW bnd, NEW mx, NEW r, NEW x,
         Loop(A, links, kf, bnd, mx, r, x), NEW s \in Sides, links[r][s] = NULL,
         Beyond(s, x, kf[r]),
         NEW n \in A \cup {Dummy}, NEW t \in Sides, n # mx[t], links[n][t] = NULL,
         InPart(kf, bnd, n, t, x)
  PROVE  n = r /\ t = s
<1> DEFINE o == Other(s)
<1>1. /\ \A y \in A : ~ InPart(kf, bnd, r, s, kf[y]) /\ kf[y] # x
      /\ Beyond(o, x, bnd[r][s]) /\ Edge(kf, r, s) = kf[r]
  BY KeyMissing
<1>2. Leads(A, kf, bnd, n, t, NULL)
  BY DEF Loop
<1>3. \A y \in A : ~ InPart(kf, bnd, n, t, kf[y])
  BY <1>2 DEF Leads
<1>4. o \in Sides /\ Other(o) = s /\ o # s /\ (t = s \/ t = o)
  BY SideFacts
<1>5. Beyond(t, x, Edge(kf, n, t)) /\ Beyond(Other(t), x, bnd[n][t])
  BY DEF InPart
<1>6. /\ x \in Int /\ \A y \in A : kf[y] \in Int /\ y # Dummy
      /\ r \in A /\ bnd[r][s] \in Int /\ bnd[r][s] = Edge(kf, mx[o], o)
      /\ bnd[n][t] \in Int /\ Edge(kf, n, t) \in Int /\ mx[o] \in A \cup {Dummy}
      /\ Ordered(A, links, kf, bnd)
  BY <1>4, LoopFacts DEF Loop
<1>7. n \in A /\ n # Dummy /\ Edge(kf, n, t) = kf[n]
  <2>1. n # Dummy
    <3>1. bnd[Dummy][t] = x
      BY DEF Loop
    <3> QED
      BY <1>4, <1>5, <1>6, <3>1, Order, SideFacts
  <2> QED
    BY <2>1 DEF Edge
<1> HIDE DEF o
<1>8. CASE t = s
  <2>1. Beyond(s, x, kf[n]) /\ Beyond(o, x, bnd[n][s]) /\ bnd[n][s] \in Int
    BY <1>5, <1>6, <1>7, <1>8 DEF o
  <2>2. ~ Beyond(s, kf[n], kf[r])
    <3>1. SUFFICES ASSUME Beyond(s, kf[n], kf[r]) PROVE FALSE
      OBVIOUS
    <3>2. Beyond(o, kf[n], bnd[r][s])
      <4>1. Beyond(o, kf[n], x)
        BY <1>4, <1>6, <1>7, <2>1, Order
      <4> QED
        BY <1>1, <1>4, <1>6, <1>7, <4>1, Order DEF o
    <3> QED
      BY <1>1, <1>7, <3>1, <3>2 DEF InPart, o
  <2>3. ~ Beyond(s, kf[r], kf[n])
    <3>1. SUFFICES ASSUME Beyond(s, kf[r], kf[n]) PROVE FALSE
      OBVIOUS
    <3>2. Beyond(o, kf[r], bnd[n][s])
      <4>1. Beyond(o, kf[r], x)
        BY <1>4, <1>6, <1>7, Order
      <4> QED
        BY <1>4, <1>6, <2>1, <4>1, Order
    <3> QED
      BY <1>3, <1>6, <1>7, <1>8, <3>1, <3>2 DEF InPart, o
  <2>4. kf[n] = kf[r]
    BY <1>4, <1>6, <1>7, <2>2, <2>3, Order
  <2> QED
    BY <1>6, <1>7, <1>8, <2>4 DEF Ordered
<1>9. CASE t = o
  <2>1. Beyond(o, x, kf[n]) /\ Beyond(s, x, bnd[n][o]) /\ bnd[n][o] \in Int
    BY <1>4, <1>5, <1>6, <1>7, <1>9
  <2>2. Beyond(s, kf[n], kf[r])
    <3>1. Beyond(s, kf[n], x)
      BY <1>4, <1>6, <1>7, <2>1, Order
    <3> QED
      BY <1>6, <1>7, <3>1, Order
  <2>3. ~ Beyond(o, kf[n], bnd[r][s])
    BY <1>1, <1>7, <2>2 DEF InPart, o
  <2>4. mx[o] \in A
    <3>1. SUFFICES ASSUME mx[o] = Dummy PROVE FALSE
      BY <1>6
    <3>2. bnd[r][s] = End(s)
      BY <1>4, <1>6, <3>1 DEF Edge
    <3>3. kf[n] \in Key /\ kf[n] < Far
      BY <1>6, <1>7, FarBeyond DEF Ordered
    <3>4. kf[n] \in Nat
      BY <3>3, TreeAssumption
    <3>5. Beyond(o, kf[n], End(s))
      BY <3>3, <3>4, FarBeyond DEF Beyond, End, o, Other, Sides
    <3> QED
      BY <2>3, <3>2, <3>5
  <2>5. bnd[r][s] = kf[mx[o]] /\ kf[mx[o]] \in Int
    BY <1>6, <2>4 DEF Edge
  <2>6. kf[mx[o]] # kf[n]
    BY <1>6, <1>7, <1>9, <2>4 DEF Ordered
  <2>7. Beyond(o, kf[mx[o]], kf[n])
    BY <1>4, <1>6, <1>7, <2>3, <2>5, <2>6, Order
  <2>8. Beyond(s, kf[mx[o]], bnd[n][o])
    <3>1. Beyond(s, kf[mx[o]], x)
      BY <1>1, <1>4, <1>6, <2>5, Order DEF o
    <3> QED
      BY <1>6, <2>1, <2>5, <3>1, Order
  <2>9. InPart(kf, bnd, n, t, kf[mx[o]])
    BY <1>4, <1>7, <1>9, <2>7, <2>8 DEF InPart
  <2> QED
    BY <1>3, <2>4, <2>9
<1> QED
  BY <1>4, <1>8, <1>9

(* The new node, hung in there, keeps the loop's invariant.                *)
LEMMA InsertKeeps ==
  ASSUME NEW A, NEW links, NEW kf, NEW bnd, NEW mx, NEW r, NEW x,
         Loop(A, links, kf, bnd, mx, r, x), NEW s \in Sides, links[r][s] = NULL,
         Beyond(s, x, kf[r]),
         NEW v \in SplayNode, v \notin A, v # Dummy, \A t \in Sides : links[v][t] = NULL
  PROVE  \E b2 : Loop(A \cup {v}, [links EXCEPT ![r][s] = v], [kf EXCEPT ![v] = x], b2, mx, r, x)
<1> DEFINE o == Other(s)
           l2 == [links EXCEPT ![r][s] = v]
           k2 == [kf EXCEPT ![v] = x]
           b2 == [bnd EXCEPT ![v] = [t \in Sides |-> IF t = s THEN bnd[r][s] ELSE kf[r]]]
           B == A \cup {v}
<1>1. /\ r \in A /\ \A t \in Sides : bnd[r][Other(t)] = Edge(kf, mx[t], t)
      /\ \A n \in A : Inside(bnd[n], kf[n])
      /\ Ordered(A, links, kf, bnd) /\ x \in Key /\ mx \in [Sides -> A \cup {Dummy}]
      /\ \A t \in Sides : bnd[Dummy][t] = x /\ bnd[mx[t]][t] = x
      /\ Inside(bnd[r], x)
      /\ \A n \in A \cup {Dummy}, t \in Sides : n # mx[t] => Leads(A, kf, bnd, n, t, links[n][t])
  BY DEF Loop, Ordered
<1>2. /\ \A y \in A : ~ InPart(kf, bnd, r, s, kf[y]) /\ kf[y] # x
      /\ Beyond(o, x, bnd[r][s]) /\ Edge(kf, r, s) = kf[r]
  BY KeyMissing
<1>3. o \in Sides /\ Other(o) = s /\ o # s /\ \A t \in Sides : t = s \/ t = o
  BY SideFacts
<1>4. /\ links \in [SplayNode -> [Sides -> SplayNode \cup {NULL}]]
      /\ bnd \in [SplayNode -> [Sides -> Int]] /\ kf \in [SplayNode -> Nat]
      /\ A \subseteq SplayNode \ {Dummy} /\ Dummy \in SplayNode /\ NULL \notin SplayNode
  BY <1>1, NodeFacts DEF Ordered
<1>5. /\ \A y \in A : kf[y] \in Int
      /\ x \in Nat /\ bnd[r][s] \in Int
      /\ \A n \in A \cup {Dummy}, t \in Sides : Edge(kf, n, t) \in Int /\ bnd[n][t] \in Int
  BY <1>1, LoopFacts
<1>6. /\ l2 \in [SplayNode -> [Sides -> SplayNode \cup {NULL}]]
      /\ l2[r][s] = v
      /\ \A n \in SplayNode, t \in Sides : n # r \/ t # s => l2[n][t] = links[n][t]
  BY <1>1, <1>4
<1>7. k2 \in [SplayNode -> Nat] /\ k2[v] = x /\ \A n \in SplayNode : n # v => k2[n] = kf[n]
  BY <1>4, <1>5
<1>8. /\ b2 \in [SplayNode -> [Sides -> Int]]
      /\ b2[v][s] = bnd[r][s] /\ b2[v][o] = kf[r]
      /\ \A n \in SplayNode : n # v => b2[n] = bnd[n]
  BY <1>1, <1>3, <1>4, <1>5
<1> HIDE DEF l2, k2, b2, o
<1>9. \A y \in A : kf[y] \in Key
  BY <1>1 DEF Ordered
<1>10. Ordered(B, l2, k2, b2)
  <2>1. Inside(b2[v], k2[v])
    BY <1>1, <1>2, <1>3, <1>7, <1>8, InsideFacts DEF o
  <2>2. \A n \in B : k2[n] \in Key /\ Inside(b2[n], k2[n])
    BY <1>1, <1>4, <1>7, <1>8, <1>9, <2>1
  <2>3. \A m, n \in A : kf[m] = kf[n] => m = n
    BY <1>1 DEF Ordered
  <2>4. \A m, n \in B : k2[m] = k2[n] => m = n
    BY <1>2, <1>4, <1>7, <2>3
  <2> QED
    BY <1>4, <1>6, <1>7, <1>8, <2>2, <2>4 DEF Ordered
<1>11. \A n \in A \cup {Dummy}, t \in Sides : Edge(k2, n, t) = Edge(kf, n, t) /\ b2[n] = bnd[n] /\ n # v
  BY <1>4, <1>7, <1>8 DEF Edge
<1>12. ASSUME NEW n \in A \cup {Dummy}, NEW t \in Sides
       PROVE  \A y : InPart(k2, b2, n, t, y) <=> InPart(kf, bnd, n, t, y)
  BY <1>11 DEF InPart
<1>13. ASSUME NEW n \in B \cup {Dummy}, NEW t \in Sides, n # mx[t]
       PROVE  Leads(B, k2, b2, n, t, l2[n][t])
  <2>1. CASE n # v /\ ~ (n = r /\ t = s)
    <3>1. Leads(A, kf, bnd, n, t, links[n][t]) /\ n \in A \cup {Dummy} /\ l2[n][t] = links[n][t]
      BY <1>1, <1>4, <1>6, <1>13, <2>1
    <3>2. CASE links[n][t] # NULL
      <4>1. links[n][t] \in A
        BY <3>1, <3>2 DEF Leads
      <4>2. b2[links[n][t]] = bnd[links[n][t]] /\ b2[n] = bnd[n] /\ Edge(k2, n, t) = Edge(kf, n, t)
        BY <1>11, <3>1, <4>1
      <4> QED
        BY <3>1, <3>2, <4>1, <4>2 DEF Leads
    <3>3. CASE links[n][t] = NULL
      <4>1. ~ InPart(kf, bnd, n, t, x)
        BY <1>13, <2>1, <3>1, <3>3, PlaceUnique
      <4>2. \A y \in A : ~ InPart(kf, bnd, n, t, kf[y])
        BY <3>1, <3>3 DEF Leads
      <4>3. ASSUME NEW y \in B PROVE ~ InPart(k2, b2, n, t, k2[y])
        <5>1. CASE y = v
          BY <1>7, <1>12, <3>1, <4>1, <5>1
        <5>2. CASE y # v
          BY <1>4, <1>7, <1>12, <3>1, <4>2, <5>2
        <5> QED
          BY <5>1, <5>2
      <4> QED
        BY <3>1, <3>3, <4>3 DEF Leads
    <3> QED
      BY <3>2, <3>3
  <2>2. CASE n = r /\ t = s
    BY <1>1, <1>2, <1>4, <1>6, <1>8, <1>11, <2>2 DEF Leads, o
  <2>3. CASE n = v
    <3>1. l2[v][t] = NULL
      BY <1>1, <1>6
    <3>2. Edge(k2, v, t) = x
      BY <1>7 DEF Edge
    <3>3. ASSUME NEW y \in B, InPart(k2, b2, v, t, k2[y]) PROVE FALSE
      <4>1. Beyond(t, k2[y], x) /\ Beyond(Other(t), k2[y], b2[v][t])
        BY <3>2, <3>3 DEF InPart
      <4>2. y \in A /\ k2[y] = kf[y]
        <5>1. y # v
          BY <1>5, <1>7, <4>1, Order
        <5> QED
          BY <1>4, <1>7, <5>1
      <4>3. kf[y] \in Int /\ kf[r] \in Int
        BY <1>1, <1>5, <4>2
      <4>4. Beyond(s, kf[y], kf[r]) /\ Beyond(o, kf[y], bnd[r][s])
        <5>1. CASE t = s
          <6>1. Beyond(s, kf[y], x) /\ Beyond(o, kf[y], bnd[r][s])
            BY <1>8, <4>1, <4>2, <5>1 DEF o
          <6> QED
            BY <1>5, <4>3, <6>1, Order
        <5>2. CASE t = o
          <6>1. Beyond(o, kf[y], x) /\ Beyond(s, kf[y], kf[r])
            BY <1>3, <1>8, <4>1, <4>2, <5>2
          <6>2. Beyond(o, kf[y], bnd[r][s])
            BY <1>2, <1>3, <1>5, <4>3, <6>1, Order
          <6> QED
            BY <6>1, <6>2
        <5> QED
          BY <1>3, <5>1, <5>2
      <4> QED
        BY <1>2, <4>2, <4>4 DEF InPart, o
    <3> QED
      BY <2>3, <3>1, <3>3 DEF Leads
  <2> QED
    BY <2>1, <2>2, <2>3
<1>14. /\ \A t \in Sides : b2[Dummy][t] = x /\ b2[mx[t]][t] = x
       /\ \A t \in Sides : b2[r][Other(t)] = Edge(k2, mx[t], t)
       /\ Inside(b2[r], x)
  BY <1>1, <1>11
<1>15. r \in B /\ mx \in [Sides -> B \cup {Dummy}]
  BY <1>1
<1> QED
  <2>1. Loop(B, l2, k2, b2, mx, r, x)
    BY <1>1, <1>10, <1>13, <1>14, <1>15 DEF Loop
  <2> QED
    BY <2>1 DEF l2, k2

(* To cut off the root with what lies on the other side keeps it.          *)
LEMMA CutKeeps ==
  ASSUME NEW A, NEW links, NEW kf, NEW bnd, NEW mx, NEW r, NEW x,
         Loop(A, links, kf, bnd, mx, r, x), NEW s \in Sides, links[r][s] # NULL,
         Beyond(s, x, kf[r])
  PROVE  \E b2 : Loop(A, [links EXCEPT ![mx[s]][s] = r], kf, b2, [mx EXCEPT ![s] = r], links[r][s], x)
<1> DEFINE m == links[r][s]
           o == Other(s)
           l2 == [links EXCEPT ![mx[s]][s] = r]
           m2 == [mx EXCEPT ![s] = r]
           b2 == [bnd EXCEPT ![r][s] = x]
<1>1. /\ r \in A /\ \A t \in Sides : bnd[r][Other(t)] = Edge(kf, mx[t], t)
      /\ \A n \in A : Inside(bnd[n], kf[n])
      /\ Ordered(A, links, kf, bnd) /\ x \in Key /\ mx \in [Sides -> A \cup {Dummy}]
      /\ \A t \in Sides : bnd[Dummy][t] = x /\ bnd[mx[t]][t] = x
      /\ Inside(bnd[r], x)
      /\ \A n \in A \cup {Dummy}, t \in Sides : n # mx[t] => Leads(A, kf, bnd, n, t, links[n][t])
  BY DEF Loop, Ordered
<1>2. /\ m \in A /\ m # r
      /\ bnd[m][s] = bnd[r][s] /\ bnd[m][o] = kf[r]
      /\ \A t \in Sides : m # mx[t]
      /\ \A n \in A \cup {Dummy}, t \in Sides : n # mx[t] /\ links[n][t] = m => n = r /\ t = s
  BY ChildApart
<1>3. /\ \A t \in Sides : r # mx[t]
      /\ \A n \in A \cup {Dummy}, t \in Sides : n # mx[t] => links[n][t] # r
  BY RootApart
<1>4. o \in Sides /\ Other(o) = s /\ o # s /\ \A t \in Sides : t = s \/ t = o
  BY SideFacts
<1>5. /\ links \in [SplayNode -> [Sides -> SplayNode \cup {NULL}]]
      /\ bnd \in [SplayNode -> [Sides -> Int]] /\ kf \in [SplayNode -> Nat]
      /\ A \subseteq SplayNode \ {Dummy} /\ Dummy \in SplayNode /\ NULL \notin SplayNode
      /\ mx[s] \in SplayNode /\ r \in SplayNode /\ mx[s] \in A \cup {Dummy}
  BY <1>1, NodeFacts DEF Ordered
<1>6. x \in Int /\ kf[r] \in Int /\ bnd[r][o] \in Int /\ bnd[r][s] \in Int
  BY <1>1, <1>4, LoopFacts
<1> HIDE DEF m, o
<1>7. /\ l2 \in [SplayNode -> [Sides -> SplayNode \cup {NULL}]]
      /\ l2[mx[s]][s] = r
      /\ \A n \in SplayNode, t \in Sides : n # mx[s] \/ t # s => l2[n][t] = links[n][t]
  BY <1>5
<1>8. /\ b2 \in [SplayNode -> [Sides -> Int]]
      /\ b2[r][s] = x /\ b2[r][o] = bnd[r][o]
      /\ \A n \in SplayNode : n # r => b2[n] = bnd[n]
  BY <1>4, <1>5, <1>6
<1>9. /\ m2 \in [Sides -> A \cup {Dummy}] /\ m2[s] = r
      /\ \A t \in Sides : t # s => m2[t] = mx[t]
  BY <1>1
<1> HIDE DEF l2, b2, m2
<1>10. Ordered(A, l2, kf, b2)
  <2>1. Beyond(s, kf[r], bnd[r][o])
    BY <1>1, InsideFacts DEF o
  <2>2. Beyond(o, kf[r], x)
    BY <1>4, <1>6, Order DEF o
  <2>3. Inside(b2[r], kf[r])
    BY <1>8, <2>1, <2>2, InsideFacts DEF o
  <2>4. \A n \in A : Inside(b2[n], kf[n])
    BY <1>1, <1>5, <1>8, <2>3
  <2> QED
    BY <1>1, <1>5, <1>7, <1>8, <2>4 DEF Ordered
<1>11. \A t \in Sides : b2[Dummy][t] = x /\ b2[m2[t]][t] = x
  <2>1. r # Dummy
    BY <1>1, <1>5
  <2>2. \A t \in Sides : mx[t] \in SplayNode /\ mx[t] # r
    BY <1>1, <1>3, <1>5
  <2>3. \A t \in Sides : b2[Dummy][t] = x
    BY <1>1, <1>5, <1>8, <2>1
  <2>4. \A t \in Sides : t # s => b2[m2[t]][t] = x
    BY <1>1, <1>8, <1>9, <2>2
  <2> QED
    BY <1>8, <1>9, <2>3, <2>4
<1>12. \A t \in Sides : b2[m][Other(t)] = Edge(kf, m2[t], t)
  <2>1. b2[m] = bnd[m] /\ r # Dummy
    BY <1>1, <1>2, <1>5, <1>8
  <2>2. b2[m][o] = Edge(kf, m2[s], s)
    BY <1>2, <1>9, <2>1 DEF Edge
  <2>3. b2[m][s] = Edge(kf, m2[o], o)
    BY <1>1, <1>2, <1>4, <1>9, <2>1
  <2> QED
    BY <1>4, <2>2, <2>3 DEF o
<1>13. Inside(b2[m], x)
  <2>1. b2[m][o] = kf[r] /\ b2[m][s] = bnd[r][s]
    BY <1>2, <1>5, <1>8
  <2>2. Beyond(o, x, bnd[r][s])
    BY <1>1, InsideFacts DEF o
  <2> QED
    BY <2>1, <2>2, InsideFacts DEF o
<1>14. ASSUME NEW n \in A \cup {Dummy}, NEW t \in Sides, n # m2[t]
       PROVE  Leads(A, kf, b2, n, t, l2[n][t])
  <2>1. CASE n = mx[s] /\ t = s
    <3>1. r # NULL /\ bnd[r][o] = Edge(kf, mx[s], s) /\ b2[mx[s]][s] = x
      BY <1>1, <1>3, <1>5, <1>8 DEF o
    <3> QED
      BY <1>1, <1>7, <1>8, <2>1, <3>1 DEF Leads, o
  <2>2. CASE ~ (n = mx[s] /\ t = s)
    <3>1. n # mx[t] /\ n \in SplayNode
      BY <1>5, <1>9, <1>14, <2>2
    <3>2. /\ Leads(A, kf, bnd, n, t, links[n][t]) /\ links[n][t] # r
          /\ l2[n][t] = links[n][t]
      BY <1>1, <1>3, <1>7, <2>2, <3>1
    <3>3. b2[n][t] = bnd[n][t]
      BY <1>4, <1>8, <1>9, <1>14, <3>1
    <3> QED
      BY <1>5, <1>8, <3>2, <3>3 DEF Leads, InPart
  <2> QED
    BY <2>1, <2>2
<1> QED
  <2>1. Loop(A, l2, kf, b2, m2, m, x)
    BY <1>1, <1>2, <1>9, <1>10, <1>11, <1>12, <1>13, <1>14 DEF Loop
  <2> QED
    BY <2>1 DEF l2, m2, m

-----------------------------------------------------------------------------
(* Before the loop and after it.                                           *)
LEMMA KeyInEnds ==
  ASSUME NEW x \in Key, NEW t \in Sides
  PROVE  Beyond(Other(t), x, End(t))
<1>1. x \in Nat /\ x < Far /\ Far \in Nat
  BY FarBeyond, TreeAssumption
<1> QED
  BY <1>1 DEF Beyond, End, Other, Sides

LEMMA TreeStarts ==
  ASSUME NEW A, NEW links, NEW kf, NEW bnd, NEW r, NEW x \in Key, Tree(A, links, kf, bnd, r)
  PROVE  \E b2 : Loop(A, [links EXCEPT ![Dummy] = NoChildren], kf, b2, [left |-> Dummy, right |-> Dummy], r, x)
<1> DEFINE l2 == [links EXCEPT ![Dummy] = NoChildren]
           b2 == [bnd EXCEPT ![Dummy] = [t \in Sides |-> x]]
           mx == [left |-> Dummy, right |-> Dummy]
<1>1. /\ Ordered(A, links, kf, bnd) /\ r \in A /\ \A t \in Sides : bnd[r][t] = End(t)
      /\ \A n \in A, s \in Sides : Leads(A, kf, bnd, n, s, links[n][s])
  BY DEF Tree
<1>2. /\ links \in [SplayNode -> [Sides -> SplayNode \cup {NULL}]]
      /\ bnd \in [SplayNode -> [Sides -> Int]]
      /\ A \subseteq SplayNode \ {Dummy} /\ Dummy \in SplayNode /\ x \in Int
  BY <1>1, NodeFacts, TreeAssumption DEF Ordered
<1>3. NoChildren \in [Sides -> SplayNode \cup {NULL}] /\ mx \in [Sides -> A \cup {Dummy}]
      /\ \A t \in Sides : mx[t] = Dummy
  BY DEF NoChildren, Sides
<1>4. l2 \in [SplayNode -> [Sides -> SplayNode \cup {NULL}]] /\ \A n \in A : l2[n] = links[n]
  BY <1>2, <1>3
<1>5. /\ b2 \in [SplayNode -> [Sides -> Int]] /\ \A n \in A : b2[n] = bnd[n]
      /\ \A t \in Sides : b2[Dummy][t] = x
  BY <1>2
<1> HIDE DEF l2, b2, mx
<1>6. Ordered(A, l2, kf, b2)
  BY <1>1, <1>4, <1>5 DEF Ordered
<1>7. \A t \in Sides : b2[r][Other(t)] = Edge(kf, mx[t], t)
  BY <1>1, <1>3, <1>5, SideFacts DEF Edge
<1>8. Inside(b2[r], x)
  BY <1>1, <1>5, KeyInEnds DEF Inside
<1>9. ASSUME NEW n \in A \cup {Dummy}, NEW t \in Sides, n # mx[t]
      PROVE  Leads(A, kf, b2, n, t, l2[n][t])
  <2>1. n \in A /\ Leads(A, kf, bnd, n, t, links[n][t])
    BY <1>1, <1>3, <1>9
  <2> QED
    BY <1>4, <1>5, <2>1 DEF Leads, InPart
<1>10. Loop(A, l2, kf, b2, mx, r, x)
  BY <1>1, <1>3, <1>5, <1>6, <1>7, <1>8, <1>9 DEF Loop
<1> QED
  BY <1>10 DEF l2, mx

(* When the key is at the root, what lies below it belongs where the two   *)
(* parts have room.                                                        *)
LEMMA RestFits ==
  ASSUME NEW A, NEW links, NEW kf, NEW bnd, NEW mx, NEW r, NEW x,
         Loop(A, links, kf, bnd, mx, r, x), kf[r] = x, NEW s \in Sides
  PROVE  Leads(A, kf, bnd, mx[s], s, links[r][Other(s)]) /\ links[r][Other(s)] # r
<1> DEFINE o == Other(s)
           m == links[r][o]
<1>1. /\ r \in A /\ bnd[r][o] = Edge(kf, mx[s], s) /\ bnd[mx[s]][s] = x
  BY DEF Loop
<1>2. o \in Sides /\ Other(o) = s
  BY SideFacts
<1>3. r # mx[o] /\ r # Dummy
  BY <1>1, <1>2, RootApart, LoopFacts
<1>4. Leads(A, kf, bnd, r, o, m) /\ m # r
  BY <1>1, <1>2, <1>3, RootApart DEF Loop
<1>5. Edge(kf, r, o) = x
  BY <1>3 DEF Edge
<1>6. \A y : InPart(kf, bnd, r, o, y) <=> InPart(kf, bnd, mx[s], s, y)
  BY <1>1, <1>2, <1>5 DEF InPart
<1> QED
  BY <1>1, <1>2, <1>4, <1>5, <1>6 DEF Leads

Rest(links, mx, r) ==
  [links EXCEPT ![mx.right].right = links[r].left, ![mx.left].left = links[r].right]

Joined(links, r) ==
  [links EXCEPT ![r] = [left |-> links[Dummy].right, right |-> links[Dummy].left]]

LEMMA LoopEnds ==
  ASSUME NEW A, NEW links, NEW kf, NEW bnd, NEW mx, NEW r, NEW x,
         Loop(A, links, kf, bnd, mx, r, x), kf[r] = x
  PROVE  \E b2 : Tree(A, Joined(Rest(links, mx, r), r), kf, b2, r)
<1> DEFINE l1 == Rest(links, mx, r)
           l2 == Joined(l1, r)
           b2 == [bnd EXCEPT ![r] = [t \in Sides |-> End(t)]]
<1>1. /\ r \in A /\ x \in Key
      /\ \A n \in A : Inside(bnd[n], kf[n])
      /\ Ordered(A, links, kf, bnd) /\ mx \in [Sides -> A \cup {Dummy}]
      /\ \A t \in Sides : bnd[Dummy][t] = x
      /\ \A n \in A \cup {Dummy}, t \in Sides : n # mx[t] => Leads(A, kf, bnd, n, t, links[n][t])
  BY DEF Loop, Ordered
<1>2. /\ links \in [SplayNode -> [Sides -> SplayNode \cup {NULL}]]
      /\ bnd \in [SplayNode -> [Sides -> Int]]
      /\ A \subseteq SplayNode \ {Dummy} /\ Dummy \in SplayNode /\ NULL \notin SplayNode
      /\ \A t \in Sides : mx[t] \in SplayNode /\ End(t) \in Int
      /\ r \in SplayNode /\ r # Dummy
  <2>1. \A t \in Sides : End(t) \in Int
    BY FarBeyond DEF End
  <2> QED
    BY <1>1, <2>1, NodeFacts DEF Ordered
<1>3. "left" \in Sides /\ "right" \in Sides /\ "left" # "right" /\ \A t \in Sides : t = "left" \/ t = "right"
  BY DEF Sides
<1>4. /\ l1 \in [SplayNode -> [Sides -> SplayNode \cup {NULL}]]
      /\ \A t \in Sides : l1[mx[t]][t] = links[r][Other(t)]
      /\ \A n \in SplayNode, t \in Sides : n # mx[t] => l1[n][t] = links[n][t]
  <2> DEFINE la == [links EXCEPT ![mx["right"]]["right"] = links[r]["left"]]
  <2>1. links[r]["left"] \in SplayNode \cup {NULL} /\ links[r]["right"] \in SplayNode \cup {NULL}
    BY <1>2, <1>3
  <2>2. /\ la \in [SplayNode -> [Sides -> SplayNode \cup {NULL}]]
        /\ la[mx["right"]]["right"] = links[r]["left"]
        /\ \A n \in SplayNode, t \in Sides : n # mx["right"] \/ t # "right" => la[n][t] = links[n][t]
    BY <1>2, <1>3, <2>1
  <2>3. l1 = [la EXCEPT ![mx["left"]]["left"] = links[r]["right"]]
    BY DEF Rest
  <2> HIDE DEF la, l1
  <2>4. /\ l1 \in [SplayNode -> [Sides -> SplayNode \cup {NULL}]]
        /\ l1[mx["left"]]["left"] = links[r]["right"]
        /\ \A n \in SplayNode, t \in Sides : n # mx["left"] \/ t # "left" => l1[n][t] = la[n][t]
    BY <1>2, <1>3, <2>1, <2>2, <2>3
  <2>5. l1[mx["right"]]["right"] = links[r]["left"]
    BY <1>2, <1>3, <2>2, <2>4
  <2> QED
    BY <1>3, <2>2, <2>4, <2>5 DEF Other
<1> HIDE DEF l1
<1>5. ASSUME NEW n \in A \cup {Dummy}, NEW t \in Sides
      PROVE  Leads(A, kf, bnd, n, t, l1[n][t]) /\ l1[n][t] # r
  <2>1. CASE n = mx[t]
    <3>1. Leads(A, kf, bnd, mx[t], t, links[r][Other(t)]) /\ links[r][Other(t)] # r
      BY RestFits
    <3> QED
      BY <1>4, <2>1, <3>1
  <2>2. CASE n # mx[t]
    <3>1. links[n][t] # r /\ Leads(A, kf, bnd, n, t, links[n][t])
      BY <1>1, <2>2, RootApart
    <3> QED
      BY <1>2, <1>4, <2>2, <3>1
  <2> QED
    BY <2>1, <2>2
<1>6. /\ l2 \in [SplayNode -> [Sides -> SplayNode \cup {NULL}]]
      /\ \A t \in Sides : l2[r][t] = l1[Dummy][Other(t)]
      /\ \A n \in SplayNode : n # r => l2[n] = l1[n]
  <2> DEFINE below == [left |-> l1[Dummy]["right"], right |-> l1[Dummy]["left"]]
  <2>1. /\ below \in [Sides -> SplayNode \cup {NULL}]
        /\ \A t \in Sides : below[t] = l1[Dummy][Other(t)]
    BY <1>2, <1>4 DEF Sides, Other
  <2> HIDE DEF below
  <2>2. l2 = [l1 EXCEPT ![r] = below]
    BY DEF below, Joined
  <2> HIDE DEF l2
  <2> QED
    BY <1>2, <1>4, <2>1, <2>2
<1>7. /\ b2 \in [SplayNode -> [Sides -> Int]]
      /\ \A t \in Sides : b2[r][t] = End(t)
      /\ \A n \in SplayNode : n # r => b2[n] = bnd[n]
  BY <1>2
<1> HIDE DEF b2, l2
<1>8. Ordered(A, l2, kf, b2)
  <2>1. Inside(b2[r], kf[r])
    BY <1>1, <1>7, KeyInEnds DEF Inside
  <2>2. \A n \in A : Inside(b2[n], kf[n])
    BY <1>1, <1>2, <1>7, <2>1
  <2> QED
    BY <1>1, <1>6, <1>7, <2>2 DEF Ordered
<1>9. ASSUME NEW n \in A, NEW t \in Sides PROVE Leads(A, kf, b2, n, t, l2[n][t])
  <2>1. CASE n # r
    <3>1. Leads(A, kf, bnd, n, t, l1[n][t]) /\ l1[n][t] # r /\ n \in SplayNode
      BY <1>2, <1>5
    <3>2. b2[n] = bnd[n] /\ l2[n] = l1[n]
      BY <1>6, <1>7, <2>1, <3>1
    <3> QED
      BY <1>2, <1>7, <3>1, <3>2 DEF Leads, InPart
  <2>2. CASE n = r
    <3> DEFINE o == Other(t)
               m == l1[Dummy][o]
    <3>1. o \in Sides /\ Other(o) = t
      BY SideFacts
    <3> HIDE DEF o
    <3>2. Leads(A, kf, bnd, Dummy, o, m) /\ m # r
      BY <1>5, <3>1
    <3>3. /\ bnd[Dummy][o] = x /\ Edge(kf, Dummy, o) = End(t)
          /\ Edge(kf, r, t) = x /\ b2[r][t] = End(t) /\ l2[r][t] = m
      BY <1>1, <1>2, <1>6, <1>7, <3>1 DEF Edge, o
    <3>4. \A y : InPart(kf, b2, r, t, y) <=> InPart(kf, bnd, Dummy, o, y)
      BY <3>1, <3>3 DEF InPart, o
    <3> HIDE DEF m
    <3>5. CASE m = NULL
      BY <2>2, <3>2, <3>3, <3>4, <3>5 DEF Leads
    <3>6. CASE m # NULL
      <4>1. m \in A /\ bnd[m][o] = x /\ bnd[m][t] = End(t)
        BY <3>1, <3>2, <3>3, <3>6 DEF Leads
      <4>2. b2[m] = bnd[m]
        BY <1>2, <1>7, <3>2, <4>1
      <4> QED
        BY <2>2, <3>3, <3>6, <4>1, <4>2 DEF Leads, o
    <3> QED
      BY <3>5, <3>6
  <2> QED
    BY <2>1, <2>2
<1> QED
  <2>1. Tree(A, l2, kf, b2, r)
    BY <1>1, <1>7, <1>8, <1>9 DEF Tree
  <2> QED
    BY <2>1 DEF l2, l1

(* A tree of one node.                                                     *)
LEMMA FirstNode ==
  ASSUME NEW v \in SplayNode, v # Dummy, NEW x \in Key, NEW links, NEW kf,
         links \in [SplayNode -> [Sides -> SplayNode \cup {NULL}]], kf \in [SplayNode -> Nat],
         \A t \in Sides : links[v][t] = NULL, kf[v] = x
  PROVE  \E bnd : Tree({v}, links, kf, bnd, v)
<1> DEFINE bnd == [n \in SplayNode |-> [t \in Sides |-> End(t)]]
<1>1. \A t \in Sides : End(t) \in Int
  BY FarBeyond DEF End
<1>2. bnd \in [SplayNode -> [Sides -> Int]] /\ \A t \in Sides : bnd[v][t] = End(t)
  BY <1>1
<1> HIDE DEF bnd
<1>3. Inside(bnd[v], kf[v])
  BY <1>2, KeyInEnds DEF Inside
<1>4. Ordered({v}, links, kf, bnd)
  BY <1>2, <1>3 DEF Ordered
<1>5. ASSUME NEW t \in Sides PROVE Leads({v}, kf, bnd, v, t, NULL)
  <2>1. Edge(kf, v, t) = x /\ x \in Int
    BY TreeAssumption DEF Edge
  <2>2. ~ InPart(kf, bnd, v, t, kf[v])
    BY <2>1, Order DEF InPart
  <2> QED
    BY <2>2 DEF Leads
<1> QED
  <2>1. \A n \in {v}, t \in Sides : Leads({v}, kf, bnd, n, t, links[n][t])
    BY <1>5
  <2> QED
    BY <1>2, <1>4, <2>1 DEF Tree

(* A tree is in the links and keys of its own nodes.                       *)
LEMMA TreeFrame ==
  ASSUME NEW A, NEW links, NEW kf, NEW bnd, NEW r, Tree(A, links, kf, bnd, r), NEW l2, NEW k2,
         l2 \in [SplayNode -> [Sides -> SplayNode \cup {NULL}]], k2 \in [SplayNode -> Nat],
         \A n \in A : l2[n] = links[n] /\ k2[n] = kf[n]
  PROVE  Tree(A, l2, k2, bnd, r)
<1>1. Ordered(A, l2, k2, bnd)
  BY DEF Tree, Ordered
<1>2. ASSUME NEW n \in A, NEW t \in Sides PROVE Leads(A, k2, bnd, n, t, l2[n][t])
  <2>1. n # Dummy /\ Leads(A, kf, bnd, n, t, links[n][t])
    BY DEF Tree, Ordered
  <2>2. Edge(k2, n, t) = Edge(kf, n, t)
    BY <2>1 DEF Edge
  <2> QED
    BY <2>1, <2>2 DEF Leads, InPart
<1> QED
  BY <1>1, <1>2 DEF Tree

-----------------------------------------------------------------------------
(* A turn of the loop.                                                     *)
Free(links, v) == \A t \in Sides : links[v][t] = NULL

(* Outside A only the dummy node's links change.                           *)
Kept(A, links, l2) == \A n \in SplayNode \ (A \cup {Dummy}) : l2[n] = links[n]

LEMMA GrowAndCut ==
  ASSUME NEW A, NEW links, NEW kf, NEW bnd, NEW mx, NEW r, NEW x,
         Loop(A, links, kf, bnd, mx, r, x), NEW s \in Sides, Beyond(s, x, kf[r]),
         next \in SplayNode, next \notin A, next # Dummy, Free(links, next),
         NEW l, l = Insert(links, r, s)
  PROVE  LET l2 == [l EXCEPT ![mx[s]][s] = r]
             k2 == IF l[r][s] = next THEN [kf EXCEPT ![next] = x] ELSE kf
         IN  /\ \E B, b2 :
                  /\ Loop(B, l2, k2, b2, [mx EXCEPT ![s] = r], l[r][s], x)
                  /\ \/ B = A /\ l[r][s] # next
                     \/ B = A \cup {next} /\ l[r][s] = next /\ \A y \in A : kf[y] # x
             /\ Kept(A, links, l2)
<1> DEFINE l2 == [l EXCEPT ![mx[s]][s] = r]
           k2 == IF l[r][s] = next THEN [kf EXCEPT ![next] = x] ELSE kf
           m2 == [mx EXCEPT ![s] = r]
<1>1. /\ r \in A /\ links \in [SplayNode -> [Sides -> SplayNode \cup {NULL}]]
      /\ A \subseteq SplayNode \ {Dummy} /\ kf \in [SplayNode -> Nat] /\ mx[s] \in A \cup {Dummy}
      /\ Dummy \in SplayNode /\ NULL \notin SplayNode
  BY NodeFacts DEF Loop, Ordered
<1>2. Kept(A, links, l2)
  BY <1>1 DEF Kept, Insert
<1>3. CASE links[r][s] = NULL
  <2>1. l = [links EXCEPT ![r][s] = next]
    BY <1>3 DEF Insert
  <2>2. l[r][s] = next
    BY <1>1, <2>1
  <2>3. k2 = [kf EXCEPT ![next] = x]
    BY <2>2
  <2>4. \A y \in A : kf[y] # x
    BY <1>3, KeyMissing
  <2>5. PICK b : Loop(A \cup {next}, l, k2, b, mx, r, x)
    <3>1. \A t \in Sides : links[next][t] = NULL
      BY DEF Free
    <3>2. \E b : Loop(A \cup {next}, [links EXCEPT ![r][s] = next], [kf EXCEPT ![next] = x], b, mx, r, x)
      BY <1>3, <3>1, InsertKeeps
    <3> QED
      BY <2>1, <2>3, <3>2
  <2>6. l[r][s] # NULL /\ Beyond(s, x, k2[r])
    BY <1>1, <2>2, <2>3
  <2> HIDE DEF k2
  <2>7. PICK b2 : Loop(A \cup {next}, l2, k2, b2, m2, l[r][s], x)
    BY <2>5, <2>6, CutKeeps
  <2> QED
    BY <1>2, <2>2, <2>4, <2>7 DEF k2
<1>4. CASE links[r][s] # NULL
  <2>1. l = links
    BY <1>4 DEF Insert
  <2>2. l[r][s] # next
    BY <1>4, <2>1, ChildApart
  <2>3. k2 = kf
    BY <2>2
  <2>4. PICK b2 : Loop(A, l2, kf, b2, m2, l[r][s], x)
    BY <1>4, <2>1, CutKeeps
  <2> HIDE DEF l2, m2
  <2>5. Loop(A, l2, k2, b2, m2, l[r][s], x)
    BY <2>3, <2>4
  <2> HIDE DEF k2
  <2>6. \E B, b : /\ Loop(B, l2, k2, b, m2, l[r][s], x)
                  /\ \/ B = A /\ l[r][s] # next
                     \/ B = A \cup {next} /\ l[r][s] = next /\ \A y \in A : kf[y] # x
    BY <2>2, <2>5
  <2> QED
    BY <1>2, <2>6 DEF l2, k2, m2
<1> QED
  BY <1>3, <1>4

LEMMA SideBeyond ==
  ASSUME NEW n, k \in Nat, key[n] \in Nat, k # key[n]
  PROVE  Side(k, n) \in Sides /\ Beyond(Side(k, n), k, key[n])
<1>1. CASE k < key[n]
  BY <1>1 DEF Side, Sides, Beyond
<1>2. CASE key[n] < k
  <2>1. ~ (k < key[n])
    BY <1>2
  <2> QED
    BY <1>2, <2>1 DEF Side, Sides, Beyond
<1> QED
  BY <1>1, <1>2

LEMMA TurnKeeps ==
  ASSUME NEW A, NEW bnd, Loop(A, child, key, bnd, max_node, root, k), Turn,
         next \in SplayNode, next \notin A, next # Dummy, Free(child, next)
  PROVE  /\ \E B, b2 :
              /\ Loop(B, child', key', b2, max_node', root', k)
              /\ \/ B = A /\ key' = key
                 \/ /\ B = A \cup {next} /\ root' = next /\ key' = [key EXCEPT ![next] = k]
                    /\ \A y \in A : key[y] # k
         /\ Kept(A, child, child')
<1> DEFINE s == Side(k, root)
           grown == Insert(child, root, s)
           m == grown[root][s]
           beyond == m # next /\ k # key[m] /\ Side(k, m) = s
           top == IF beyond THEN m ELSE root
           links == IF beyond THEN Insert(Rotate(grown, root, s), m, s) ELSE grown
<1>1. /\ k # key[root]
      /\ child' = [links EXCEPT ![max_node[s]][s] = top]
      /\ max_node' = [max_node EXCEPT ![s] = top]
      /\ root' = links[top][s]
      /\ key' = IF root' = next THEN [key EXCEPT ![next] = k] ELSE key
  BY DEF Turn
<1> HIDE DEF top, links, beyond, grown, m, s
<1>2. /\ root \in A /\ child \in [SplayNode -> [Sides -> SplayNode \cup {NULL}]]
      /\ A \subseteq SplayNode \ {Dummy} /\ NULL \notin SplayNode
      /\ \A n \in A : key[n] \in Nat
      /\ k \in Nat
  <2>1. k \in Nat /\ \A n \in A : key[n] \in Nat
    BY LoopFacts
  <2> QED
    BY <2>1, NodeFacts DEF Loop, Ordered
<1>3. s \in Sides /\ Beyond(s, k, key[root])
  BY <1>1, <1>2, SideBeyond DEF s
<1>4. CASE ~ beyond
  <2>1. top = root /\ links = grown
    BY <1>4 DEF top, links
  <2>2. /\ child' = [grown EXCEPT ![max_node[s]][s] = root]
        /\ max_node' = [max_node EXCEPT ![s] = root]
        /\ root' = grown[root][s]
        /\ key' = IF grown[root][s] = next THEN [key EXCEPT ![next] = k] ELSE key
    BY <1>1, <2>1
  <2>3. PICK l : l = Insert(child, root, s)
    OBVIOUS
  <2>4. LET l2 == [l EXCEPT ![max_node[s]][s] = root]
            k2 == IF l[root][s] = next THEN [key EXCEPT ![next] = k] ELSE key
        IN  /\ \E B, b2 :
                 /\ Loop(B, l2, k2, b2, [max_node EXCEPT ![s] = root], l[root][s], k)
                 /\ \/ B = A /\ l[root][s] # next
                    \/ B = A \cup {next} /\ l[root][s] = next /\ \A y \in A : key[y] # k
            /\ Kept(A, child, l2)
    BY <1>3, <2>3, GrowAndCut
  <2>5. grown = l
    BY <2>3 DEF grown
  <2> QED
    BY <2>2, <2>4, <2>5
<1>5. CASE beyond
  <2>1. child[root][s] # NULL
    <3>1. SUFFICES ASSUME child[root][s] = NULL PROVE FALSE
      OBVIOUS
    <3>2. grown = [child EXCEPT ![root][s] = next]
      BY <3>1 DEF Insert, grown
    <3>3. m = next
      BY <1>2, <1>3, <3>2 DEF m
    <3> QED
      BY <1>5, <3>3 DEF beyond
  <2>2. grown = child /\ m = child[root][s]
    BY <2>1 DEF Insert, grown, m
  <2>3. top = m /\ links = Insert(Rotate(child, root, s), m, s)
    BY <1>5, <2>2 DEF top, links
  <2>4. m \in A /\ k # key[m] /\ Side(k, m) = s
    <3>1. child[root][s] \in A
      BY <1>3, <2>1, ChildApart
    <3> QED
      BY <1>5, <2>2, <3>1 DEF beyond
  <2>5. Beyond(s, k, key[m])
    BY <1>2, <2>4, SideBeyond
  <2>6. PICK b : Loop(A, Rotate(child, root, s), key, b, max_node, m, k)
    BY <1>3, <2>1, <2>2, RotateKeeps
  <2>7. PICK lr : lr = Rotate(child, root, s)
    OBVIOUS
  <2>8. Kept(A, child, lr)
    BY <1>2, <1>3, <2>2, <2>4, <2>7 DEF Kept, Rotate
  <2>9. Free(lr, next)
    BY <2>8 DEF Kept, Free
  <2>10. PICK l : l = Insert(lr, m, s)
    OBVIOUS
  <2>11. LET l2 == [l EXCEPT ![max_node[s]][s] = m]
             k2 == IF l[m][s] = next THEN [key EXCEPT ![next] = k] ELSE key
         IN  /\ \E B, b2 :
                  /\ Loop(B, l2, k2, b2, [max_node EXCEPT ![s] = m], l[m][s], k)
                  /\ \/ B = A /\ l[m][s] # next
                     \/ B = A \cup {next} /\ l[m][s] = next /\ \A y \in A : key[y] # k
             /\ Kept(A, lr, l2)
    BY <1>3, <2>5, <2>6, <2>7, <2>9, <2>10, GrowAndCut
  <2>12. /\ child' = [l EXCEPT ![max_node[s]][s] = m]
         /\ max_node' = [max_node EXCEPT ![s] = m]
         /\ root' = l[m][s]
         /\ key' = IF l[m][s] = next THEN [key EXCEPT ![next] = k] ELSE key
    BY <1>1, <2>3, <2>7, <2>10
  <2>13. Kept(A, lr, child')
    BY <2>11, <2>12
  <2>14. Kept(A, child, child')
    BY <2>8, <2>13 DEF Kept
  <2> QED
    BY <2>11, <2>12, <2>14
<1> QED
  BY <1>4, <1>5

-----------------------------------------------------------------------------
(* The state.                                                              *)
Owned(c) == {callee[c][kk] : kk \in Key} \ {NULL}
Pairs == {p \in Caller \X Key : callee[p[1]][p[2]] # NULL}

TypeInv ==
  /\ callee_root \in [Caller -> SplayNode \cup {NULL}]
  /\ child \in [SplayNode -> [Sides -> SplayNode \cup {NULL}]]
  /\ key \in [SplayNode -> Nat]
  /\ caller \in Caller /\ k \in Key
  /\ phase \in {"idle", "loop", "return"}
  /\ created \in Nat /\ next = created + 1
  /\ callee \in [Caller -> [Key -> (1 .. created) \cup {NULL}]]

(* The nodes are numbered as their splay nodes are.                        *)
NumberInv ==
  /\ created = Cardinality(Pairs)
  /\ payload = [n \in SplayNode |-> IF n \in 1 .. created THEN n ELSE NULL]
  /\ \A n \in SplayNode : n > next => Free(child, n)

(* Every callee is one of one caller, for its key.                         *)
CalleeInv ==
  /\ \A c, d \in Caller : \A x, y \in Key :
       callee[c][x] # NULL /\ callee[c][x] = callee[d][y] => c = d /\ x = y
  /\ \A c \in Caller : \A x \in Key : callee[c][x] # NULL => key[callee[c][x]] = x

TreeOK(c) ==
  IF callee_root[c] = NULL THEN Owned(c) = {}
  ELSE \E bnd : Tree(Owned(c), child, key, bnd, callee_root[c])

(* What the tree that is updated consists of.                              *)
Members(A) ==
  \/ A = Owned(caller) /\ Free(child, next)
  \/ /\ A = Owned(caller) \cup {next} /\ root = next
     /\ key[next] = k /\ callee[caller][k] = NULL

UpdateInv ==
  /\ phase = "idle" => Free(child, next)
  /\ phase = "loop" => \E A, bnd : Members(A) /\ Loop(A, child, key, bnd, max_node, root, k)
  /\ phase = "return" =>
       key[root] = k /\ \E A, bnd : Members(A) /\ Tree(A, child, key, bnd, root)

TreesInv == \A c \in Caller : phase = "idle" \/ c # caller => TreeOK(c)

IInv == TypeInv /\ NumberInv /\ CalleeInv /\ UpdateInv /\ TreesInv

-----------------------------------------------------------------------------
(* There are as many nodes as callees, and so enough splay nodes.          *)
LEMMA Room ==
  ASSUME NEW P, P \subseteq Caller \X Key
  PROVE  /\ IsFiniteSet(P) /\ Cardinality(P) \in Nat
         /\ 0 .. Cardinality(P) + 1 \subseteq SplayNode
<1>1. /\ IsFiniteSet(Caller \X Key)
      /\ Cardinality(Caller \X Key) = Cardinality(Caller) * Cardinality(Key)
  BY TreeAssumption, FS_Product
<1>2. /\ IsFiniteSet(P) /\ Cardinality(P) <= Cardinality(Caller \X Key)
      /\ Cardinality(P) \in Nat /\ Cardinality(Caller \X Key) \in Nat
  BY <1>1, FS_Subset, FS_CardinalityType
<1>3. PICK e \in Nat : e = Cardinality(Caller) * Cardinality(Key) /\ Cardinality(P) <= e
  BY <1>1, <1>2
<1>4. SplayNode = 0 .. e + 1
  BY <1>3 DEF SplayNode
<1> QED
  BY <1>2, <1>3, <1>4

LEMMA Enough ==
  ASSUME created = Cardinality(Pairs), next = created + 1
  PROVE  created \in Nat /\ next \in SplayNode /\ 1 .. created \subseteq SplayNode
<1>1. Pairs \subseteq Caller \X Key
  BY DEF Pairs
<1>2. created \in Nat /\ 0 .. created + 1 \subseteq SplayNode
  BY <1>1, Room
<1> QED
  BY <1>2

LEMMA OwnedFacts ==
  ASSUME TypeInv, NumberInv
  PROVE  /\ next \in SplayNode /\ next # Dummy /\ next \in Nat /\ next # NULL
         /\ 1 .. created \subseteq SplayNode \ {Dummy, next} /\ NULL \notin 1 .. created
         /\ \A c \in Caller : Owned(c) \subseteq 1 .. created
         /\ \A c \in Caller : \A n \in Owned(c) : \E x \in Key : n = callee[c][x] /\ n # NULL
         /\ \A c \in Caller : \A x \in Key : callee[c][x] # NULL => callee[c][x] \in Owned(c)
<1>1. next \in SplayNode /\ 1 .. created \subseteq SplayNode
  BY Enough DEF TypeInv, NumberInv
<1>2. created \in Nat /\ next = created + 1 /\ callee \in [Caller -> [Key -> (1 .. created) \cup {NULL}]]
  BY DEF TypeInv
<1>3. \A c \in Caller : Owned(c) \subseteq 1 .. created
  BY <1>2 DEF Owned
<1>4. NULL \notin Nat
  BY TreeAssumption
<1> QED
  BY <1>1, <1>2, <1>3, <1>4 DEF Owned, Dummy

(* Different callers have different callees.                               *)
LEMMA OwnedApart ==
  ASSUME TypeInv, NumberInv, CalleeInv, NEW c \in Caller, NEW d \in Caller, c # d
  PROVE  Owned(c) \cap Owned(d) = {}
<1> SUFFICES ASSUME NEW n \in Owned(c), n \in Owned(d) PROVE FALSE
  OBVIOUS
<1>1. PICK x \in Key : n = callee[c][x] /\ n # NULL
  BY OwnedFacts
<1>2. PICK y \in Key : n = callee[d][y]
  BY OwnedFacts
<1>3. callee[c][x] # NULL /\ callee[c][x] = callee[d][y]
  BY <1>1, <1>2
<1> QED
  BY <1>3 DEF CalleeInv

(* A tree outside of which all changes are stays.                          *)
LEMMA TreeKept ==
  ASSUME TypeInv, NumberInv, NEW d \in Caller, TreeOK(d),
         child' \in [SplayNode -> [Sides -> SplayNode \cup {NULL}]], key' \in [SplayNode -> Nat],
         UNCHANGED callee, callee_root'[d] = callee_root[d],
         \A n \in Owned(d) : child'[n] = child[n] /\ key'[n] = key[n]
  PROVE  TreeOK(d)'
<1>1. Owned(d)' = Owned(d)
  BY DEF Owned
<1>2. CASE callee_root[d] = NULL
  BY <1>1, <1>2 DEF TreeOK
<1>3. CASE callee_root[d] # NULL
  <2>1. PICK bnd : Tree(Owned(d), child, key, bnd, callee_root[d])
    BY <1>3 DEF TreeOK
  <2>2. Tree(Owned(d), child', key', bnd, callee_root[d])
    BY <2>1, TreeFrame
  <2> QED
    BY <1>1, <1>3, <2>2 DEF TreeOK
<1> QED
  BY <1>2, <1>3

LEMMA InitIInv == Init => IInv
<1> SUFFICES ASSUME Init PROVE IInv
  OBVIOUS
<1>1. Pairs = {}
  BY DEF Init, Pairs
<1>2. created = Cardinality(Pairs) /\ next = created + 1 /\ created = 0
  BY <1>1, FS_EmptySet DEF Init
<1>3. \A n \in SplayNode : Free(child, n)
  BY DEF Init, NoChildren, Free, Sides
<1>4. next \in SplayNode
  BY <1>2, Enough
<1>5. NoChildren \in [Sides -> SplayNode \cup {NULL}]
  BY DEF NoChildren, Sides
<1>6. TypeInv
  BY <1>2, <1>5 DEF Init, TypeInv
<1>7. NumberInv
  BY <1>2, <1>3 DEF Init, NumberInv
<1>8. CalleeInv /\ TreesInv
  BY DEF Init, CalleeInv, TreesInv, TreeOK, Owned
<1>9. UpdateInv
  BY <1>3, <1>4 DEF Init, UpdateInv
<1> QED
  BY <1>6, <1>7, <1>8, <1>9 DEF IInv

-----------------------------------------------------------------------------
(* The steps.                                                              *)
LEMMA UpdateKeeps ==
  ASSUME IInv, NEW c \in Caller, NEW kk \in Key, Update(c, kk)
  PROVE  IInv'
<1>1. /\ phase = "idle" /\ caller' = c /\ k' = kk
      /\ UNCHANGED <<callee_root, payload, next, created, found, callee>>
      /\ TypeInv /\ NumberInv /\ CalleeInv /\ Free(child, next) /\ TreesInv
  BY DEF Update, callerVars, IInv, UpdateInv
<1>2. /\ next \in SplayNode /\ next # Dummy /\ next # NULL
      /\ \A d \in Caller : Owned(d) \subseteq SplayNode \ {Dummy, next}
      /\ NULL \notin SplayNode /\ Dummy \in SplayNode
  BY <1>1, OwnedFacts, NodeFacts
<1>3. /\ child \in [SplayNode -> [Sides -> SplayNode \cup {NULL}]] /\ key \in [SplayNode -> Nat]
      /\ kk \in Nat /\ Key \subseteq Nat /\ next \in Nat /\ next = created + 1 /\ created \in Nat
  BY <1>1, TreeAssumption DEF TypeInv
<1>4. \A d \in Caller : Owned(d)' = Owned(d)
  BY <1>1 DEF Owned
<1>6. CASE callee_root[c] = NULL
  <2>1. /\ key' = [key EXCEPT ![next] = kk] /\ root' = next /\ phase' = "return" /\ child' = child
    BY <1>6 DEF Update
  <2>2. key' \in [SplayNode -> Nat] /\ key'[next] = kk /\ \A n \in SplayNode : n # next => key'[n] = key[n]
    BY <1>2, <1>3, <2>1
  <2>3. Owned(c) = {}
    BY <1>1, <1>6 DEF TreesInv, TreeOK
  <2>4. callee[c][kk] = NULL
    BY <1>1, <2>3, OwnedFacts
  <2>5. PICK bnd : Tree({next}, child', key', bnd, next)
    BY <1>1, <1>2, <1>3, <2>1, <2>2, FirstNode DEF Free
  <2>6. TypeInv'
    BY <1>1, <2>1, <2>2 DEF TypeInv
  <2>7. NumberInv'
    BY <1>1, <2>1 DEF NumberInv, Pairs, Free
  <2>8. CalleeInv'
    <3>1. \A d \in Caller : \A x \in Key : callee[d][x] # NULL => key'[callee[d][x]] = x
      BY <1>1, <1>2, <2>2, OwnedFacts DEF CalleeInv
    <3> QED
      BY <1>1, <3>1 DEF CalleeInv
  <2>9. UpdateInv'
    <3>1. Members({next})'
      BY <1>1, <1>4, <2>1, <2>2, <2>3, <2>4 DEF Members
    <3> QED
      BY <1>1, <2>1, <2>2, <2>5, <3>1 DEF UpdateInv
  <2>10. ASSUME NEW d \in Caller, d # c PROVE TreeOK(d)'
    <3>1. TreeOK(d)
      BY <1>1 DEF TreesInv
    <3>2. \A n \in Owned(d) : child'[n] = child[n] /\ key'[n] = key[n]
      BY <1>2, <2>1, <2>2
    <3> QED
      BY <1>1, <1>3, <2>1, <2>2, <3>1, <3>2, TreeKept
  <2>11. TreesInv'
    BY <1>1, <2>1, <2>10 DEF TreesInv
  <2> QED
    BY <2>6, <2>7, <2>8, <2>9, <2>11 DEF IInv
<1>7. CASE callee_root[c] # NULL
  <2>1. /\ child' = [child EXCEPT ![Dummy] = NoChildren] /\ root' = callee_root[c]
        /\ phase' = "loop" /\ key' = key
        /\ max_node' = [left |-> Dummy, right |-> Dummy]
    BY <1>7 DEF Update
  <2>2. NoChildren \in [Sides -> SplayNode \cup {NULL}]
    BY DEF NoChildren, Sides
  <2>3. /\ child' \in [SplayNode -> [Sides -> SplayNode \cup {NULL}]]
        /\ \A n \in SplayNode : n # Dummy => child'[n] = child[n]
    BY <1>2, <1>3, <2>1, <2>2
  <2>4. PICK bnd : Tree(Owned(c), child, key, bnd, callee_root[c])
    BY <1>1, <1>7 DEF TreesInv, TreeOK
  <2>5. PICK b : Loop(Owned(c), child', key', b, max_node', root', kk)
    BY <2>1, <2>4, TreeStarts
  <2>6. TypeInv'
    BY <1>1, <2>1, <2>3 DEF TypeInv
  <2>7. NumberInv'
    <3>1. \A n \in SplayNode : n > next => n # Dummy
      BY <1>3 DEF Dummy
    <3> QED
      BY <1>1, <2>1, <2>3, <3>1 DEF NumberInv, Pairs, Free
  <2>8. CalleeInv'
    BY <1>1, <2>1 DEF CalleeInv
  <2>9. UpdateInv'
    <3>1. PICK B : B = Owned(c)
      OBVIOUS
    <3>2. Members(B)'
      BY <1>1, <1>2, <1>4, <2>3, <3>1 DEF Members, Free
    <3>3. Loop(B, child', key', b, max_node', root', k')
      BY <1>1, <2>5, <3>1
    <3> QED
      BY <2>1, <3>2, <3>3 DEF UpdateInv
  <2>10. ASSUME NEW d \in Caller, d # c PROVE TreeOK(d)'
    <3>1. TreeOK(d)
      BY <1>1 DEF TreesInv
    <3>2. \A n \in Owned(d) : child'[n] = child[n] /\ key'[n] = key[n]
      BY <1>2, <2>1, <2>3
    <3> QED
      BY <1>1, <1>3, <2>1, <2>3, <3>1, <3>2, TreeKept
  <2>11. TreesInv'
    BY <1>1, <2>1, <2>10 DEF TreesInv
  <2> QED
    BY <2>6, <2>7, <2>8, <2>9, <2>11 DEF IInv
<1> QED
  BY <1>6, <1>7

LEMMA TurnStep == IInv /\ Turn => IInv'
<1> SUFFICES ASSUME IInv, Turn PROVE IInv'
  OBVIOUS
<1>1. /\ phase = "loop" /\ k # key[root]
      /\ UNCHANGED <<callee_root, payload, next, created, found, callee, phase, caller, k>>
      /\ TypeInv /\ NumberInv /\ CalleeInv /\ TreesInv
  BY DEF Turn, callerVars, arguments, IInv
<1>2. PICK A, bnd : Members(A) /\ Loop(A, child, key, bnd, max_node, root, k)
  BY <1>1 DEF IInv, UpdateInv
<1>3. /\ next \in SplayNode /\ next # Dummy /\ next \in Nat
      /\ \A d \in Caller : Owned(d) \subseteq 1 .. created
      /\ 1 .. created \subseteq SplayNode \ {Dummy, next}
  BY <1>1, OwnedFacts
<1>4. /\ caller \in Caller /\ k \in Key /\ k \in Nat /\ next = created + 1 /\ created \in Nat
      /\ key \in [SplayNode -> Nat] /\ Dummy \in SplayNode
  BY <1>1, NodeFacts, TreeAssumption DEF TypeInv
<1>5. A = Owned(caller) /\ Free(child, next) /\ next \notin A
  BY <1>1, <1>2, <1>3, <1>4 DEF Members
<1>6. PICK B, b2 :
        /\ Loop(B, child', key', b2, max_node', root', k)
        /\ \/ B = A /\ key' = key
           \/ /\ B = A \cup {next} /\ root' = next /\ key' = [key EXCEPT ![next] = k]
              /\ \A y \in A : key[y] # k
  BY <1>2, <1>3, <1>5, TurnKeeps
<1>7. \A n \in SplayNode \ (A \cup {Dummy}) : child'[n] = child[n]
  BY <1>2, <1>3, <1>5, TurnKeeps DEF Kept
<1>8. /\ child' \in [SplayNode -> [Sides -> SplayNode \cup {NULL}]]
      /\ key' \in [SplayNode -> Nat]
  BY <1>6 DEF Loop, Ordered
<1>9. \A n \in SplayNode : n # next => key'[n] = key[n]
  BY <1>3, <1>4, <1>6
<1>10. Free(child, next)'
  BY <1>1, <1>3, <1>5, <1>7 DEF Free
<1>11. Owned(caller)' = Owned(caller)
  BY <1>1 DEF Owned
<1>12. TypeInv'
  BY <1>1, <1>8 DEF TypeInv
<1>13. NumberInv'
  <2>1. ASSUME NEW n \in SplayNode, n > next PROVE Free(child', n)
    <3>1. n \notin A \cup {Dummy}
      BY <1>3, <1>4, <1>5, <2>1 DEF Dummy
    <3> QED
      BY <1>1, <1>7, <2>1, <3>1 DEF NumberInv, Free
  <2> QED
    BY <1>1, <2>1 DEF NumberInv, Pairs
<1>14. CalleeInv'
  <2>1. ASSUME NEW c \in Caller, NEW x \in Key, callee[c][x] # NULL
        PROVE  key'[callee[c][x]] = x
    <3>1. callee[c][x] \in SplayNode /\ callee[c][x] # next
      BY <1>1, <1>3, <2>1, OwnedFacts
    <3> QED
      BY <1>1, <1>9, <2>1, <3>1 DEF CalleeInv
  <2> QED
    BY <1>1, <2>1 DEF CalleeInv
<1>15. Members(B)'
  <2>1. CASE B = A
    BY <1>1, <1>5, <1>10, <1>11, <2>1 DEF Members
  <2>2. CASE B # A
    <3>1. B = A \cup {next} /\ root' = next /\ key' = [key EXCEPT ![next] = k] /\ \A y \in A : key[y] # k
      BY <1>6, <2>2
    <3>2. callee[caller][k] = NULL
      <4>1. SUFFICES ASSUME callee[caller][k] # NULL PROVE FALSE
        OBVIOUS
      <4>2. callee[caller][k] \in A /\ key[callee[caller][k]] = k
        BY <1>1, <1>4, <1>5, <4>1, OwnedFacts DEF CalleeInv
      <4> QED
        BY <3>1, <4>2
    <3>3. key'[next] = k
      BY <1>3, <1>4, <3>1
    <3> QED
      BY <1>1, <1>5, <1>11, <3>1, <3>2, <3>3 DEF Members
  <2> QED
    BY <2>1, <2>2
<1>16. UpdateInv'
  BY <1>1, <1>6, <1>15 DEF UpdateInv
<1>17. TreesInv'
  <2>1. ASSUME NEW d \in Caller, d # caller PROVE TreeOK(d)'
    <3>1. TreeOK(d)
      BY <1>1, <2>1 DEF TreesInv
    <3>2. Owned(d) \cap A = {} /\ Owned(d) \subseteq SplayNode \ {Dummy, next}
      BY <1>1, <1>3, <1>4, <1>5, <2>1, OwnedApart
    <3>3. \A n \in Owned(d) : child'[n] = child[n] /\ key'[n] = key[n]
      BY <1>7, <1>9, <3>2
    <3> QED
      BY <1>1, <1>8, <3>1, <3>3, TreeKept
  <2> QED
    BY <1>1, <2>1 DEF TreesInv
<1> QED
  BY <1>12, <1>13, <1>14, <1>16, <1>17 DEF IInv

LEMMA AssembleStep == IInv /\ Assemble => IInv'
<1> SUFFICES ASSUME IInv, Assemble PROVE IInv'
  OBVIOUS
<1>1. /\ phase = "loop" /\ k = key[root] /\ phase' = "return"
      /\ UNCHANGED <<callee_root, payload, next, created, found, callee, key, caller, k, root, max_node>>
      /\ child' = Joined(Rest(child, max_node, root), root)
      /\ TypeInv /\ NumberInv /\ CalleeInv /\ TreesInv
  BY DEF Assemble, Join, Joined, Rest, callerVars, arguments, IInv
<1>2. PICK A, bnd : Members(A) /\ Loop(A, child, key, bnd, max_node, root, k)
  BY <1>1 DEF IInv, UpdateInv
<1>3. /\ next \in SplayNode /\ next # Dummy /\ next \in Nat
      /\ \A d \in Caller : Owned(d) \subseteq 1 .. created
      /\ 1 .. created \subseteq SplayNode \ {Dummy, next}
  BY <1>1, OwnedFacts
<1>4. /\ caller \in Caller /\ next = created + 1 /\ created \in Nat
      /\ root \in A /\ \A t \in Sides : max_node[t] \in A \cup {Dummy}
  BY <1>1, <1>2, LoopFacts DEF TypeInv, Loop
<1>5. PICK b2 : Tree(A, child', key', b2, root')
  BY <1>1, <1>2, LoopEnds
<1>6. /\ child' \in [SplayNode -> [Sides -> SplayNode \cup {NULL}]]
      /\ key' \in [SplayNode -> Nat]
  BY <1>5 DEF Tree, Ordered
<1>7. \A n \in SplayNode \ (A \cup {Dummy}) : child'[n] = child[n]
  <2>1. max_node.left \in A \cup {Dummy} /\ max_node.right \in A \cup {Dummy}
    BY <1>4 DEF Sides
  <2>2. child \in [SplayNode -> [Sides -> SplayNode \cup {NULL}]]
    BY <1>1 DEF TypeInv
  <2> QED
    BY <1>1, <1>4, <2>1, <2>2 DEF Joined, Rest
<1>8. A \subseteq Owned(caller) \cup {next}
  BY <1>2 DEF Members
<1>9. Owned(caller)' = Owned(caller)
  BY <1>1 DEF Owned
<1>10. TypeInv'
  BY <1>1, <1>6 DEF TypeInv
<1>11. NumberInv'
  <2>1. ASSUME NEW n \in SplayNode, n > next PROVE Free(child', n)
    <3>1. n \notin A \cup {Dummy}
      BY <1>3, <1>4, <1>8, <2>1 DEF Dummy
    <3> QED
      BY <1>1, <1>7, <2>1, <3>1 DEF NumberInv, Free
  <2> QED
    BY <1>1, <2>1 DEF NumberInv, Pairs
<1>12. CalleeInv'
  BY <1>1 DEF CalleeInv
<1>13. Members(A)'
  <2>1. CASE A = Owned(caller) /\ Free(child, next)
    <3>1. Free(child, next)'
      BY <1>1, <1>3, <1>4, <1>7, <2>1 DEF Free
    <3> QED
      BY <1>1, <1>9, <2>1, <3>1 DEF Members
  <2>2. CASE ~ (A = Owned(caller) /\ Free(child, next))
    BY <1>1, <1>2, <1>9, <2>2 DEF Members
  <2> QED
    BY <2>1, <2>2
<1>14. UpdateInv'
  BY <1>1, <1>5, <1>13 DEF UpdateInv
<1>15. TreesInv'
  <2>1. ASSUME NEW d \in Caller, d # caller PROVE TreeOK(d)'
    <3>1. TreeOK(d)
      BY <1>1, <2>1 DEF TreesInv
    <3>2. Owned(d) \cap A = {} /\ Owned(d) \subseteq SplayNode \ {Dummy, next}
      BY <1>1, <1>3, <1>4, <1>8, <2>1, OwnedApart
    <3>3. \A n \in Owned(d) : child'[n] = child[n] /\ key'[n] = key[n]
      BY <1>1, <1>7, <3>2
    <3> QED
      BY <1>1, <1>6, <3>1, <3>3, TreeKept
  <2> QED
    BY <1>1, <2>1 DEF TreesInv
<1> QED
  BY <1>10, <1>11, <1>12, <1>14, <1>15 DEF IInv

LEMMA ReturnStep == IInv /\ Return => IInv'
<1> SUFFICES ASSUME IInv, Return PROVE IInv'
  OBVIOUS
<1>1. /\ phase = "return" /\ phase' = "idle" /\ key[root] = k
      /\ UNCHANGED <<child, key, caller, k, root, max_node>>
      /\ callee_root' = [callee_root EXCEPT ![caller] = root]
      /\ TypeInv /\ NumberInv /\ CalleeInv /\ TreesInv
  BY DEF Return, arguments, IInv, UpdateInv
<1>2. PICK A, bnd : Members(A) /\ Tree(A, child, key, bnd, root)
  BY <1>1 DEF IInv, UpdateInv
<1>3. /\ next \in SplayNode /\ next # Dummy /\ next \in Nat /\ next # NULL
      /\ \A d \in Caller : Owned(d) \subseteq 1 .. created
      /\ 1 .. created \subseteq SplayNode \ {Dummy, next} /\ NULL \notin 1 .. created
  BY <1>1, OwnedFacts
<1>4. /\ caller \in Caller /\ k \in Key /\ next = created + 1 /\ created \in Nat
      /\ root \in A /\ root \in SplayNode /\ root # NULL
      /\ key \in [SplayNode -> Nat] /\ callee \in [Caller -> [Key -> (1 .. created) \cup {NULL}]]
      /\ callee_root \in [Caller -> SplayNode \cup {NULL}]
  BY <1>1, <1>2, NodeFacts DEF TypeInv, Tree, Ordered
<1>5. /\ child \in [SplayNode -> [Sides -> SplayNode \cup {NULL}]]
      /\ payload = [n \in SplayNode |-> IF n \in 1 .. created THEN n ELSE NULL]
      /\ created = Cardinality(Pairs)
  BY <1>1 DEF TypeInv, NumberInv
<1>6. callee_root' \in [Caller -> SplayNode \cup {NULL}] /\ callee_root'[caller] = root
      /\ \A d \in Caller : d # caller => callee_root'[d] = callee_root[d]
  BY <1>1, <1>4
<1>7. ASSUME NEW d \in Caller, d # caller, Owned(d)' = Owned(d) PROVE TreeOK(d)'
  <2>1. TreeOK(d)
    BY <1>1, <1>7 DEF TreesInv
  <2> QED
    BY <1>1, <1>6, <1>7, <2>1 DEF TreeOK
<1>8. ASSUME Owned(caller)' = A PROVE TreeOK(caller)'
  <2>1. Tree(A, child, key, bnd, root)
    BY <1>2
  <2> QED
    BY <1>1, <1>4, <1>6, <1>8, <2>1 DEF TreeOK
<1>9. CASE A = Owned(caller) /\ Free(child, next)
  <2>1. root \in 1 .. created
    BY <1>3, <1>4, <1>9
  <2>2. payload[root] # NULL
    BY <1>3, <1>4, <1>5, <2>1
  <2>3. UNCHANGED <<created, payload, callee, next>>
    BY <2>2 DEF Return
  <2>4. \A d \in Caller : Owned(d)' = Owned(d)
    BY <2>3 DEF Owned
  <2>5. TypeInv'
    BY <1>1, <1>6, <2>3 DEF TypeInv
  <2>6. NumberInv' /\ CalleeInv'
    BY <1>1, <2>3 DEF NumberInv, Pairs, CalleeInv, Free
  <2>7. UpdateInv'
    BY <1>1, <1>9, <2>3 DEF UpdateInv, Free
  <2>8. TreesInv'
    <3>1. TreeOK(caller)'
      <4>1. Owned(caller)' = Owned(caller)
        BY <1>1, <2>3 DEF Owned
      <4> QED
        BY <1>8, <1>9, <4>1
    <3>2. ASSUME NEW d \in Caller PROVE TreeOK(d)'
      <4>1. CASE d = caller
        BY <1>1, <3>1, <4>1
      <4>2. CASE d # caller
        BY <1>7, <2>4, <4>2
      <4> QED
        BY <4>1, <4>2
    <3> QED
      BY <3>2 DEF TreesInv
  <2> QED
    BY <2>5, <2>6, <2>7, <2>8 DEF IInv
<1>10. CASE A = Owned(caller) \cup {next} /\ root = next /\ key[next] = k /\ callee[caller][k] = NULL
  <2>1. payload[root] = NULL
    BY <1>3, <1>4, <1>5, <1>10
  <2>2. /\ created' = next /\ next' = next + 1
        /\ payload' = [payload EXCEPT ![next] = next]
        /\ callee' = [callee EXCEPT ![caller][k] = next]
    BY <1>4, <1>10, <2>1 DEF Return, TakeNext
  <2>3. 1 .. next = (1 .. created) \cup {next}
    BY <1>3, <1>4
  <2>4. /\ callee' \in [Caller -> [Key -> (1 .. next) \cup {NULL}]]
        /\ callee'[caller][k] = next
        /\ \A d \in Caller : \A x \in Key :
             <<d, x>> # <<caller, k>> => callee'[d][x] = callee[d][x]
    <3>1. PICK f : f = [callee[caller] EXCEPT ![k] = next]
      OBVIOUS
    <3>2. /\ f \in [Key -> (1 .. next) \cup {NULL}] /\ f[k] = next
          /\ \A x \in Key : x # k => f[x] = callee[caller][x]
      BY <1>4, <2>3, <3>1
    <3>3. callee' = [callee EXCEPT ![caller] = f]
      BY <2>2, <3>1
    <3>4. callee \in [Caller -> [Key -> (1 .. next) \cup {NULL}]]
      BY <1>4, <2>3
    <3>5. callee' \in [Caller -> [Key -> (1 .. next) \cup {NULL}]]
      BY <3>2, <3>3, <3>4
    <3>6. callee'[caller] = f /\ \A d \in Caller : d # caller => callee'[d] = callee[d]
      BY <1>4, <3>3
    <3> QED
      BY <3>2, <3>5, <3>6
  <2>5. Pairs' = Pairs \cup {<<caller, k>>} /\ <<caller, k>> \notin Pairs
    BY <1>3, <1>4, <1>10, <2>4 DEF Pairs
  <2>6. created' = Cardinality(Pairs') /\ created' + 1 \in SplayNode
    <3>1. IsFiniteSet(Pairs)
      BY Room DEF Pairs
    <3>2. Cardinality(Pairs') = Cardinality(Pairs) + 1
      BY <2>5, <3>1, FS_AddElement
    <3>3. Pairs' \subseteq Caller \X Key
      BY DEF Pairs
    <3>4. Cardinality(Pairs') + 1 \in SplayNode
      <4>1. PICK m : m = Cardinality(Pairs')
        OBVIOUS
      <4>2. m \in Nat /\ 0 .. m + 1 \subseteq SplayNode
        BY <3>3, <4>1, Room
      <4> QED
        BY <4>1, <4>2
    <3> QED
      BY <1>4, <1>5, <2>2, <3>2, <3>4
  <2>7. /\ \A d \in Caller : d # caller => Owned(d)' = Owned(d)
        /\ Owned(caller)' = A
    <3>1. ASSUME NEW d \in Caller, d # caller PROVE Owned(d)' = Owned(d)
      <4>1. \A x \in Key : callee'[d][x] = callee[d][x]
        BY <2>4, <3>1
      <4> QED
        BY <4>1 DEF Owned
    <3>2. Owned(caller)' = Owned(caller) \cup {next}
      <4>1. \A x \in Key : x # k => callee'[caller][x] = callee[caller][x]
        BY <1>4, <2>4
      <4>2. Owned(caller)' = {callee'[caller][x] : x \in Key} \ {NULL}
        BY <1>1 DEF Owned
      <4>3. callee[caller][k] = NULL /\ callee'[caller][k] = next /\ next # NULL /\ k \in Key
        BY <1>3, <1>4, <1>10, <2>4
      <4>4. PICK f, g : f = callee[caller] /\ g = callee'[caller]
        OBVIOUS
      <4>5. {g[x] : x \in Key} \ {NULL} = ({f[x] : x \in Key} \ {NULL}) \cup {next}
        BY <4>1, <4>3, <4>4
      <4> QED
        BY <4>2, <4>4, <4>5 DEF Owned
    <3> QED
      BY <1>10, <3>1, <3>2
  <2>8. TypeInv'
    BY <1>1, <1>3, <1>6, <2>2, <2>4 DEF TypeInv
  <2>9. NumberInv'
    <3>1. payload' = [n \in SplayNode |-> IF n \in 1 .. next THEN n ELSE NULL]
      BY <1>3, <1>5, <2>2, <2>3
    <3>2. \A n \in SplayNode : n > next' => Free(child, n)
      <4>1. ASSUME NEW n \in SplayNode, n > next' PROVE Free(child, n)
        <5>1. n > next
          BY <1>3, <2>2, <4>1, NodeFacts
        <5> QED
          BY <1>1, <5>1 DEF NumberInv
      <4> QED
        BY <4>1
    <3> QED
      BY <1>1, <2>2, <2>6, <3>1, <3>2 DEF NumberInv, Free
  <2>10. CalleeInv'
    <3>1. ASSUME NEW c \in Caller, NEW x \in Key, <<c, x>> # <<caller, k>>, callee'[c][x] # NULL
          PROVE  callee'[c][x] = callee[c][x] /\ callee'[c][x] # next
      BY <1>1, <1>3, <2>4, <3>1, OwnedFacts
    <3>2. ASSUME NEW c \in Caller, NEW d \in Caller, NEW x \in Key, NEW y \in Key,
                 callee'[c][x] # NULL, callee'[c][x] = callee'[d][y]
          PROVE  c = d /\ x = y
      BY <1>1, <2>4, <3>1, <3>2 DEF CalleeInv
    <3>3. ASSUME NEW c \in Caller, NEW x \in Key, callee'[c][x] # NULL
          PROVE  key[callee'[c][x]] = x
      BY <1>1, <1>10, <2>4, <3>1, <3>3 DEF CalleeInv
    <3> QED
      BY <1>1, <3>2, <3>3 DEF CalleeInv
  <2>11. UpdateInv'
    <3>1. Free(child, next')
      <4>1. next' \in SplayNode /\ next' > next
        BY <1>3, <2>2, <2>6
      <4> QED
        BY <1>1, <4>1 DEF NumberInv
    <3> QED
      BY <1>1, <3>1 DEF UpdateInv, Free
  <2>12. TreesInv'
    <3>1. TreeOK(caller)'
      BY <1>4, <1>8, <2>7
    <3>2. ASSUME NEW d \in Caller PROVE TreeOK(d)'
      <4>1. CASE d = caller
        BY <1>1, <3>1, <4>1
      <4>2. CASE d # caller
        BY <1>7, <2>7, <4>2
      <4> QED
        BY <4>1, <4>2
    <3> QED
      BY <3>2 DEF TreesInv
  <2> QED
    BY <2>8, <2>9, <2>10, <2>11, <2>12 DEF IInv
<1> QED
  BY <1>2, <1>9, <1>10 DEF Members

LEMMA StepIInv == IInv /\ [Next]_vars => IInv'
<1> SUFFICES ASSUME IInv, [Next]_vars PROVE IInv'
  OBVIOUS
<1>1. CASE \E c \in Caller : \E kk \in Callees[c] : Update(c, kk)
  <2>1. PICK c \in Caller : \E kk \in Callees[c] : Update(c, kk)
    BY <1>1
  <2>2. PICK kk \in Callees[c] : Update(c, kk)
    BY <2>1
  <2>3. kk \in Key
    BY TreeAssumption
  <2> QED
    BY <2>2, <2>3, UpdateKeeps
<1>2. CASE UNCHANGED vars
  <2>1. /\ UNCHANGED <<callee_root, child, key, payload, next, created, phase>>
        /\ UNCHANGED <<caller, k, root, max_node, callee>>
    BY <1>2 DEF vars, callerVars, arguments
  <2>2. \A c \in Caller : Owned(c)' = Owned(c)
    BY <2>1 DEF Owned
  <2>3. TypeInv' /\ NumberInv' /\ CalleeInv'
    <3>1. TypeInv'
      BY <2>1 DEF IInv, TypeInv
    <3>2. NumberInv'
      BY <2>1 DEF IInv, NumberInv, Pairs, Free
    <3>3. CalleeInv'
      BY <2>1 DEF IInv, CalleeInv
    <3> QED
      BY <3>1, <3>2, <3>3
  <2>4. ASSUME NEW A, Members(A) PROVE Members(A)'
    BY <2>1, <2>2, <2>4 DEF Members, Free, IInv, TypeInv
  <2>5. UpdateInv'
    <3>1. CASE phase = "idle"
      BY <2>1, <3>1 DEF IInv, UpdateInv, Free
    <3>2. CASE phase = "loop"
      <4>1. PICK A, bnd : Members(A) /\ Loop(A, child, key, bnd, max_node, root, k)
        BY <3>2 DEF IInv, UpdateInv
      <4> QED
        BY <2>1, <2>4, <3>2, <4>1 DEF UpdateInv
    <3>3. CASE phase = "return"
      <4>1. PICK A, bnd : Members(A) /\ Tree(A, child, key, bnd, root)
        BY <3>3 DEF IInv, UpdateInv
      <4>2. key[root] = k
        BY <3>3 DEF IInv, UpdateInv
      <4> QED
        BY <2>1, <2>4, <3>3, <4>1, <4>2 DEF UpdateInv
    <3> QED
      BY <3>1, <3>2, <3>3 DEF IInv, TypeInv
  <2>6. ASSUME NEW c \in Caller, TreeOK(c) PROVE TreeOK(c)'
    BY <2>1, <2>2, <2>6 DEF TreeOK
  <2>7. TreesInv'
    BY <2>1, <2>6 DEF IInv, TreesInv
  <2> QED
    BY <2>3, <2>5, <2>7 DEF IInv
<1> QED
  BY <1>1, <1>2, TurnStep, AssembleStep, ReturnStep DEF Next

LEMMA Inductive == Spec => []IInv
BY InitIInv, StepIInv, PTL DEF Spec

(* How the steps look to the callers: the update itself is invisible, and  *)
(* its end is one request.                                                 *)
LEMMA ReturnIsRequest ==
  ASSUME IInv, Return
  PROVE  Map!Request(caller, k) /\ caller \in Caller /\ k \in Key
<1>1. /\ phase = "return" /\ key[root] = k /\ found' = <<caller, k, payload'[root]>>
      /\ TypeInv /\ NumberInv /\ CalleeInv
  BY DEF Return, IInv, UpdateInv
<1>2. PICK A, bnd : Members(A) /\ Tree(A, child, key, bnd, root)
  BY <1>1 DEF IInv, UpdateInv
<1>3. /\ next \in SplayNode /\ next # NULL
      /\ \A n \in Owned(caller) : \E x \in Key : n = callee[caller][x] /\ n # NULL
      /\ Owned(caller) \subseteq 1 .. created
      /\ 1 .. created \subseteq SplayNode \ {Dummy, next} /\ NULL \notin 1 .. created
  BY <1>1, OwnedFacts DEF TypeInv
<1>4. /\ caller \in Caller /\ k \in Key /\ next = created + 1 /\ created \in Nat /\ root \in A
      /\ payload = [n \in SplayNode |-> IF n \in 1 .. created THEN n ELSE NULL]
      /\ callee \in [Caller -> [Key -> (1 .. created) \cup {NULL}]]
  BY <1>1, <1>2 DEF TypeInv, NumberInv, Tree
<1>5. CASE A = Owned(caller)
  <2>1. PICK x \in Key : root = callee[caller][x] /\ root # NULL
    BY <1>3, <1>4, <1>5
  <2>2. x = k
    BY <1>1, <1>4, <2>1 DEF CalleeInv
  <2>3. payload[root] = root /\ root # NULL
    BY <1>3, <1>4, <1>5
  <2>4. UNCHANGED <<created, payload, callee>>
    BY <2>3 DEF Return
  <2> QED
    BY <1>1, <1>4, <2>1, <2>2, <2>3, <2>4 DEF Map!Request
<1>6. CASE root = next /\ callee[caller][k] = NULL
  <2>1. payload[root] = NULL
    BY <1>3, <1>4, <1>6
  <2>2. /\ created' = next
        /\ payload' = [payload EXCEPT ![next] = next]
        /\ callee' = [callee EXCEPT ![caller][k] = next]
    BY <1>4, <1>6, <2>1 DEF Return
  <2>3. callee'[caller][k] = next /\ payload'[root] = next
    BY <1>3, <1>4, <1>6, <2>2
  <2> QED
    BY <1>1, <1>4, <1>6, <2>2, <2>3 DEF Map!Request
<1> QED
  BY <1>2, <1>4, <1>5, <1>6 DEF Members

(* Whatever a thread has looked up before, splay_tree_update leads to the  *)
(* node a caller was given for the key the first time, and to a new one    *)
(* exactly then: the loop, the shared new_node and the dummy node are      *)
(* invisible, and its caller's test of the payload says which it is.       *)
THEOREM TreesImplementMap == Spec => Implements
<1>1. Init => Map!Init
  BY DEF Init, Map!Init
<1>2. IInv /\ [Next]_vars => [Map!Next]_<<callee, created, found>>
  <2> SUFFICES ASSUME IInv, [Next]_vars PROVE [Map!Next]_<<callee, created, found>>
    OBVIOUS
  <2>1. CASE Return
    BY <2>1, ReturnIsRequest DEF Map!Next
  <2>2. CASE Turn \/ Assemble \/ UNCHANGED vars
    BY <2>2 DEF Turn, Assemble, vars, callerVars
  <2>3. CASE \E c \in Caller : \E kk \in Callees[c] : Update(c, kk)
    BY <2>3 DEF Update, callerVars
  <2> QED
    BY <2>1, <2>2, <2>3 DEF Next
<1> QED
  BY <1>1, <1>2, Inductive, PTL DEF Spec, Implements, Map!Spec

-----------------------------------------------------------------------------
(* The search.                                                             *)
Onward(kk, n) == IF n = NULL \/ key[n] = kk THEN n ELSE child[n][Side(kk, n)]

Walks(walk, c, kk) ==
  walk = [i \in 0 .. Cardinality(SplayNode) |->
            IF i = 0 THEN callee_root[c]
            ELSE LET n == walk[i - 1]
                 IN IF n = NULL \/ key[n] = kk THEN n ELSE child[n][Side(kk, n)]]

(* Where a search may end: at the node of A that has the key, or nowhere.  *)
Ends(A, kk, n) == IF n = NULL THEN \A y \in A : key[y] # kk ELSE n \in A /\ key[n] = kk

(* What may still be searched from node n.                                 *)
Below(A, bnd, n) == {y \in A : Inside(bnd[n], key[y])}

LEMMA NodesFinite == IsFiniteSet(SplayNode) /\ Cardinality(SplayNode) \in Nat
<1>1. Cardinality(Caller) \in Nat /\ Cardinality(Key) \in Nat
  BY TreeAssumption, FS_CardinalityType
<1>2. PICK e \in Nat : e = Cardinality(Caller) * Cardinality(Key)
  BY <1>1
<1>3. IsFiniteSet(SplayNode)
  BY <1>2, FS_Interval DEF SplayNode
<1> QED
  BY <1>3, FS_CardinalityType

LEMMA SearchWalks ==
  ASSUME TypeInv, NEW c \in Caller, NEW kk \in Key
  PROVE  \E walk : Walks(walk, c, kk) /\ Search(c, kk) = walk[Cardinality(SplayNode)]
<1> DEFINE V == SplayNode \cup {NULL}
           K == Cardinality(SplayNode)
           g == [p \in V \X Nat |-> Onward(kk, p[1])]
<1>1. ASSUME NEW n \in V PROVE Onward(kk, n) \in V
  BY <1>1, SideFacts DEF Onward, Side, TypeInv, Sides
<1>2. g \in Steps(V)
  <2> HIDE DEF V
  <2> QED
    BY <1>1 DEF Steps
<1>3. callee_root[c] \in V
  BY DEF TypeInv
<1> HIDE DEF V, g
<1>4. PICK f : Iterates(f, V, callee_root[c], g)
  BY <1>2, <1>3, Recursion
<1>5. f \in [Nat -> V] /\ f[0] = callee_root[c] /\ \A i \in Nat : f[i + 1] = g[<<f[i], i>>]
  BY <1>4 DEF Iterates
<1>6. ASSUME NEW i \in Nat PROVE f[i + 1] = Onward(kk, f[i])
  <2>1. <<f[i], i>> \in V \X Nat
    BY <1>5
  <2>2. g[<<f[i], i>>] = Onward(kk, f[i])
    BY <2>1 DEF g
  <2> QED
    BY <1>5, <2>2
<1>7. K \in Nat
  BY NodesFinite
<1> HIDE DEF K
<1> DEFINE w == [i \in 0 .. K |-> f[i]]
<1>8. ASSUME NEW i \in 0 .. K
      PROVE  w[i] = IF i = 0 THEN callee_root[c] ELSE Onward(kk, w[i - 1])
  <2>1. CASE i = 0
    BY <1>5, <1>7, <2>1
  <2>2. CASE i # 0
    <3>1. i - 1 \in Nat /\ i - 1 \in 0 .. K /\ (i - 1) + 1 = i
      BY <1>7, <2>2
    <3>2. f[i] = Onward(kk, f[i - 1])
      BY <1>6, <3>1
    <3> QED
      BY <2>2, <3>1, <3>2
  <2> QED
    BY <2>1, <2>2
<1>9. w = [i \in 0 .. K |-> IF i = 0 THEN callee_root[c] ELSE Onward(kk, w[i - 1])]
  BY <1>8
<1> HIDE DEF w
<1>10. Walks(w, c, kk)
  BY <1>9, Zenon DEF Walks, Onward, K
<1> DEFINE walk == CHOOSE u : Walks(u, c, kk)
<1>11. Walks(walk, c, kk)
  BY <1>10, Zenon
<1>12. Search(c, kk) = walk[K]
  BY Zenon DEF Search, Walks, K
<1> HIDE DEF walk
<1> QED
  BY <1>11, <1>12 DEF K

LEMMA WalkSteps ==
  ASSUME NEW c, NEW kk, NEW walk, Walks(walk, c, kk), NEW i \in 0 .. Cardinality(SplayNode)
  PROVE  walk[i] = IF i = 0 THEN callee_root[c] ELSE Onward(kk, walk[i - 1])
<1> DEFINE K == Cardinality(SplayNode)
           W == [j \in 0 .. K |-> IF j = 0 THEN callee_root[c] ELSE Onward(kk, walk[j - 1])]
<1>1. W[i] = IF i = 0 THEN callee_root[c] ELSE Onward(kk, walk[i - 1])
  OBVIOUS
<1>2. walk = W
  BY Zenon DEF Walks, Onward
<1> HIDE DEF W
<1> QED
  BY <1>1, <1>2

(* One step leaves the part below the node's child, without the node.      *)
LEMMA StepDown ==
  ASSUME NEW A, NEW bnd, NEW r, Tree(A, child, key, bnd, r), NEW kk \in Key,
         NEW n \in A, Inside(bnd[n], kk), key[n] # kk
  PROVE  LET m == Onward(kk, n)
         IN  \/ m = NULL /\ \A y \in A : key[y] # kk
             \/ /\ m \in A /\ Inside(bnd[m], kk)
                /\ Below(A, bnd, m) \subseteq Below(A, bnd, n) \ {n}
<1> DEFINE s == Side(kk, n)
           o == Other(s)
           m == child[n][s]
<1>1. /\ kk \in Nat /\ A \subseteq SplayNode \ {Dummy} /\ key \in [SplayNode -> Nat]
      /\ bnd \in [SplayNode -> [Sides -> Int]] /\ Inside(bnd[n], key[n])
      /\ n # Dummy /\ n # NULL
  BY TreeAssumption, NodeFacts DEF Tree, Ordered
<1>2. s \in Sides /\ Beyond(s, kk, key[n])
  <2>1. key[n] \in Nat
    BY <1>1
  <2> QED
    BY <1>1, <2>1 DEF Side, Sides, Beyond
<1>3. Onward(kk, n) = m
  BY <1>1 DEF Onward
<1>4. Leads(A, key, bnd, n, s, m)
  BY <1>2 DEF Tree
<1>5. Edge(key, n, s) = key[n]
  BY <1>1 DEF Edge
<1> HIDE DEF m, s
<1>6. Beyond(o, kk, bnd[n][s])
  BY <1>2, InsideFacts
<1>7. InPart(key, bnd, n, s, kk)
  BY <1>2, <1>5, <1>6 DEF InPart
<1>8. CASE m = NULL
  BY <1>3, <1>4, <1>7, <1>8 DEF Leads
<1>9. CASE m # NULL
  <2>1. m \in A /\ bnd[m][s] = bnd[n][s] /\ bnd[m][o] = key[n]
    BY <1>4, <1>5, <1>9 DEF Leads
  <2>2. Inside(bnd[m], kk)
    BY <1>2, <1>6, <2>1, InsideFacts
  <2>3. ASSUME NEW y \in A, Inside(bnd[m], key[y])
        PROVE  y # n /\ Inside(bnd[n], key[y])
    <3>1. Beyond(o, key[y], bnd[n][s]) /\ Beyond(s, key[y], key[n])
      BY <1>2, <2>1, <2>3, InsideFacts
    <3>2. Beyond(s, key[n], bnd[n][o])
      BY <1>1, <1>2, InsideFacts
    <3>3. key[y] \in Int /\ key[n] \in Int /\ bnd[n][o] \in Int /\ o \in Sides
      BY <1>1, <1>2, SideFacts
    <3>4. Beyond(s, key[y], bnd[n][o]) /\ key[y] # key[n]
      BY <1>2, <3>1, <3>2, <3>3, Order
    <3> QED
      BY <1>2, <3>1, <3>4, InsideFacts
  <2> QED
    BY <1>3, <2>1, <2>2, <2>3 DEF Below
<1> QED
  BY <1>8, <1>9

(* The walk ends after as many steps as the tree has nodes.                *)
LEMMA SearchEnds ==
  ASSUME TypeInv, NEW c \in Caller, NEW kk \in Key, NEW walk, Walks(walk, c, kk),
         NEW A, NEW bnd, Tree(A, child, key, bnd, callee_root[c])
  PROVE  Ends(A, kk, walk[Cardinality(SplayNode)])
<1> DEFINE K == Cardinality(SplayNode)
           Size(n) == Cardinality(Below(A, bnd, n))
           Ok(i) == \/ Ends(A, kk, walk[i])
                    \/ /\ walk[i] \in A /\ Inside(bnd[walk[i]], kk)
                       /\ i + Size(walk[i]) <= Cardinality(A)
           T == {i \in 0 .. K : Ok(i)}
<1>1. /\ A \subseteq SplayNode /\ callee_root[c] \in A /\ NULL \notin A
      /\ \A n \in A : Inside(bnd[n], key[n])
      /\ \A t \in Sides : bnd[callee_root[c]][t] = End(t)
  BY NodeFacts DEF Tree, Ordered
<1>2. /\ IsFiniteSet(A) /\ Cardinality(A) \in Nat /\ Cardinality(A) <= K /\ K \in Nat
  BY <1>1, NodesFinite, FS_Subset, FS_CardinalityType
<1>3. ASSUME NEW n \in A
      PROVE  /\ IsFiniteSet(Below(A, bnd, n)) /\ Size(n) \in Nat /\ Size(n) <= Cardinality(A)
             /\ n \in Below(A, bnd, n) /\ Size(n) >= 1
  <2>1. Below(A, bnd, n) \subseteq A
    BY DEF Below
  <2>2. IsFiniteSet(Below(A, bnd, n)) /\ Size(n) \in Nat /\ Size(n) <= Cardinality(A)
    BY <1>2, <2>1, FS_Subset, FS_CardinalityType
  <2>3. n \in Below(A, bnd, n)
    BY <1>1 DEF Below
  <2>4. Size(n) # 0
    BY <2>2, <2>3, FS_EmptySet
  <2> QED
    BY <2>2, <2>3, <2>4
<1>4. \A i \in 0 .. K :
        walk[i] = IF i = 0 THEN callee_root[c] ELSE Onward(kk, walk[i - 1])
  BY WalkSteps
<1> HIDE DEF K, Size
<1>5. 0 \in T
  <2>1. walk[0] = callee_root[c] /\ 0 \in 0 .. K
    BY <1>2, <1>4
  <2>2. Inside(bnd[callee_root[c]], kk)
    BY <1>1, KeyInEnds DEF Inside
  <2> QED
    BY <1>1, <1>2, <1>3, <2>1, <2>2
<1>6. ASSUME NEW i \in 0 .. K - 1, i \in T PROVE i + 1 \in T
  <2>1. i \in 0 .. K /\ i + 1 \in 0 .. K /\ i + 1 # 0 /\ (i + 1) - 1 = i
    BY <1>2
  <2>2. walk[i + 1] = Onward(kk, walk[i])
    BY <1>4, <2>1
  <2>3. CASE Ends(A, kk, walk[i])
    <3>1. walk[i + 1] = walk[i]
      BY <2>2, <2>3 DEF Ends, Onward
    <3> QED
      BY <2>1, <2>3, <3>1
  <2>4. CASE ~ Ends(A, kk, walk[i])
    <3>1. walk[i] \in A /\ Inside(bnd[walk[i]], kk) /\ i + Size(walk[i]) <= Cardinality(A)
      BY <1>6, <2>4
    <3>2. key[walk[i]] # kk
      BY <1>1, <2>4, <3>1 DEF Ends
    <3> DEFINE m == walk[i + 1]
               n == walk[i]
    <3>3. \/ m = NULL /\ \A y \in A : key[y] # kk
          \/ /\ m \in A /\ Inside(bnd[m], kk)
             /\ Below(A, bnd, m) \subseteq Below(A, bnd, n) \ {n}
      BY <2>2, <3>1, <3>2, StepDown
    <3> HIDE DEF m, n
    <3>4. CASE m = NULL /\ \A y \in A : key[y] # kk
      BY <2>1, <3>4 DEF Ends, m
    <3>5. CASE m \in A /\ Inside(bnd[m], kk) /\ Below(A, bnd, m) \subseteq Below(A, bnd, n) \ {n}
      <4>1. n \in A /\ i + Size(n) <= Cardinality(A)
        BY <3>1 DEF n
      <4>2. /\ IsFiniteSet(Below(A, bnd, n) \ {n})
            /\ Cardinality(Below(A, bnd, n) \ {n}) = Size(n) - 1
        BY <1>3, <4>1, FS_RemoveElement DEF Size
      <4>3. Size(m) <= Size(n) - 1
        BY <3>5, <4>2, FS_Subset DEF Size
      <4>4. (i + 1) + Size(m) <= Cardinality(A)
        BY <1>2, <1>3, <3>5, <4>1, <4>3, <2>1
      <4> QED
        BY <2>1, <3>5, <4>4 DEF m
    <3> QED
      BY <3>3, <3>4, <3>5
  <2> QED
    BY <2>3, <2>4
<1>7. K \in T
  <2> HIDE DEF T
  <2>1. 0 .. K \subseteq T
    BY <1>2, <1>5, <1>6, IntervalInduction
  <2> QED
    BY <1>2, <2>1
<1>8. ~ (walk[K] \in A /\ K + Size(walk[K]) <= Cardinality(A))
  BY <1>2, <1>3
<1> QED
  BY <1>7, <1>8 DEF K

LEMMA SearchFinds == IInv => Findable
<1> SUFFICES ASSUME IInv, phase = "idle", NEW c \in Caller, NEW kk \in Key
             PROVE  LET n == Search(c, kk)
                    IN IF n = NULL THEN callee[c][kk] = NULL
                       ELSE callee[c][kk] # NULL /\ payload[n] = callee[c][kk]
  BY DEF Findable
<1>1. TypeInv /\ NumberInv /\ CalleeInv /\ TreeOK(c)
  BY DEF IInv, TreesInv
<1>2. PICK walk : Walks(walk, c, kk) /\ Search(c, kk) = walk[Cardinality(SplayNode)]
  BY <1>1, SearchWalks
<1> DEFINE n == Search(c, kk)
<1> HIDE DEF n
<1>3. Ends(Owned(c), kk, n)
  <2>1. CASE callee_root[c] = NULL
    <3>1. Owned(c) = {}
      BY <1>1, <2>1 DEF TreeOK
    <3>2. n = NULL
      <4> DEFINE K == Cardinality(SplayNode)
                 T == {i \in 0 .. K : walk[i] = NULL}
      <4>1. K \in Nat
        BY NodesFinite
      <4>2. \A i \in 0 .. K :
              walk[i] = IF i = 0 THEN callee_root[c] ELSE Onward(kk, walk[i - 1])
        BY <1>2, WalkSteps
      <4> HIDE DEF K
      <4>3. 0 \in T
        BY <2>1, <4>1, <4>2
      <4>4. ASSUME NEW i \in 0 .. K - 1, i \in T PROVE i + 1 \in T
        BY <4>1, <4>2, <4>4 DEF Onward
      <4>5. 0 .. K \subseteq T
        <5> HIDE DEF T
        <5> QED
          BY <4>1, <4>3, <4>4, IntervalInduction
      <4> QED
        BY <1>2, <4>1, <4>5 DEF n, K
    <3> QED
      BY <3>1, <3>2 DEF Ends
  <2>2. CASE callee_root[c] # NULL
    <3>1. PICK bnd : Tree(Owned(c), child, key, bnd, callee_root[c])
      BY <1>1, <2>2 DEF TreeOK
    <3> QED
      BY <1>1, <1>2, <3>1, SearchEnds DEF n
  <2> QED
    BY <2>1, <2>2
<1>4. CASE n = NULL
  <2>1. SUFFICES ASSUME callee[c][kk] # NULL PROVE FALSE
    BY <1>4 DEF n
  <2>2. callee[c][kk] \in Owned(c) /\ key[callee[c][kk]] = kk
    BY <1>1, <2>1, OwnedFacts DEF CalleeInv
  <2> QED
    BY <1>3, <1>4, <2>2 DEF Ends
<1>5. CASE n # NULL
  <2>1. n \in Owned(c) /\ key[n] = kk
    BY <1>3, <1>5 DEF Ends
  <2>2. PICK x \in Key : n = callee[c][x]
    BY <1>1, <2>1, OwnedFacts
  <2>3. x = kk
    BY <1>1, <1>5, <2>1, <2>2 DEF CalleeInv
  <2>4. n \in 1 .. created /\ n \in SplayNode
    BY <1>1, <2>1, OwnedFacts
  <2>5. payload[n] = n
    BY <1>1, <2>4 DEF NumberInv
  <2> QED
    BY <1>5, <2>2, <2>3, <2>5 DEF n
<1> QED
  BY <1>4, <1>5

(* Between updates every tree is a search tree of its caller's callees: a  *)
(* search for a key ends at the node its caller was given for it, or       *)
(* nowhere if there is none, whatever splay_tree_update has looked up and  *)
(* inserted before in this or in any other tree of the thread.             *)
THEOREM CalleesAreFound == Spec => []Findable
BY SearchFinds, Inductive, PTL
=============================================================================
