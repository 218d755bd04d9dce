--------------------------- MODULE DataInduction ---------------------------
(***************************************************************************)
(* Induction and recursion over data as facts about sets and functions.    *)
(*                                                                         *)
(* The induction theorems of the library take the property as an operator, *)
(* which the provers cannot instantiate.  A set can be instantiated: what  *)
(* is proved of a number is that it belongs to the set.  That every        *)
(* nonempty set of numbers has a least element follows from the strict     *)
(* subset order on finite sets being well-founded, and everything else     *)
(* from that: induction, the existence of functions defined by recursion,  *)
(* and of the functions by which the folds of the community modules are    *)
(* defined, and what the sums of their values are.                         *)
(***************************************************************************)
EXTENDS Integers, Sequences, FiniteSetsExt, FiniteSetTheorems, WellFoundedInduction, TLAPS

(* Every set of natural numbers that is not empty has a least element.     *)
LEMMA LeastNumber ==
  ASSUME NEW T, T \subseteq Nat, T # {}
  PROVE  \E m \in T : \A n \in T : m <= n
<1> DEFINE Up == {0 .. n : n \in T}
<1>0. PICK k \in T : TRUE
  OBVIOUS
<1>1. \A n \in T : IsFiniteSet(0 .. n)
  BY FS_Interval
<1>2. Up \subseteq FiniteSubsetsOf(Nat)
  BY <1>1 DEF FiniteSubsetsOf
<1>3. Up # {}
  BY <1>0
<1>4. PICK s \in Up : \A r \in Up : ~ (<<r, s>> \in StrictSubsetOrdering(Nat))
  <2> HIDE DEF Up
  <2>1. IsWellFoundedOn(StrictSubsetOrdering(Nat), FiniteSubsetsOf(Nat))
    BY FS_StrictSubsetOrderingWellFounded
  <2> QED
    BY <2>1, <1>2, <1>3, WFMin
<1>5. PICK m \in T : s = 0 .. m
  OBVIOUS
<1>6. ASSUME NEW n \in T, n < m PROVE FALSE
  <2>1. 0 .. n \in Up
    OBVIOUS
  <2>2. 0 .. n \subseteq 0 .. m /\ 0 .. n # 0 .. m
    BY <1>6
  <2>3. <<0 .. n, 0 .. m>> \in (SUBSET Nat) \X (SUBSET Nat)
    OBVIOUS
  <2>4. <<0 .. n, 0 .. m>> \in StrictSubsetOrdering(Nat)
    BY <2>2, <2>3 DEF StrictSubsetOrdering
  <2> QED
    BY <2>1, <2>4, <1>4, <1>5
<1> QED
  BY <1>6

(* Induction, about a set: what holds is membership.                       *)
LEMMA Induction ==
  ASSUME NEW T, 0 \in T, \A n \in Nat : n \in T => n + 1 \in T
  PROVE  Nat \subseteq T
<1> SUFFICES ASSUME Nat \ T # {} PROVE FALSE
  OBVIOUS
<1>1. PICK m \in Nat \ T : \A n \in Nat \ T : m <= n
  BY LeastNumber
<1>2. m # 0 /\ m - 1 \in Nat /\ m - 1 \in T
  BY <1>1
<1> QED
  BY <1>2

(* The same between two numbers.                                           *)
LEMMA IntervalInduction ==
  ASSUME NEW T, NEW a \in Nat, NEW b \in Nat, a \in T,
         \A n \in a .. b - 1 : n \in T => n + 1 \in T
  PROVE  a .. b \subseteq T
<1> DEFINE Held == {n \in Nat : a + n <= b => a + n \in T}
<1>1. 0 \in Held
  OBVIOUS
<1>2. ASSUME NEW n \in Nat, n \in Held PROVE n + 1 \in Held
  <2> SUFFICES ASSUME a + (n + 1) <= b PROVE a + (n + 1) \in T
    OBVIOUS
  <2>1. a + n \in a .. b - 1 /\ a + n \in T
    BY <1>2
  <2>2. (a + n) + 1 \in T
    BY <2>1
  <2> QED
    BY <2>2
<1>3. Nat \subseteq Held
  <2> HIDE DEF Held
  <2> QED
    BY <1>1, <1>2, Induction
<1> SUFFICES ASSUME NEW i \in a .. b PROVE i \in T
  OBVIOUS
<1>4. i - a \in Nat /\ a + (i - a) = i
  OBVIOUS
<1> QED
  BY <1>3, <1>4

(* The steps of a recursion on the natural numbers.                        *)
Steps(V) == [V \X Nat -> V]

(* f begins with v and goes on by g, which is told the number of the step. *)
Iterates(f, V, v, g) ==
  /\ f \in [Nat -> V]
  /\ f[0] = v
  /\ \A n \in Nat : f[n + 1] = g[<<f[n], n>>]

(* A start and a step, given as functions, define a function on the        *)
(* natural numbers.                                                        *)
LEMMA Recursion ==
  ASSUME NEW V, NEW v \in V, NEW g \in Steps(V)
  PROVE  \E f : Iterates(f, V, v, g)
<1> USE DEF Steps
<1> DEFINE Upto(n, f) == /\ f \in [0 .. n -> V]
                         /\ f[0] = v
                         /\ \A i \in 0 .. n - 1 : f[i + 1] = g[<<f[i], i>>]
           Some == {n \in Nat : \E f \in [0 .. n -> V] : Upto(n, f)}
<1>1. Nat \subseteq Some
  <2>1. 0 \in Some
    <3>1. [i \in 0 .. 0 |-> v] \in [0 .. 0 -> V] /\ Upto(0, [i \in 0 .. 0 |-> v])
      OBVIOUS
    <3> QED
      BY <3>1
  <2>2. ASSUME NEW n \in Nat, n \in Some PROVE n + 1 \in Some
    <3>1. PICK f \in [0 .. n -> V] : Upto(n, f)
      BY <2>2
    <3> DEFINE h == [i \in 0 .. n + 1 |-> IF i = n + 1 THEN g[<<f[n], n>>] ELSE f[i]]
    <3>2. g[<<f[n], n>>] \in V
      OBVIOUS
    <3>3. h \in [0 .. n + 1 -> V]
      BY <3>2
    <3>4. Upto(n + 1, h)
      <4>1. h[0] = v
        BY <3>1
      <4>2. ASSUME NEW i \in 0 .. (n + 1) - 1 PROVE h[i + 1] = g[<<h[i], i>>]
        <5>1. i \in 0 .. n + 1 /\ i + 1 \in 0 .. n + 1 /\ i # n + 1
          OBVIOUS
        <5>2. h[i] = f[i] /\ h[i + 1] = IF i = n THEN g[<<f[n], n>>] ELSE f[i + 1]
          BY <5>1
        <5> QED
          BY <5>1, <5>2, <3>1
      <4> QED
        BY <3>3, <4>1, <4>2
    <3> HIDE DEF h, Upto
    <3>5. \E e \in [0 .. n + 1 -> V] : Upto(n + 1, e)
      BY <3>3, <3>4
    <3> QED
      BY <3>5
  <2> HIDE DEF Some
  <2> QED
    BY <2>1, <2>2, Induction
<1>2. ASSUME NEW m \in Nat, NEW n \in Nat, m <= n,
             NEW e \in [0 .. m -> V], NEW f \in [0 .. n -> V], Upto(m, e), Upto(n, f)
      PROVE  e[m] = f[m]
  <2> DEFINE Same == {i \in Nat : i <= m => e[i] = f[i]}
  <2>1. 0 \in Same
    BY <1>2
  <2>2. ASSUME NEW i \in Nat, i \in Same PROVE i + 1 \in Same
    <3> SUFFICES ASSUME i + 1 <= m PROVE e[i + 1] = f[i + 1]
      OBVIOUS
    <3>1. i \in 0 .. m - 1 /\ i \in 0 .. n - 1
      BY <1>2
    <3>2. e[i] = f[i]
      BY <2>2
    <3>3. e[i + 1] = g[<<e[i], i>>] /\ f[i + 1] = g[<<f[i], i>>]
      BY <1>2, <3>1
    <3> QED
      BY <3>2, <3>3
  <2> HIDE DEF Same
  <2>3. Nat \subseteq Same
    BY <2>1, <2>2, Induction
  <2>4. m \in Same
    BY <2>3
  <2> QED
    BY <2>4 DEF Same
<1> DEFINE h(n) == CHOOSE f \in [0 .. n -> V] : Upto(n, f)
           F == [n \in Nat |-> h(n)[n]]
<1>3. \A n \in Nat : h(n) \in [0 .. n -> V] /\ Upto(n, h(n))
  BY <1>1
<1> HIDE DEF h
<1>4. F \in [Nat -> V]
  BY <1>3
<1>5. F[0] = v
  BY <1>3
<1>6. ASSUME NEW n \in Nat PROVE F[n + 1] = g[<<F[n], n>>]
  <2>1. F[n + 1] = h(n + 1)[n + 1] /\ F[n] = h(n)[n]
    OBVIOUS
  <2>2. Upto(n, h(n)) /\ Upto(n + 1, h(n + 1)) /\ h(n) \in [0 .. n -> V] /\ h(n + 1) \in [0 .. n + 1 -> V]
    BY <1>3
  <2>3. h(n)[n] = h(n + 1)[n]
    BY <2>2, <1>2, SMTT(20)
  <2>4. h(n + 1)[n + 1] = g[<<h(n + 1)[n], n>>]
    BY <2>2
  <2> QED
    BY <2>1, <2>3, <2>4
<1> QED
  BY <1>4, <1>5, <1>6 DEF Iterates

(* The maximum of FiniteSetsExt, on which the folds over sequences depend: *)
(* they take the largest index first.                                      *)
LEMMA MaxOfBounded ==
  ASSUME NEW s \in SUBSET Nat, s # {}, NEW n \in Nat, \A i \in s : i <= n
  PROVE  Max(s) \in s /\ \A i \in s : i <= Max(s)
<1> DEFINE Above == {k \in Nat : \A i \in s : i <= k}
<1>1. n \in Above
  OBVIOUS
<1>2. PICK m \in Above : \A k \in Above : m <= k
  BY <1>1, LeastNumber
<1>3. m \in s
  <2> SUFFICES ASSUME m \notin s PROVE FALSE
    OBVIOUS
  <2>1. PICK i \in s : TRUE
    OBVIOUS
  <2>2. m # 0
    BY <1>2, <2>1
  <2>3. m - 1 \in Above
    BY <1>2, <2>2
  <2> QED
    BY <1>2, <2>3
<1> QED
  BY <1>2, <1>3 DEF Max

(* A set of indices is bounded by the length.                              *)
LEMMA MaxOfSet ==
  ASSUME NEW n \in Nat, NEW s \in SUBSET (1 .. n), s # {}
  PROVE  Max(s) \in s /\ \A i \in s : i <= Max(s)
<1>1. s \in SUBSET Nat /\ \A i \in s : i <= n
  OBVIOUS
<1> QED
  BY <1>1, MaxOfBounded

(* So is a finite set of numbers: by induction on how many there are.      *)
LEMMA MaxOfFinite ==
  ASSUME NEW s \in SUBSET Nat, s # {}, IsFiniteSet(s)
  PROVE  Max(s) \in s /\ \A i \in s : i <= Max(s)
<1> DEFINE Bounded(x) == \E m \in Nat : \A i \in x : i <= m
           T == {n \in Nat : \A x \in SUBSET Nat : IsFiniteSet(x) /\ Cardinality(x) = n => Bounded(x)}
<1>1. 0 \in T
  <2>1. \A x \in SUBSET Nat : IsFiniteSet(x) /\ Cardinality(x) = 0 => x = {}
    BY FS_EmptySet
  <2> QED
    BY <2>1
<1>2. ASSUME NEW n \in Nat, n \in T PROVE n + 1 \in T
  <2> SUFFICES ASSUME NEW x \in SUBSET Nat, IsFiniteSet(x), Cardinality(x) = n + 1
               PROVE  Bounded(x)
    OBVIOUS
  <2>0. x # {}
    BY FS_EmptySet
  <2>1. PICK a \in x : TRUE
    BY <2>0
  <2> DEFINE y == x \ {a}
  <2>2. IsFiniteSet(y) /\ Cardinality(y) = n /\ y \in SUBSET Nat
    <3>1. IsFiniteSet(y) /\ Cardinality(y) = Cardinality(x) - 1
      BY <2>1, FS_RemoveElement
    <3> QED
      BY <3>1
  <2>3. PICK m \in Nat : \A i \in y : i <= m
    BY <1>2, <2>2
  <2>4. \A i \in x : i <= m + a
    BY <2>1, <2>3
  <2>5. m + a \in Nat
    BY <2>1, <2>3
  <2> QED
    BY <2>4, <2>5
<1>3. Bounded(s)
  <2> HIDE DEF Bounded
  <2>1. Nat \subseteq T
    <3> HIDE DEF T
    <3> QED
      BY <1>1, <1>2, Induction
  <2>2. Cardinality(s) \in Nat
    BY FS_CardinalityType
  <2> QED
    BY <2>1, <2>2
<1> QED
  BY <1>3, MaxOfBounded

(* The largest number of an interval is its end.                           *)
LEMMA MaxOfInterval ==
  ASSUME NEW k \in Nat \ {0}
  PROVE  Max(1 .. k) = k
BY MaxOfSet DEF Max

(* What a fold does with an element and the result for the others.         *)
FoldSteps(S, V) == [S \X V -> V]

(* c says which element of a set the fold takes out first.                 *)
Chooses(c, S) == \A s \in SUBSET S : s # {} => c[s] \in s

(* f is the function a fold over S is defined by.                          *)
Folds(f, S, V, v, g, c) ==
  /\ f \in [SUBSET S -> V]
  /\ f = [s \in SUBSET S |-> IF s = {} THEN v ELSE g[<<c[s], f[s \ {c[s]}]>>]]

(* There is such a function, so the CHOOSE in the definition of a fold has *)
(* something to choose: the step, begun anywhere, has settled the result   *)
(* for a set once it has been taken as often as the set has elements.      *)
LEMMA FoldExists ==
  ASSUME NEW S, IsFiniteSet(S), NEW V, NEW v \in V, NEW g \in FoldSteps(S, V),
         NEW c, Chooses(c, S)
  PROVE  \E f : Folds(f, S, V, v, g, c)
<1> USE DEF FoldSteps, Chooses
<1> DEFINE Step(w) == [s \in SUBSET S |-> IF s = {} THEN v ELSE g[<<c[s], w[s \ {c[s]}]>>]]
           F == [SUBSET S -> V]
           G == [p \in F \X Nat |-> Step(p[1])]
           W0 == [s \in SUBSET S |-> v]
<1>1. ASSUME NEW w \in F PROVE Step(w) \in F
  <2>1. ASSUME NEW s \in SUBSET S, s # {} PROVE g[<<c[s], w[s \ {c[s]}]>>] \in V
    <3>1. c[s] \in S /\ s \ {c[s]} \in SUBSET S
      BY <2>1
    <3>2. w[s \ {c[s]}] \in V
      BY <3>1
    <3> QED
      BY <3>1, <3>2
  <2> QED
    BY <2>1
<1> HIDE DEF Step
<1>2. G \in Steps(F)
  <2> HIDE DEF F
  <2> QED
    BY <1>1 DEF Steps
<1>3. W0 \in F
  OBVIOUS
<1> HIDE DEF G, W0, F
<1>4. PICK w : Iterates(w, F, W0, G)
  BY <1>2, <1>3, Recursion
<1>0. w \in [Nat -> F] /\ w[0] = W0 /\ \A k \in Nat : w[k + 1] = G[<<w[k], k>>]
  BY <1>4 DEF Iterates
<1> USE DEF G, W0, F
<1>5. ASSUME NEW k \in Nat PROVE w[k + 1] = Step(w[k])
  <2> HIDE DEF F, W0
  <2>0. w[k] \in F
    BY <1>0
  <2>1. <<w[k], k>> \in F \X Nat
    BY <2>0
  <2>2. G[<<w[k], k>>] = Step(w[k])
    BY <2>1
  <2> QED
    BY <1>0, <2>2
<1> USE DEF Step
<1> HIDE DEF G, W0
<1> DEFINE Settled == {k \in Nat : \A s \in SUBSET S : Cardinality(s) <= k => w[k + 1][s] = w[k][s]}
<1>6. ASSUME NEW s \in SUBSET S
      PROVE  /\ IsFiniteSet(s) /\ Cardinality(s) \in Nat
             /\ s # {} => Cardinality(s \ {c[s]}) = Cardinality(s) - 1
             /\ Cardinality(s) = 0 => s = {}
  BY FS_Subset, FS_CardinalityType, FS_RemoveElement, FS_EmptySet
<1>7. 0 \in Settled
  <2> SUFFICES ASSUME NEW s \in SUBSET S, Cardinality(s) <= 0
               PROVE  w[0 + 1][s] = w[0][s]
    OBVIOUS
  <2>1. Cardinality(s) \in Nat /\ (Cardinality(s) = 0 => s = {})
    BY <1>6, Zenon
  <2>2. w[0][s] = v
    BY <1>0 DEF W0
  <2>3. s = {}
    BY <2>1
  <2>4. w[0 + 1] = Step(w[0])
    <3> HIDE DEF Step
    <3> QED
      BY <1>5
  <2>5. w[0 + 1][s] = v
    BY <2>3, <2>4
  <2> QED
    BY <2>2, <2>5
<1>8. ASSUME NEW k \in Nat, k \in Settled PROVE k + 1 \in Settled
  <2> SUFFICES ASSUME NEW s \in SUBSET S, Cardinality(s) <= k + 1
               PROVE  w[(k + 1) + 1][s] = w[k + 1][s]
    OBVIOUS
  <2>1. w[(k + 1) + 1] = Step(w[k + 1]) /\ w[k + 1] = Step(w[k])
    <3> HIDE DEF Step
    <3> QED
      BY <1>5
  <2>2. CASE s = {}
    BY <2>1, <2>2
  <2>3. CASE s # {}
    <3>0. Cardinality(s) \in Nat /\ Cardinality(s \ {c[s]}) = Cardinality(s) - 1
      BY <1>6, <2>3, Zenon
    <3>1. s \ {c[s]} \in SUBSET S /\ Cardinality(s \ {c[s]}) <= k
      BY <3>0
    <3>2. w[k + 1][s \ {c[s]}] = w[k][s \ {c[s]}]
      BY <1>8, <3>1
    <3>3. w[(k + 1) + 1][s] = g[<<c[s], w[k + 1][s \ {c[s]}]>>]
      BY <2>1, <2>3
    <3>4. w[k + 1][s] = g[<<c[s], w[k][s \ {c[s]}]>>]
      BY <2>1, <2>3
    <3> QED
      BY <3>2, <3>3, <3>4
  <2> QED
    BY <2>2, <2>3
<1> DEFINE n == Cardinality(S)
<1>9. n \in Nat /\ \A s \in SUBSET S : Cardinality(s) <= n
  BY FS_Subset, FS_CardinalityType
<1>10. n \in Settled
  <2> HIDE DEF Settled
  <2>1. Nat \subseteq Settled
    BY <1>7, <1>8, Induction
  <2> QED
    BY <1>9, <2>1
<1> HIDE DEF n
<1>11. \A s \in SUBSET S : w[n + 1][s] = w[n][s]
  BY <1>9, <1>10
<1>12. w[n] \in [SUBSET S -> V] /\ w[n + 1] \in [SUBSET S -> V]
  <2>1. n \in Nat /\ n + 1 \in Nat
    BY <1>9
  <2> QED
    BY <1>0, <2>1
<1>13. w[n + 1] = w[n]
  BY <1>11, <1>12
<1>14. w[n] = Step(w[n])
  <2> HIDE DEF Step
  <2> QED
    BY <1>5, <1>9, <1>13
<1> QED
  BY <1>12, <1>14, Zenon DEF Folds

-----------------------------------------------------------------------------
(* Sums of the community modules: no lemma on them comes with the library. *)


(* The values of f on a set are numbers.                                   *)
Numbers(f, S) == IsFiniteSet(S) /\ \A x \in S : f[x] \in Nat

(* F is the function by which the sum of f over a set is defined.          *)
IsSumOf(F, f, S) ==
  /\ F \in [SUBSET S -> Nat]
  /\ F = [s \in SUBSET S |-> IF s = {} THEN 0
                          ELSE f[CHOOSE x \in s : TRUE] + F[s \ {CHOOSE x \in s : TRUE}]]

(* A sum is the value of such a function at the set summed over.           *)
LEMMA SumByFold ==
  ASSUME NEW S, NEW f, Numbers(f, S)
  PROVE  \E F : IsSumOf(F, f, S) /\ SumFunctionOnSet(f, S) = F[S]
<1>0. IsFiniteSet(S) /\ \A x \in S : f[x] \in Nat
  BY DEF Numbers
<1> DEFINE c == [s \in SUBSET S |-> CHOOSE x \in s : TRUE]
           g == [p \in S \X Nat |-> f[p[1]] + p[2]]
           Sums(F) == F = [s \in SUBSET S |-> IF s = {} THEN 0
                            ELSE f[CHOOSE x \in s : TRUE] + F[s \ {CHOOSE x \in s : TRUE}]]
           it == CHOOSE F : Sums(F)
<1>1. SumFunctionOnSet(f, S) = it[S]
  BY Zenon DEF SumFunctionOnSet, FoldFunctionOnSet, MapThenFoldSet
<1>2. Chooses(c, S)
  BY DEF Chooses
<1>3. g \in FoldSteps(S, Nat)
  BY <1>0 DEF FoldSteps
<1>4. PICK F : Folds(F, S, Nat, 0, g, c)
  <2> HIDE DEF g, c
  <2> QED
    BY <1>0, <1>2, <1>3, FoldExists
<1>5. F \in [SUBSET S -> Nat]
      /\ F = [s \in SUBSET S |-> IF s = {} THEN 0 ELSE g[<<c[s], F[s \ {c[s]}]>>]]
  BY <1>4, Zenon DEF Folds
<1>6. Sums(F)
  <2>1. ASSUME NEW s \in SUBSET S, s # {}
        PROVE  g[<<c[s], F[s \ {c[s]}]>>]
                 = f[CHOOSE x \in s : TRUE] + F[s \ {CHOOSE x \in s : TRUE}]
    <3>1. c[s] = (CHOOSE x \in s : TRUE) /\ c[s] \in S
      BY <1>2, <2>1 DEF Chooses
    <3>2. F[s \ {c[s]}] \in Nat
      BY <1>5
    <3>0. \A x \in S : f[x] \in Nat
      BY <1>0
    <3> DEFINE a == c[s]
               rest == F[s \ {c[s]}]
    <3>3. g[<<a, rest>>] = f[a] + rest
      <4>1. a \in S /\ rest \in Nat
        BY <3>1, <3>2
      <4> HIDE DEF a, rest
      <4> QED
        BY <4>1
    <3> QED
      BY <3>1, <3>3, Zenon
  <2> QED
    BY <1>5, <2>1
<1>7. Sums(it)
  <2> HIDE DEF Sums
  <2> QED
    BY <1>6, Zenon
<1> HIDE DEF it
<1>9. it \in [SUBSET S -> Nat]
  <2> DEFINE T == {n \in Nat : \A s \in SUBSET S : Cardinality(s) = n => it[s] \in Nat}
  <2>0. \A s \in SUBSET S : IsFiniteSet(s) /\ Cardinality(s) \in Nat /\ (Cardinality(s) = 0 => s = {})
    BY <1>0, FS_Subset, FS_CardinalityType, FS_EmptySet
  <2>1. 0 \in T
    BY <1>7, <2>0
  <2>2. ASSUME NEW n \in Nat, n \in T PROVE n + 1 \in T
    <3> SUFFICES ASSUME NEW s \in SUBSET S, Cardinality(s) = n + 1 PROVE it[s] \in Nat
      OBVIOUS
    <3>1. s # {}
      BY FS_EmptySet
    <3> DEFINE x == CHOOSE y \in s : TRUE
    <3>2. x \in s
      BY <3>1
    <3>3. it[s] = f[x] + it[s \ {x}]
      BY <1>7, <3>1
    <3> HIDE DEF x
    <3>4. s \ {x} \in SUBSET S /\ Cardinality(s \ {x}) = n
      BY <2>0, <3>2, FS_RemoveElement
    <3>5. it[s \ {x}] \in Nat /\ f[x] \in Nat
      BY <1>0, <2>2, <3>2, <3>4
    <3> QED
      BY <3>3, <3>5
  <2>3. Nat \subseteq T
    <3> HIDE DEF T
    <3> QED
      BY <2>1, <2>2, Induction
  <2>4. \A s \in SUBSET S : it[s] \in Nat
    BY <2>0, <2>3
  <2> QED
    BY <1>7, <2>4
<1>8. IsSumOf(it, f, S)
  BY <1>7, <1>9, Zenon DEF IsSumOf
<1> QED
  BY <1>1, <1>8

(* The elements may be taken in any order.                                 *)
LEMMA SumTakes ==
  ASSUME NEW S, NEW f, Numbers(f, S),
         NEW F, IsSumOf(F, f, S)
  PROVE  \A s \in SUBSET S : \A x \in s : F[s] = f[x] + F[s \ {x}]
<1> DEFINE T == {n \in Nat : \A s \in SUBSET S : Cardinality(s) = n =>
                              \A x \in s : F[s] = f[x] + F[s \ {x}]}
<1>0. \A s \in SUBSET S : IsFiniteSet(s) /\ Cardinality(s) \in Nat /\ (Cardinality(s) = 0 <=> s = {})
  BY FS_Subset, FS_CardinalityType, FS_EmptySet DEF Numbers
<1>1. 0 \in T
  BY <1>0
<1>2. ASSUME NEW n \in Nat, n \in T PROVE n + 1 \in T
  <2> SUFFICES ASSUME NEW s \in SUBSET S, Cardinality(s) = n + 1, NEW x \in s
               PROVE  F[s] = f[x] + F[s \ {x}]
    OBVIOUS
  <2> DEFINE y == CHOOSE z \in s : TRUE
  <2>1. y \in s
    OBVIOUS
  <2>2. F[s] = f[y] + F[s \ {y}]
    BY DEF IsSumOf
  <2> HIDE DEF y
  <2>3. CASE x = y
    BY <2>2, <2>3
  <2>4. CASE x # y
    <3> DEFINE sx == s \ {x}
               sy == s \ {y}
    <3>1. sx \in SUBSET S /\ sy \in SUBSET S /\ Cardinality(sx) = n /\ Cardinality(sy) = n
      BY <1>0, <2>1, FS_RemoveElement
    <3>2. F[sy] = f[x] + F[sy \ {x}]
      BY <1>2, <2>4, <3>1
    <3>3. F[sx] = f[y] + F[sx \ {y}]
      BY <1>2, <2>1, <2>4, <3>1
    <3>4. sx \ {y} = sy \ {x}
      OBVIOUS
    <3>5. f[x] \in Nat /\ f[y] \in Nat /\ F[sy \ {x}] \in Nat
      BY <2>1, <3>1 DEF IsSumOf, Numbers
    <3> HIDE DEF sx, sy
    <3>6. F[sx] = f[y] + F[sy \ {x}]
      BY <3>3, <3>4
    <3>7. F[s] = f[y] + F[sy]
      BY <2>2 DEF sy
    <3>8. F[s] = f[x] + F[sx]
      BY <3>2, <3>5, <3>6, <3>7
    <3> QED
      BY <3>8 DEF sx
  <2> QED
    BY <2>3, <2>4
<1>3. Nat \subseteq T
  <2> HIDE DEF T
  <2> QED
    BY <1>1, <1>2, Induction
<1> QED
  BY <1>0, <1>3

(* Two such functions agree where what they sum agrees.                    *)
LEMMA SumsAgree ==
  ASSUME NEW S, NEW f, Numbers(f, S),
         NEW F, IsSumOf(F, f, S),
         NEW R, NEW g, Numbers(g, R),
         NEW G, IsSumOf(G, g, R),
         NEW s, s \subseteq S, s \subseteq R, \A x \in s : f[x] = g[x]
  PROVE  F[s] = G[s]
<1>5. ASSUME NEW u \in SUBSET s, NEW x \in u PROVE F[u] = f[x] + F[u \ {x}]
  <2>1. u \in SUBSET S
    OBVIOUS
  <2> QED
    BY <2>1, SumTakes
<1>6. ASSUME NEW u \in SUBSET s, NEW x \in u PROVE G[u] = g[x] + G[u \ {x}]
  <2>1. u \in SUBSET R
    OBVIOUS
  <2> QED
    BY <2>1, SumTakes
<1> DEFINE T == {n \in Nat : \A u \in SUBSET s : Cardinality(u) = n => F[u] = G[u]}
<1>7. IsFiniteSet(s) /\ IsFiniteSet(S)
  BY FS_Subset DEF Numbers
<1>0. \A u \in SUBSET s : IsFiniteSet(u) /\ Cardinality(u) \in Nat /\ (Cardinality(u) = 0 <=> u = {})
  BY <1>7, FS_Subset, FS_CardinalityType, FS_EmptySet
<1>1. 0 \in T
  BY <1>0 DEF IsSumOf
<1>2. ASSUME NEW n \in Nat, n \in T PROVE n + 1 \in T
  <2> SUFFICES ASSUME NEW u \in SUBSET s, Cardinality(u) = n + 1 PROVE F[u] = G[u]
    OBVIOUS
  <2>1. u # {}
    BY <1>0
  <2>2. PICK x \in u : TRUE
    BY <2>1
  <2>3. F[u] = f[x] + F[u \ {x}]
    BY <1>5, <2>2
  <2>4. G[u] = g[x] + G[u \ {x}]
    BY <1>6, <2>2
  <2>5. u \ {x} \in SUBSET s /\ Cardinality(u \ {x}) = n
    <3>1. Cardinality(u \ {x}) = Cardinality(u) - 1
      BY <1>0, FS_RemoveElement
    <3> QED
      BY <3>1
  <2>6. F[u \ {x}] = G[u \ {x}]
    BY <1>2, <2>5
  <2> QED
    BY <2>3, <2>4, <2>6
<1>3. Nat \subseteq T
  <2> HIDE DEF T
  <2> QED
    BY <1>1, <1>2, Induction
<1>4. s \in SUBSET s /\ Cardinality(s) \in Nat
  BY <1>0
<1> QED
  BY <1>3, <1>4

(* What a sum is, from one set to the next larger one.                     *)
LEMMA SumOnSet ==
  ASSUME NEW S, NEW f, Numbers(f, S)
  PROVE  /\ SumFunctionOnSet(f, S) \in Nat
         /\ S = {} => SumFunctionOnSet(f, S) = 0
         /\ \A x \in S : SumFunctionOnSet(f, S) = f[x] + SumFunctionOnSet(f, S \ {x})
<1>1. PICK F : IsSumOf(F, f, S) /\ SumFunctionOnSet(f, S) = F[S]
  BY SumByFold
<1>2. S \in SUBSET S
  OBVIOUS
<1>3. SumFunctionOnSet(f, S) \in Nat
  BY <1>1, <1>2 DEF IsSumOf
<1>4. ASSUME S = {} PROVE SumFunctionOnSet(f, S) = 0
  BY <1>1, <1>4 DEF IsSumOf
<1>5. ASSUME NEW x \in S PROVE SumFunctionOnSet(f, S) = f[x] + SumFunctionOnSet(f, S \ {x})
  <2> DEFINE R == S \ {x}
  <2>1. Numbers(f, R)
    BY FS_Subset DEF Numbers
  <2>2. PICK G : IsSumOf(G, f, R) /\ SumFunctionOnSet(f, R) = G[R]
    BY <2>1, SumByFold
  <2>3. F[R] = G[R]
    <3>1. R \subseteq S /\ R \subseteq R
      OBVIOUS
    <3> HIDE DEF R
    <3> QED
      BY <1>1, <2>1, <2>2, <3>1, SumsAgree
  <2>4. F[S] = f[x] + F[S \ {x}]
    BY <1>1, <1>2, SumTakes
  <2> QED
    BY <1>1, <2>2, <2>3, <2>4
<1> QED
  BY <1>3, <1>4, <1>5

(* Only the values on the set matter.                                      *)
LEMMA SumOnSetSame ==
  ASSUME NEW S, NEW f, NEW g, Numbers(f, S), \A x \in S : f[x] = g[x]
  PROVE  SumFunctionOnSet(f, S) = SumFunctionOnSet(g, S)
<1>1. PICK F : IsSumOf(F, f, S) /\ SumFunctionOnSet(f, S) = F[S]
  BY SumByFold
<1>0. Numbers(g, S)
  BY DEF Numbers
<1>2. PICK G : IsSumOf(G, g, S) /\ SumFunctionOnSet(g, S) = G[S]
  BY <1>0, SumByFold
<1>3. F[S] = G[S]
  <2>1. S \subseteq S
    OBVIOUS
  <2> QED
    BY <1>0, <1>1, <1>2, <2>1, SumsAgree
<1> QED
  BY <1>1, <1>2, <1>3


(* The sum of the values of a function changes as one of the values does.  *)
LEMMA SumUpdated ==
  ASSUME NEW S, IsFiniteSet(S), NEW f \in [S -> Nat], NEW g \in [S -> Nat], NEW x \in S,
         \A z \in S \ {x} : g[z] = f[z]
  PROVE  SumFunction(g) + f[x] = SumFunction(f) + g[x]
<1> DEFINE R == S \ {x}
<1>1. Numbers(f, S) /\ Numbers(g, S) /\ Numbers(f, R)
  BY FS_Subset DEF Numbers
<1>2. SumFunction(f) = SumFunctionOnSet(f, S) /\ SumFunction(g) = SumFunctionOnSet(g, S)
  BY DEF SumFunction
<1>3. \A z \in R : f[z] = g[z]
  OBVIOUS
<1>4. SumFunctionOnSet(f, S) = f[x] + SumFunctionOnSet(f, R)
  BY <1>1, SumOnSet
<1>5. SumFunctionOnSet(g, S) = g[x] + SumFunctionOnSet(g, R)
  BY <1>1, SumOnSet
<1> HIDE DEF R
<1>6. SumFunctionOnSet(f, R) = SumFunctionOnSet(g, R)
  BY <1>1, <1>3, SumOnSetSame
<1>7. SumFunctionOnSet(f, R) \in Nat /\ f[x] \in Nat /\ g[x] \in Nat
  BY <1>1, SumOnSet
<1> QED
  BY <1>2, <1>4, <1>5, <1>6, <1>7

(* A value more makes the sum larger by that value.                        *)
LEMMA SumExtended ==
  ASSUME NEW S, IsFiniteSet(S), NEW f \in [S -> Nat], NEW x, x \notin S,
         NEW g \in [S \cup {x} -> Nat], \A z \in S : g[z] = f[z]
  PROVE  SumFunction(g) = SumFunction(f) + g[x]
<1> DEFINE R == S \cup {x}
<1>1. Numbers(f, S) /\ Numbers(g, R)
  BY FS_AddElement DEF Numbers
<1>2. SumFunction(f) = SumFunctionOnSet(f, S) /\ SumFunction(g) = SumFunctionOnSet(g, R)
  BY DEF SumFunction
<1>3. R \ {x} = S /\ x \in R
  OBVIOUS
<1> HIDE DEF R
<1>4. SumFunctionOnSet(g, R) = g[x] + SumFunctionOnSet(g, S)
  BY <1>1, <1>3, SumOnSet
<1>5. SumFunctionOnSet(f, S) = SumFunctionOnSet(g, S)
  BY <1>1, SumOnSetSame
<1>6. SumFunctionOnSet(f, S) \in Nat /\ g[x] \in Nat
  BY <1>1, <1>3, SumOnSet DEF Numbers
<1> QED
  BY <1>2, <1>4, <1>5, <1>6

LEMMA SumIsNumber ==
  ASSUME NEW S, IsFiniteSet(S), NEW f \in [S -> Nat]
  PROVE  SumFunction(f) \in Nat /\ (S = {} => SumFunction(f) = 0)
<1>1. Numbers(f, S)
  BY DEF Numbers
<1>2. SumFunction(f) = SumFunctionOnSet(f, S)
  BY DEF SumFunction
<1> QED
  BY <1>1, <1>2, SumOnSet

(* The sums of the values at 1, 2, ... and so on.                          *)
LEMMA SumUpTo ==
  ASSUME NEW N \in Nat, NEW f, \A k \in 1 .. N : f[k] \in Nat
  PROVE  /\ SumFunctionOnSet(f, 1 .. 0) = 0
         /\ \A k \in 0 .. N : SumFunctionOnSet(f, 1 .. k) \in Nat
         /\ \A k \in 0 .. N - 1 :
              SumFunctionOnSet(f, 1 .. (k + 1)) = SumFunctionOnSet(f, 1 .. k) + f[k + 1]
<1>1. ASSUME NEW k \in 0 .. N PROVE Numbers(f, 1 .. k)
  BY FS_Interval DEF Numbers
<1>2. SumFunctionOnSet(f, 1 .. 0) = 0
  <2>1. 1 .. 0 = {} /\ 0 \in 0 .. N
    OBVIOUS
  <2> QED
    BY <1>1, <2>1, SumOnSet
<1>3. ASSUME NEW k \in 0 .. N PROVE SumFunctionOnSet(f, 1 .. k) \in Nat
  BY <1>1, SumOnSet
<1>4. ASSUME NEW k \in 0 .. N - 1
      PROVE  SumFunctionOnSet(f, 1 .. (k + 1)) = SumFunctionOnSet(f, 1 .. k) + f[k + 1]
  <2> DEFINE x == k + 1
             S == 1 .. x
  <2>1. S \ {x} = 1 .. k /\ x \in S /\ x \in 0 .. N /\ f[x] \in Nat /\ k \in 0 .. N
    OBVIOUS
  <2>2. Numbers(f, S)
    BY <1>1, <2>1
  <2> HIDE DEF S, x
  <2>3. SumFunctionOnSet(f, S) = f[x] + SumFunctionOnSet(f, S \ {x})
    BY <2>1, <2>2, SumOnSet
  <2>4. SumFunctionOnSet(f, 1 .. k) \in Nat
    BY <1>3, <2>1
  <2>5. SumFunctionOnSet(f, S \ {x}) = SumFunctionOnSet(f, 1 .. k)
    BY <2>1, Zenon
  <2>6. SumFunctionOnSet(f, S) = SumFunctionOnSet(f, 1 .. k) + f[x]
    BY <2>1, <2>3, <2>4, <2>5
  <2> QED
    BY <2>6 DEF x, S
<1> QED
  BY <1>2, <1>3, <1>4

(* The sum over two sequences, one after the other, is that over both.     *)
LEMMA SumConcat ==
  ASSUME NEW s \in Seq(Nat), NEW u \in Seq(Nat)
  PROVE  SumFunction(s \o u) = SumFunction(s) + SumFunction(u)
<1> DEFINE m == Len(s)
           n == Len(u)
           w == s \o u
           Sum(f, k) == SumFunctionOnSet(f, 1 .. k)
           T == {k \in Nat : k <= n => Sum(w, m + k) = Sum(s, m) + Sum(u, k)}
<1>1. /\ m \in Nat /\ n \in Nat /\ w \in Seq(Nat) /\ Len(w) = m + n
      /\ \A k \in 1 .. m : s[k] \in Nat /\ w[k] = s[k]
      /\ \A k \in 1 .. n : u[k] \in Nat /\ w[m + k] = u[k]
      /\ \A k \in 1 .. m + n : w[k] \in Nat
  OBVIOUS
<1>2. DOMAIN s = 1 .. m /\ DOMAIN u = 1 .. n /\ DOMAIN w = 1 .. (m + n)
  BY <1>1
<1>3. SumFunction(s) = Sum(s, m) /\ SumFunction(u) = Sum(u, n) /\ SumFunction(w) = Sum(w, m + n)
  BY <1>2 DEF SumFunction
<1> HIDE DEF m, n, w
<1>4. Sum(u, 0) = 0 /\ (\A k \in 0 .. n : Sum(u, k) \in Nat)
      /\ \A k \in 0 .. n - 1 : Sum(u, k + 1) = Sum(u, k) + u[k + 1]
  BY <1>1, SumUpTo
<1>5. (\A k \in 0 .. m + n : Sum(w, k) \in Nat)
      /\ \A k \in 0 .. (m + n) - 1 : Sum(w, k + 1) = Sum(w, k) + w[k + 1]
  <2> DEFINE N == m + n
  <2>1. N \in Nat /\ \A k \in 1 .. N : w[k] \in Nat
    BY <1>1
  <2> HIDE DEF N
  <2>2. (\A k \in 0 .. N : SumFunctionOnSet(w, 1 .. k) \in Nat)
        /\ \A k \in 0 .. N - 1 :
             SumFunctionOnSet(w, 1 .. (k + 1)) = SumFunctionOnSet(w, 1 .. k) + w[k + 1]
    BY <2>1, SumUpTo
  <2> QED
    BY <2>2 DEF N
<1>6. Sum(w, m) = Sum(s, m) /\ Sum(s, m) \in Nat
  <2>1. Numbers(s, 1 .. m)
    <3>1. IsFiniteSet(1 .. m)
      BY <1>1, FS_Interval
    <3>2. \A k \in 1 .. m : s[k] \in Nat
      BY <1>1
    <3> QED
      BY <3>1, <3>2, Zenon DEF Numbers
  <2> QED
    BY <1>1, <2>1, SumOnSetSame, SumOnSet
<1> HIDE DEF Sum
<1>7. 0 \in T
  BY <1>1, <1>4, <1>6
<1>8. ASSUME NEW k \in Nat, k \in T PROVE k + 1 \in T
  <2> SUFFICES ASSUME k + 1 <= n PROVE Sum(w, m + (k + 1)) = Sum(s, m) + Sum(u, k + 1)
    OBVIOUS
  <2>1. k \in 0 .. n - 1 /\ m + k \in 0 .. (m + n) - 1 /\ k + 1 \in 1 .. n /\ (m + k) + 1 = m + (k + 1)
        /\ k \in 0 .. n
    BY <1>1
  <2>2. Sum(w, m + (k + 1)) = Sum(w, m + k) + u[k + 1]
    BY <1>1, <1>5, <2>1
  <2>3. Sum(u, k + 1) = Sum(u, k) + u[k + 1] /\ Sum(u, k) \in Nat /\ u[k + 1] \in Nat
    BY <1>1, <1>4, <2>1
  <2>4. Sum(w, m + k) = Sum(s, m) + Sum(u, k)
    BY <1>1, <1>8
  <2> QED
    BY <1>6, <2>2, <2>3, <2>4
<1>9. n \in T
  <2> HIDE DEF T
  <2> QED
    BY <1>1, <1>7, <1>8, Induction
<1> QED
  BY <1>1, <1>3, <1>9 DEF w

(* Nothing but zeros adds up to zero.                                      *)
LEMMA SumOfZeros ==
  ASSUME NEW S, IsFiniteSet(S), NEW f \in [S -> {0}]
  PROVE  SumFunction(f) = 0
<1> DEFINE T == {n \in Nat : \A s \in SUBSET S : Cardinality(s) = n => SumFunctionOnSet(f, s) = 0}
<1>1. ASSUME NEW s \in SUBSET S
      PROVE  /\ Numbers(f, s) /\ IsFiniteSet(s) /\ Cardinality(s) \in Nat
             /\ Cardinality(s) = 0 <=> s = {}
  <2>1. IsFiniteSet(s)
    BY FS_Subset
  <2> QED
    BY <2>1, FS_CardinalityType, FS_EmptySet DEF Numbers
<1>2. 0 \in T
  BY <1>1, SumOnSet
<1>3. ASSUME NEW n \in Nat, n \in T PROVE n + 1 \in T
  <2> SUFFICES ASSUME NEW s \in SUBSET S, Cardinality(s) = n + 1 PROVE SumFunctionOnSet(f, s) = 0
    OBVIOUS
  <2>1. PICK x \in s : TRUE
    BY <1>1
  <2>2. Cardinality(s \ {x}) = n /\ s \ {x} \in SUBSET S
    <3>1. Cardinality(s \ {x}) = Cardinality(s) - 1
      BY <1>1, FS_RemoveElement
    <3> QED
      BY <3>1
  <2>3. SumFunctionOnSet(f, s \ {x}) = 0
    BY <1>3, <2>2
  <2>4. SumFunctionOnSet(f, s) = f[x] + SumFunctionOnSet(f, s \ {x})
    BY <1>1, SumOnSet
  <2> QED
    BY <2>3, <2>4
<1>4. Nat \subseteq T
  <2> HIDE DEF T
  <2> QED
    BY <1>2, <1>3, Induction
<1>5. S \in SUBSET S /\ Cardinality(S) \in Nat
  BY <1>1
<1>6. SumFunctionOnSet(f, S) = 0
  BY <1>4, <1>5
<1> QED
  BY <1>6 DEF SumFunction
=============================================================================
