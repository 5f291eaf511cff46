------------------------------ MODULE Recursion ------------------------------
(***************************************************************************)
(* Induction and recursion with sets and functions in the place of         *)
(* predicates and operators.  The modules on texts define recursive        *)
(* functions; these are the facts that say that such a function satisfies  *)
(* its defining equation, and that prove what it computes.                 *)
(***************************************************************************)
EXTENDS Naturals, Sequences, WellFoundedInduction, TLAPS

(* A set of naturals that has n whenever it has all below n has them all.    *)
LEMMA StrongInduction ==
    ASSUME NEW T, \A n \in Nat : (\A m \in Nat : m < n => m \in T) => n \in T
    PROVE  Nat \subseteq T
<1> DEFINE Rest == {n \in Nat : n \notin T}
<1>1. CASE Rest = {}
  BY <1>1
<1>2. CASE Rest # {}
  <2>1. PICK n \in Rest : \A m \in Rest : <<m, n>> \notin OpToRel(<, Nat)
    <3> HIDE DEF Rest
    <3>1. Rest \subseteq Nat
      BY DEF Rest
    <3> QED
      BY <1>2, <3>1, NatLessThanWellFounded, WFMin
  <2>2. \A m \in Rest : ~ (m < n)
    BY <2>1 DEF OpToRel
  <2> QED
    BY <2>1, <2>2
<1> QED
  BY <1>1, <1>2

(* A set that has an element of S whenever it has all of lower rank has all. *)
LEMMA RankInduction ==
    ASSUME NEW S, NEW rank \in [S -> Nat], NEW T,
           \A x \in S : (\A y \in S : rank[y] < rank[x] => y \in T) => x \in T
    PROVE  S \subseteq T
<1> DEFINE Level == {n \in Nat : \A x \in S : rank[x] = n => x \in T}
<1>1. ASSUME NEW n \in Nat, \A m \in Nat : m < n => m \in Level PROVE n \in Level
  BY <1>1
<1> HIDE DEF Level
<1>2. Nat \subseteq Level
  BY <1>1, StrongInduction
<1> QED
  BY <1>2 DEF Level

(* D gives the values of a function from those of lower rank.                *)
DependsBelow(D, rank, S, V) ==
    \A g, h \in [S -> V] : \A x \in S :
        (\A y \in S : rank[y] < rank[x] => g[y] = h[y]) => D[g][x] = D[h][x]

(* A function on S that the definition D gives back.                         *)
HasFixedPoint(D, S, V) == \E f \in [S -> V] : f = D[f]

(* Then there is a function that D leaves as it is: the limit of functions   *)
(* that agree with D up to some rank.                                        *)
LEMMA RecursionExists ==
    ASSUME NEW S, NEW V, V # {}, NEW rank \in [S -> Nat],
           NEW D \in [[S -> V] -> [S -> V]], DependsBelow(D, rank, S, V)
    PROVE  HasFixedPoint(D, S, V)
<1> USE DEF DependsBelow
<1> DEFINE Upto(n) == {g \in [S -> V] : \A x \in S : rank[x] < n => g[x] = D[g][x]}
           Reached == {n \in Nat : Upto(n) # {}}
<1>1. ASSUME NEW n \in Nat, NEW m \in Nat, NEW g \in Upto(n), NEW h \in Upto(m),
             NEW x \in S, rank[x] < n, rank[x] < m
      PROVE  g[x] = h[x]
  <2> DEFINE Same == {y \in S : rank[y] < n /\ rank[y] < m => g[y] = h[y]}
  <2>1. ASSUME NEW y \in S, \A z \in S : rank[z] < rank[y] => z \in Same PROVE y \in Same
    <3>1. ASSUME rank[y] < n, rank[y] < m PROVE g[y] = h[y]
      <4>1. \A z \in S : rank[z] < rank[y] => g[z] = h[z]
        BY <2>1, <3>1
      <4>2. g \in [S -> V] /\ h \in [S -> V] /\ g[y] = D[g][y] /\ h[y] = D[h][y]
        BY <3>1
      <4>3. D[g][y] = D[h][y]
        BY <4>1, <4>2
      <4> QED
        BY <4>2, <4>3
    <3> QED
      BY <3>1
  <2> HIDE DEF Same
  <2>2. S \subseteq Same
    BY <2>1, RankInduction
  <2> QED
    BY <1>1, <2>2 DEF Same
<1>2. ASSUME NEW n \in Nat, \A m \in Nat : m < n => m \in Reached PROVE n \in Reached
  <2>1. CASE n = 0
    <3>1. PICK v : v \in V
      OBVIOUS
    <3>2. [x \in S |-> v] \in Upto(0)
      BY <3>1
    <3> QED
      BY <2>1, <3>2
  <2>2. CASE n # 0
    <3>1. n - 1 \in Nat /\ n - 1 < n
      BY <2>2
    <3>2. PICK g : g \in Upto(n - 1)
      BY <1>2, <3>1
    <3>3. D[g] \in [S -> V]
      BY <3>2
    <3>4. ASSUME NEW x \in S, rank[x] < n PROVE D[g][x] = D[D[g]][x]
      <4>1. \A y \in S : rank[y] < rank[x] => g[y] = D[g][y]
        BY <3>1, <3>2, <3>4
      <4> QED
        BY <3>2, <3>3, <4>1
    <3> QED
      BY <3>3, <3>4
  <2> QED
    BY <2>1, <2>2
<1>3. \A n \in Nat : Upto(n) # {}
  <2> HIDE DEF Reached
  <2>1. Nat \subseteq Reached
    BY <1>2, StrongInduction
  <2> QED
    BY <2>1 DEF Reached
<1> DEFINE G == [n \in Nat |-> CHOOSE g : g \in Upto(n)]
           f == [x \in S |-> G[rank[x] + 1][x]]
<1>4. \A n \in Nat : G[n] \in Upto(n)
  BY <1>3
<1>5. \A n \in Nat : G[n] \in [S -> V] /\ \A x \in S : rank[x] < n => G[n][x] = D[G[n]][x]
  BY <1>4
<1>6. \A x \in S : rank[x] + 1 \in Nat /\ rank[x] < rank[x] + 1
  OBVIOUS
<1> HIDE DEF G
<1>7. f \in [S -> V]
  BY <1>5, <1>6
<1>8. ASSUME NEW x \in S PROVE f[x] = D[f][x]
  <2> DEFINE g == G[rank[x] + 1]
  <2>1. g \in [S -> V] /\ g \in Upto(rank[x] + 1) /\ g[x] = D[g][x]
    BY <1>4, <1>5, <1>6
  <2>2. ASSUME NEW y \in S, rank[y] < rank[x] PROVE f[y] = g[y]
    <3> HIDE DEF Upto
    <3>1. rank[y] < rank[x] + 1 /\ rank[y] + 1 \in Nat /\ rank[x] + 1 \in Nat
      BY <2>2
    <3>2. G[rank[y] + 1] \in Upto(rank[y] + 1)
      BY <1>4, <1>6
    <3>3. G[rank[y] + 1][y] = g[y]
      BY <1>1, <1>6, <2>1, <3>1, <3>2
    <3> QED
      BY <3>3
  <2> HIDE DEF g
  <2>3. D[f][x] = D[g][x]
    <3> HIDE DEF f
    <3> QED
      BY <1>7, <2>1, <2>2
  <2> QED
    BY <2>1, <2>3 DEF g
<1> HIDE DEF f
<1>9. f = D[f]
  BY <1>7, <1>8
<1> QED
  BY <1>7, <1>9 DEF HasFixedPoint
=============================================================================
