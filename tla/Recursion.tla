------------------------------ MODULE Recursion ------------------------------
(***************************************************************************)
(* Induction over the natural numbers, and functions defined by recursion. *)
(* What is proved by induction is the set of the numbers for which it      *)
(* holds, and a recursive definition is a function D from functions to     *)
(* functions, so that no lemma has an operator among its hypotheses.       *)
(* A set of numbers has a least element.                                   *)
(***************************************************************************)
EXTENDS Integers, FiniteSetsExt, WellFoundedInduction, TLAPS

\* A set that 0 is in, and n + 1 with n, has all numbers.
LEMMA Induction ==
    ASSUME NEW S, 0 \in S, \A n \in Nat : n \in S => n + 1 \in S
    PROVE  \A n \in Nat : n \in S
<1> DEFINE T == Nat \ S
           R == OpToRel(<, Nat)
<1>1. SUFFICES ASSUME T # {} PROVE FALSE
  OBVIOUS
<1>2. IsWellFoundedOn(R, Nat)
  BY NatLessThanWellFounded
<1>3. PICK x \in T : \A y \in T : <<y, x>> \notin R
  <2> HIDE DEF R
  <2> QED
    BY <1>1, <1>2, WFMin
<1>4. x # 0 /\ x - 1 \in Nat
  OBVIOUS
<1>5. <<x - 1, x>> \in R
  BY <1>4 DEF OpToRel
<1>6. x - 1 \in T
  BY <1>4
<1> QED
  BY <1>3, <1>5, <1>6

\* The same from the numbers below n.
LEMMA StrongInduction ==
    ASSUME NEW S, \A n \in Nat : (\A k \in Nat : k < n => k \in S) => n \in S
    PROVE  \A n \in Nat : n \in S
<1> DEFINE U == {n \in Nat : \A k \in Nat : k < n => k \in S}
<1>1. 0 \in U
  OBVIOUS
<1>2. ASSUME NEW n \in Nat, n \in U
      PROVE  n + 1 \in U
  <2>1. n \in S
    BY <1>2
  <2>2. \A k \in Nat : k < n + 1 => k < n \/ k = n
    OBVIOUS
  <2> QED
    BY <1>2, <2>1, <2>2
<1>3. \A n \in Nat : n \in U
  <2> HIDE DEF U
  <2> QED
    BY <1>1, <1>2, Induction
<1> QED
  BY <1>3

\* A set S is in T if an element is as soon as those of smaller measure are.
LEMMA MeasureInduction ==
    ASSUME NEW S, NEW m \in [S -> Nat], NEW T,
           \A x \in S : (\A y \in S : m[y] < m[x] => y \in T) => x \in T
    PROVE  \A x \in S : x \in T
<1> DEFINE U == {n \in Nat : \A x \in S : m[x] = n => x \in T}
<1>1. ASSUME NEW n \in Nat, \A k \in Nat : k < n => k \in U
      PROVE  n \in U
  <2>1. ASSUME NEW x \in S, m[x] = n
        PROVE  x \in T
    <3>1. ASSUME NEW y \in S, m[y] < m[x]
          PROVE  y \in T
      <4>1. m[y] \in U
        BY <1>1, <2>1, <3>1
      <4> QED
        BY <4>1
    <3> QED
      BY <3>1
  <2> QED
    BY <2>1
<1>2. \A n \in Nat : n \in U
  <2> HIDE DEF U
  <2> QED
    BY <1>1, StrongInduction
<1> QED
  BY <1>2

\* D defines a function from S to V: it determines its value at x from those at
\* the elements that are smaller in the measure m.
Defines(D, S, V, m) ==
    /\ V # {} /\ m \in [S -> Nat] /\ D \in [[S -> V] -> [S -> V]]
    /\ \A x \in S : \A g, h \in [S -> V] :
          (\A y \in S : m[y] < m[x] => g[y] = h[y]) => D[g][x] = D[h][x]

\* There is such a function.
LEMMA RecursiveFunction ==
    ASSUME NEW S, NEW V, NEW m, NEW D, Defines(D, S, V, m)
    PROVE  \E f \in [S -> V] : f = D[f]
<1>0. V # {} /\ m \in [S -> Nat] /\ D \in [[S -> V] -> [S -> V]]
  BY DEF Defines
<1> DEFINE Meets(g, n) == \A x \in S : m[x] < n => g[x] = D[g][x]
           N == {n \in Nat : \E g \in [S -> V] : Meets(g, n)}
<1>1. \A n \in Nat : n \in N
  <2>1. 0 \in N
    <3>1. PICK v \in V : TRUE
      BY <1>0
    <3>2. [x \in S |-> v] \in [S -> V]
      BY <1>0
    <3>3. Meets([x \in S |-> v], 0)
      BY <1>0
    <3> QED
      BY <1>0, <3>2, <3>3
  <2>2. ASSUME NEW n \in Nat, n \in N
        PROVE  n + 1 \in N
    <3>1. PICK g \in [S -> V] : Meets(g, n)
      BY <1>0, <2>2
    <3>2. D[g] \in [S -> V]
      BY <1>0
    <3>3. ASSUME NEW x \in S, m[x] < n + 1
          PROVE  D[g][x] = D[D[g]][x]
      <4>1. \A y \in S : m[y] < m[x] => g[y] = D[g][y]
        <5> SUFFICES ASSUME NEW y \in S, m[y] < m[x]
                     PROVE  m[y] < n
          BY <1>0, <3>1
        <5>1. m[x] \in Nat /\ m[y] \in Nat
          BY <1>0
        <5> QED
          BY <1>0, <3>3, <5>1
      <4> QED
        BY <1>0, <3>2, <4>1 DEF Defines
    <3> QED
      BY <1>0, <3>2, <3>3
  <2> HIDE DEF N
  <2> QED
    BY <1>0, <2>1, <2>2, Induction
<1>2. ASSUME NEW g \in [S -> V], NEW h \in [S -> V], NEW n \in Nat,
             Meets(g, n), Meets(h, n)
      PROVE  \A x \in S : m[x] < n => g[x] = h[x]
  <2> DEFINE T == {x \in S : m[x] < n => g[x] = h[x]}
  <2>1. ASSUME NEW x \in S, \A y \in S : m[y] < m[x] => y \in T
        PROVE  x \in T
    <3> SUFFICES ASSUME m[x] < n
                 PROVE  g[x] = h[x]
      BY <1>0
    <3>1. \A y \in S : m[y] < m[x] => g[y] = h[y]
      <4> SUFFICES ASSUME NEW y \in S, m[y] < m[x]
                   PROVE  m[y] < n
        BY <1>0, <2>1
      <4>1. m[x] \in Nat /\ m[y] \in Nat
        BY <1>0
      <4> QED
        BY <1>0, <4>1
    <3>2. D[g][x] = D[h][x]
      BY <1>0, <3>1 DEF Defines
    <3> QED
      BY <1>0, <1>2, <3>2
  <2>2. \A x \in S : x \in T
    <3> HIDE DEF T
    <3> QED
      BY <1>0, <2>1, MeasureInduction
  <2> QED
    BY <1>0, <2>2
<1> DEFINE G == [n \in Nat |-> CHOOSE g \in [S -> V] : Meets(g, n)]
           f == [x \in S |-> G[m[x] + 1][x]]
<1>3. ASSUME NEW n \in Nat
      PROVE  G[n] \in [S -> V] /\ Meets(G[n], n)
  <2>1. \E g \in [S -> V] : Meets(g, n)
    BY <1>0, <1>1
  <2> HIDE DEF Meets
  <2> QED
    BY <1>0, <2>1
<1>4. f \in [S -> V]
  <2> SUFFICES ASSUME NEW x \in S
               PROVE  G[m[x] + 1][x] \in V
    BY <1>0
  <2>1. m[x] + 1 \in Nat
    BY <1>0
  <2> HIDE DEF G
  <2> QED
    BY <1>0, <1>3, <2>1
<1>5. ASSUME NEW n \in Nat, NEW x \in S, m[x] < n
      PROVE  G[n][x] = f[x]
  <2> DEFINE k == m[x] + 1
  <2>1. k \in Nat /\ m[x] \in Nat /\ k <= n /\ m[x] < k
    BY <1>0, <1>5
  <2>2. f[x] = G[k][x]
    BY <1>0
  <2> HIDE DEF G, k, f
  <2>3. Meets(G[n], k)
    <3>1. Meets(G[n], n)
      BY <1>0, <1>3
    <3> SUFFICES ASSUME NEW y \in S, m[y] < k
                 PROVE  m[y] < n
      BY <1>0, <3>1
    <3> QED
      BY <1>0, <2>1
  <2>4. Meets(G[k], k) /\ G[k] \in [S -> V] /\ G[n] \in [S -> V]
    BY <1>0, <1>3, <2>1
  <2> HIDE DEF Meets
  <2> QED
    BY <1>0, <1>2, <2>1, <2>2, <2>3, <2>4
<1>6. ASSUME NEW x \in S
      PROVE  f[x] = D[f][x]
  <2> DEFINE k == m[x] + 1
  <2>1. k \in Nat /\ m[x] \in Nat /\ m[x] < k
    BY <1>0
  <2> HIDE DEF G, f
  <2>2. G[k] \in [S -> V] /\ G[k][x] = D[G[k]][x] /\ G[k][x] = f[x]
    BY <1>0, <1>3, <1>5, <2>1
  <2>3. \A y \in S : m[y] < m[x] => G[k][y] = f[y]
    <3> SUFFICES ASSUME NEW y \in S, m[y] < m[x]
                 PROVE  m[y] < k
      BY <1>0, <1>5, <2>1
    <3>1. m[y] \in Nat
      BY <1>0
    <3> QED
      BY <1>0, <2>1, <3>1
  <2>4. D[G[k]][x] = D[f][x]
    BY <1>0, <1>4, <2>2, <2>3 DEF Defines
  <2> QED
    BY <1>0, <2>2, <2>4
<1>7. D[f] \in [S -> V]
  <2> HIDE DEF f
  <2> QED
    BY <1>0, <1>4
<1>8. f = D[f]
  <2> HIDE DEF f
  <2> QED
    BY <1>0, <1>4, <1>6, <1>7
<1> QED
  BY <1>0, <1>4, <1>8

\* A value of V to start from, and n steps.
Iterates(n, V, first, step) ==
    n \in Nat /\ first \in V /\ step \in [1..n -> [V -> V]]

\* A function on 0..n whose values each follow from the one before.
LEMMA Iteration ==
    ASSUME NEW n, NEW V, NEW first, NEW step, Iterates(n, V, first, step)
    PROVE  \E f \in [0..n -> V] :
              f[0] = first /\ \A i \in 1..n : f[i] = step[i][f[i - 1]]
<1> DEFINE S == 0..n
           Value(f, i) == IF i = 0 THEN first ELSE step[i][f[i - 1]]
           D == [f \in [S -> V] |-> [i \in S |-> Value(f, i)]]
           m == [i \in S |-> i]
<1>0. n \in Nat /\ first \in V /\ step \in [1..n -> [V -> V]]
  BY DEF Iterates
<1>1. ASSUME NEW f \in [S -> V], NEW i \in S
      PROVE  Value(f, i) \in V
  <2>1. CASE i = 0  BY <1>0, <2>1
  <2>2. CASE i # 0
    <3>1. i \in 1..n /\ i - 1 \in S  BY <1>0, <2>2
    <3>2. step[i] \in [V -> V] /\ f[i - 1] \in V  BY <1>0, <3>1
    <3> QED  BY <2>2, <3>2
  <2> QED  BY <2>1, <2>2
<1>2. D \in [[S -> V] -> [S -> V]]
  <2> DEFINE X == [S -> V]
             E(f) == [i \in S |-> Value(f, i)]
  <2>1. \A f \in X : E(f) \in X
    <3> HIDE DEF Value, S
    <3> QED  BY <1>1
  <2>2. D = [f \in X |-> E(f)]  OBVIOUS
  <2> HIDE DEF E, X, D
  <2>3. D \in [X -> X]  BY <2>1, <2>2
  <2> QED  BY <2>3 DEF X
<1>3. Defines(D, S, V, m)
  <2>1. V # {} /\ m \in [S -> Nat]  BY <1>0
  <2> SUFFICES ASSUME NEW i \in S, NEW g \in [S -> V], NEW h \in [S -> V],
                      \A j \in S : m[j] < m[i] => g[j] = h[j]
               PROVE  D[g][i] = D[h][i]
    BY <1>2, <2>1 DEF Defines
  <2>2. i # 0 => g[i - 1] = h[i - 1]
    <3> SUFFICES ASSUME i # 0  PROVE g[i - 1] = h[i - 1]
      OBVIOUS
    <3>1. i - 1 \in S /\ m[i - 1] < m[i]  BY <1>0
    <3> QED  BY <3>1
  <2>3. D[g][i] = Value(g, i) /\ D[h][i] = Value(h, i)
    <3> HIDE DEF Value, S
    <3> QED  OBVIOUS
  <2> HIDE DEF D, S, m
  <2> QED  BY <2>2, <2>3
<1>4. PICK f \in [S -> V] : f = D[f]
  <2> HIDE DEF D, S, m
  <2> QED  BY <1>3, RecursiveFunction
<1>5. \A i \in S : f[i] = Value(f, i)
  <2> HIDE DEF Value, S
  <2> QED  BY <1>4
<1>6. 0 \in S /\ \A i \in 1..n : i \in S /\ i # 0  BY <1>0
<1> HIDE DEF S, D
<1> QED  BY <1>5, <1>6 DEF S

\* A set that a is in, and i + 1 with i, has all of a..b.
LEMMA Upward ==
  ASSUME NEW a \in Nat, NEW b \in Nat, NEW T, a \in T,
         \A i \in a..b - 1 : i \in T => i + 1 \in T
  PROVE  \A i \in a..b : i \in T
<1> DEFINE U == {n \in Nat : a + n \in a..b => a + n \in T}
<1>1. 0 \in U  OBVIOUS
<1>2. ASSUME NEW n \in Nat, n \in U  PROVE n + 1 \in U
  <2> SUFFICES ASSUME a + (n + 1) \in a..b  PROVE a + (n + 1) \in T
    OBVIOUS
  <2>1. a + n \in a..b - 1 /\ a + n \in a..b /\ (a + n) + 1 = a + (n + 1)  OBVIOUS
  <2> QED  BY <1>2, <2>1
<1>3. \A n \in Nat : n \in U
  <2> HIDE DEF U
  <2> QED  BY <1>1, <1>2, Induction
<1> SUFFICES ASSUME NEW i \in a..b  PROVE i \in T
  OBVIOUS
<1>4. i - a \in Nat /\ a + (i - a) = i  OBVIOUS
<1>5. i - a \in U  BY <1>3, <1>4
<1> QED  BY <1>4, <1>5

\* A set that p is in as soon as the larger numbers of a..b are has all of a..b.
LEMMA Downward ==
  ASSUME NEW a \in Nat, NEW b \in Nat, NEW T,
         \A p \in a..b : (\A q \in p + 1 .. b : q \in T) => p \in T
  PROVE  \A p \in a..b : p \in T
<1> DEFINE U == {n \in Nat : b - n \in a..b => b - n \in T}
<1>1. ASSUME NEW n \in Nat, \A k \in Nat : k < n => k \in U
      PROVE  n \in U
  <2> SUFFICES ASSUME b - n \in a..b  PROVE b - n \in T
    OBVIOUS
  <2>1. ASSUME NEW q \in (b - n) + 1 .. b  PROVE q \in T
    <3> DEFINE k == b - q
    <3>1. k \in Nat /\ k < n /\ b - k = q /\ q \in a..b  OBVIOUS
    <3>2. k \in U  BY <1>1, <3>1
    <3> HIDE DEF k
    <3> QED  BY <3>1, <3>2
  <2> QED  BY <2>1
<1>2. \A n \in Nat : n \in U
  <2> HIDE DEF U
  <2> QED  BY <1>1, StrongInduction
<1> SUFFICES ASSUME NEW p \in a..b  PROVE p \in T
  OBVIOUS
<1> DEFINE k == b - p
<1>3. k \in Nat /\ b - k = p  OBVIOUS
<1>4. k \in U  BY <1>2, <1>3
<1> HIDE DEF k
<1> QED  BY <1>3, <1>4

\* D determines a value at p from those at the larger numbers of a..b.
Descends(D, a, b, V) ==
  /\ a \in Nat /\ b \in Nat /\ V # {}
  /\ \A f \in [a..b -> V] : D[f] \in [a..b -> V]
  /\ \A p \in a..b : \A g, h \in [a..b -> V] :
        (\A q \in p + 1 .. b : g[q] = h[q]) => D[g][p] = D[h][p]

\* There is a function with those values.
LEMMA Descent ==
  ASSUME NEW D, NEW a, NEW b, NEW V, Descends(D, a, b, V)
  PROVE  \E f \in [a..b -> V] : f = D[f]
<1> DEFINE S == a..b
           X == [S -> V]
           m == [p \in S |-> b - p]
           F == [f \in X |-> D[f]]
<1>0. a \in Nat /\ b \in Nat /\ V # {}  BY DEF Descends
<1>1. m \in [S -> Nat]
  <2>1. \A p \in S : b - p \in Nat  BY <1>0
  <2> QED  BY <2>1
<1>2. \A f \in X : D[f] \in X  BY DEF Descends
<1>3. F \in [X -> X]
  <2> HIDE DEF X
  <2> QED  BY <1>2
<1>4. Defines(F, S, V, m)
  <2> SUFFICES ASSUME NEW p \in S, NEW g \in X, NEW h \in X,
                      \A q \in S : m[q] < m[p] => g[q] = h[q]
               PROVE  F[g][p] = F[h][p]
    BY <1>0, <1>1, <1>3 DEF Defines
  <2>1. ASSUME NEW q \in p + 1 .. b  PROVE g[q] = h[q]
    <3>1. q \in S /\ m[q] = b - q /\ m[p] = b - p /\ b - q < b - p  BY <1>0
    <3> HIDE DEF m
    <3> QED  BY <3>1
  <2>2. D[g][p] = D[h][p]  BY <2>1 DEF Descends
  <2>3. F[g] = D[g] /\ F[h] = D[h]
    <3> HIDE DEF X
    <3> QED  OBVIOUS
  <2> HIDE DEF F
  <2> QED  BY <2>2, <2>3
<1>5. PICK f \in X : f = F[f]
  <2> HIDE DEF F, S, m
  <2> QED  BY <1>4, RecursiveFunction
<1>6. F[f] = D[f]
  <2> HIDE DEF X
  <2> QED  OBVIOUS
<1> HIDE DEF F
<1> QED  BY <1>5, <1>6

\* A set of numbers has a least element.
LEMMA LeastExists ==
  ASSUME NEW S \in SUBSET Nat, S # {}
  PROVE  \E x \in S : \A y \in S : x <= y
<1> DEFINE T == {n \in Nat : n \in S => \E x \in S : \A y \in S : x <= y}
<1>1. ASSUME NEW n \in Nat, \A k \in Nat : k < n => k \in T  PROVE n \in T
  <2> SUFFICES ASSUME n \in S, ~\E x \in S : \A y \in S : x <= y  PROVE FALSE
    OBVIOUS
  <2>1. PICK y \in S : ~(n <= y)  OBVIOUS
  <2>2. y \in T  BY <1>1, <2>1
  <2> QED  BY <2>1, <2>2
<1>2. \A n \in Nat : n \in T
  <2> HIDE DEF T
  <2> QED  BY <1>1, StrongInduction
<1> QED  BY <1>2

\* Min finds it.
LEMMA LeastIn ==
  ASSUME NEW S \in SUBSET Nat, S # {}
  PROVE  Min(S) \in S
<1>1. \E x \in S : \A y \in S : x <= y  BY LeastExists
<1> QED  BY <1>1 DEF Min

\* None of the set is less.
LEMMA NoneBelow ==
  ASSUME NEW S \in SUBSET Nat, S # {}
  PROVE  \A x \in S : Min(S) <= x
<1>1. \E x \in S : \A y \in S : x <= y  BY LeastExists
<1> QED  BY <1>1 DEF Min
\* The less of two numbers.
LEMMA MinOfTwo ==
  ASSUME NEW a \in Nat, NEW b \in Nat
  PROVE  Min({a, b}) = IF a <= b THEN a ELSE b
<1>1. {a, b} \in SUBSET Nat /\ {a, b} # {}  OBVIOUS
<1>2. PICK m : m = Min({a, b})  OBVIOUS
<1>3. m \in {a, b} /\ \A x \in {a, b} : m <= x  BY <1>1, <1>2, LeastIn, NoneBelow
<1> QED  BY <1>2, <1>3

=============================================================================
