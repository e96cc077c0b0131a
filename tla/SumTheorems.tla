----------------------------- MODULE SumTheorems -----------------------------
(***************************************************************************)
(* Facts about SumFunction of a finite number of integers, for the money   *)
(* and the minutes the modules add up.  A sum is characterised by a        *)
(* function that is additive on the subsets of what is summed over, so     *)
(* that the order in which a sum is taken never matters.                   *)
(***************************************************************************)
EXTENDS Integers, Functions, FiniteSetTheorems, TLAPS

(* F is what g adds up to on the subsets of S. *)
Additive(F, g, S) ==
  /\ F \in [SUBSET S -> Int]
  /\ F[{}] = 0
  /\ \A U \in SUBSET S : \A x \in S \ U : F[U \cup {x}] = F[U] + g[x]

(* Taking the elements off in the order CHOOSE gives them, as Folds does.   *)
Iterated(g, S, it) ==
  [s \in SUBSET S |-> IF s = {} THEN 0 ELSE LET x == CHOOSE x \in s : TRUE IN g[x] + it[s \ {x}]]

(* Of some numbers one is the least. *)
LEMMA LeastNumber ==
  ASSUME NEW N, N \subseteq Nat, N # {}
  PROVE  \E n \in N : \A m \in N : n <= m
  <1> DEFINE R == {ss \in Nat \X Nat : ss[1] < ss[2]}
  <1>1. IsWellFoundedOn(R, Nat)
    BY NatLessThanWellFounded DEF OpToRel
  <1>2. PICK n \in N : \A m \in N : ~ (<<m, n>> \in R)
    <2>1. N \subseteq Nat /\ N # {}
      OBVIOUS
    <2> HIDE DEF R
    <2>2. \E n \in N : \A m \in N : ~ (<<m, n>> \in R)
      BY <1>1, <2>1, WFMin, Zenon
    <2> QED BY <2>2
  <1>3. ASSUME NEW m \in N
        PROVE  n <= m
    <2>1. m \in Nat /\ n \in Nat
      OBVIOUS
    <2>2. m < n => <<m, n>> \in R
      BY <2>1
    <2> QED BY <1>2, <2>1, <2>2
  <1> QED BY <1>3

(* Of some finite sets there is one with the fewest elements. *)
LEMMA Fewest ==
  ASSUME NEW C, C # {}, \A U \in C : IsFiniteSet(U)
  PROVE  \E U \in C : \A V \in C : Cardinality(U) <= Cardinality(V)
  <1> DEFINE N == {n \in Nat : \E U \in C : Cardinality(U) = n}
  <1>1. \A U \in C : Cardinality(U) \in Nat
    BY FS_CardinalityType
  <1>2. N \subseteq Nat /\ N # {}
    BY <1>1
  <1>3. PICK n \in N : \A m \in N : n <= m
    <2> HIDE DEF N
    <2> QED BY <1>2, LeastNumber
  <1>4. PICK U \in C : Cardinality(U) = n
    BY <1>3
  <1> QED BY <1>1, <1>3, <1>4

(* Sums over one element more. *)
LEMMA AdditiveMore ==
  ASSUME NEW g, NEW S, NEW x, x \notin S, \A y \in S \cup {x} : g[y] \in Int, NEW F, Additive(F, g, S)
  PROVE  \E G : Additive(G, g, S \cup {x})
  <1> DEFINE T == S \cup {x}
             G == [U \in SUBSET T |-> IF x \in U THEN F[U \ {x}] + g[x] ELSE F[U]]
  <1>1. \A U \in SUBSET T : U \ {x} \in SUBSET S /\ (x \notin U => U \in SUBSET S)
    OBVIOUS
  <1>2. \A U \in SUBSET S : F[U] \in Int
    BY DEF Additive
  <1>3. G \in [SUBSET T -> Int]
    BY <1>1, <1>2
  <1>4. G[{}] = 0
    BY DEF Additive
  <1>5. ASSUME NEW U \in SUBSET T, NEW y \in T \ U
        PROVE  G[U \cup {y}] = G[U] + g[y]
    <2>1. U \cup {y} \in SUBSET T
      OBVIOUS
    <2>2. CASE y = x
      <3>1. (U \cup {y}) \ {x} = U /\ x \in U \cup {y} /\ x \notin U
        BY <1>5, <2>2
      <3> QED BY <2>1, <2>2, <3>1
    <2>3. CASE y # x /\ x \notin U
      <3>1. U \in SUBSET S /\ y \in S \ U /\ x \notin U \cup {y}
        BY <1>5, <2>3
      <3>2. F[U \cup {y}] = F[U] + g[y]
        BY <3>1 DEF Additive
      <3> QED BY <2>1, <2>3, <3>1, <3>2
    <2>4. CASE y # x /\ x \in U
      <3> DEFINE V == U \ {x}
      <3>1. V \in SUBSET S /\ y \in S \ V /\ (U \cup {y}) \ {x} = V \cup {y} /\ V \cup {y} \in SUBSET S
        BY <1>5, <2>4
      <3>2. F[V \cup {y}] = F[V] + g[y]
        BY <3>1 DEF Additive
      <3>3. F[V] \in Int /\ F[V \cup {y}] \in Int
        BY <1>2, <3>1
      <3>4. G[U \cup {y}] = F[V \cup {y}] + g[x] /\ G[U] = F[V] + g[x]
        BY <2>1, <2>4, <3>1
      <3>5. g[x] \in Int /\ g[y] \in Int
        OBVIOUS
      <3> QED BY <3>2, <3>3, <3>4, <3>5
    <2> QED BY <2>2, <2>3, <2>4
  <1> HIDE DEF G, T
  <1>6. Additive(G, g, T)
    BY <1>3, <1>4, <1>5 DEF Additive
  <1> QED BY <1>6 DEF T

(* Whatever finite set is summed over, its sums are there. *)
LEMMA AdditiveExists ==
  ASSUME NEW S, IsFiniteSet(S), NEW g, \A x \in S : g[x] \in Int
  PROVE  \E F : Additive(F, g, S)
  <1> DEFINE C == {U \in SUBSET S : ~ \E F : Additive(F, g, U)}
  <1>1. SUFFICES ASSUME C # {} PROVE FALSE
    <2>1. S \in SUBSET S
      OBVIOUS
    <2> QED BY <2>1
  <1>2. \A U \in SUBSET S : IsFiniteSet(U)
    BY FS_Subset
  <1>3. PICK U \in C : \A V \in C : Cardinality(U) <= Cardinality(V)
    <2>1. \A V \in C : IsFiniteSet(V)
      BY <1>2
    <2> HIDE DEF C
    <2> QED BY <1>1, <2>1, Fewest
  <1>4. CASE U = {}
    <2> DEFINE F == [s \in SUBSET {} |-> 0]
    <2>1. Additive(F, g, {})
      BY DEF Additive
    <2> QED BY <1>3, <1>4, <2>1
  <1>5. CASE U # {}
    <2>1. PICK x \in U : TRUE
      BY <1>5
    <2> DEFINE V == U \ {x}
    <2>2. U \in SUBSET S /\ V \in SUBSET S /\ V \cup {x} = U /\ x \notin V
      BY <2>1
    <2>3. Cardinality(V) = Cardinality(U) - 1 /\ Cardinality(U) \in Nat
      BY <1>2, <2>1, <2>2, FS_RemoveElement, FS_CardinalityType
    <2>4. V \notin C
      BY <1>3, <2>3
    <2>5. PICK F : Additive(F, g, V)
      BY <2>2, <2>4
    <2>6. \A y \in V \cup {x} : g[y] \in Int
      BY <2>2
    <2> HIDE DEF V, C
    <2>7. \E G : Additive(G, g, V \cup {x})
      BY <2>2, <2>5, <2>6, AdditiveMore
    <2> QED BY <1>3, <2>2, <2>7 DEF C
  <1> QED BY <1>4, <1>5

(* What is added up element by element, in whatever order, is that sum.     *)
LEMMA IteratedIsAdditive ==
  ASSUME NEW S, IsFiniteSet(S), NEW g, \A x \in S : g[x] \in Int,
         NEW F, Additive(F, g, S), NEW it, it = Iterated(g, S, it)
  PROVE  \A U \in SUBSET S : it[U] = F[U]
  <1> DEFINE C == {U \in SUBSET S : it[U] # F[U]}
  <1>1. SUFFICES ASSUME C # {} PROVE FALSE
    OBVIOUS
  <1>2. \A U \in SUBSET S : IsFiniteSet(U)
    BY FS_Subset
  <1>3. PICK U \in C : \A V \in C : Cardinality(U) <= Cardinality(V)
    <2>1. \A V \in C : IsFiniteSet(V)
      BY <1>2
    <2> HIDE DEF C
    <2> QED BY <1>1, <2>1, Fewest
  <1>4. CASE U = {}
    <2>1. it[{}] = 0
      BY DEF Iterated
    <2> QED BY <1>3, <1>4, <2>1 DEF Additive
  <1>5. CASE U # {}
    <2> DEFINE x == CHOOSE y \in U : TRUE
               V == U \ {x}
    <2>1. x \in U
      BY <1>5
    <2>2. U \in SUBSET S /\ V \in SUBSET S /\ V \cup {x} = U /\ x \in S \ V
      BY <2>1
    <2>3. Cardinality(V) = Cardinality(U) - 1 /\ Cardinality(U) \in Nat
      BY <1>2, <2>1, <2>2, FS_RemoveElement, FS_CardinalityType
    <2>4. it[V] = F[V]
      BY <1>3, <2>2, <2>3
    <2>5. it[U] = g[x] + it[V]
      BY <1>5, <2>2 DEF Iterated
    <2>6. F[U] = F[V] + g[x] /\ F[V] \in Int /\ g[x] \in Int
      <3> HIDE DEF V, x, C
      <3>1. F[V \cup {x}] = F[V] + g[x]
        BY <2>2 DEF Additive
      <3> QED BY <2>2, <3>1 DEF Additive
    <2>7. it[U] = F[U]
      <3> HIDE DEF V, x
      <3> QED BY <2>4, <2>5, <2>6
    <2> QED BY <1>3, <2>7
  <1> QED BY <1>4, <1>5

(* So SumFunction is. *)
LEMMA SumIsAdditive ==
  ASSUME NEW S, IsFiniteSet(S), NEW g, DOMAIN g = S, \A x \in S : g[x] \in Int,
         NEW F, Additive(F, g, S)
  PROVE  SumFunction(g) = F[S]
  <1>1. F = Iterated(g, S, F)
    <2>1. ASSUME NEW s \in SUBSET S, s # {}
          PROVE  LET x == CHOOSE x \in s : TRUE IN F[s] = g[x] + F[s \ {x}]
      <3> DEFINE x == CHOOSE x \in s : TRUE
      <3>1. x \in s
        BY <2>1
      <3>2. s \ {x} \in SUBSET S /\ x \in S \ (s \ {x}) /\ (s \ {x}) \cup {x} = s
        BY <3>1
      <3> HIDE DEF x
      <3>3. F[s] = F[s \ {x}] + g[x] /\ F[s \ {x}] \in Int /\ g[x] \in Int
        BY <3>2 DEF Additive
      <3> QED BY <3>3 DEF x
    <2> QED BY <2>1 DEF Additive, Iterated
  <1> DEFINE it == CHOOSE it : it = Iterated(g, S, it)
  <1>2. it = Iterated(g, S, it)
    BY <1>1
  <1>3. SumFunction(g) = it[S]
    BY DEF Iterated, SumFunction, SumFunctionOnSet, FoldFunctionOnSet, MapThenFoldSet
  <1> HIDE DEF it
  <1>4. it[S] = F[S]
    BY <1>2, IteratedIsAdditive
  <1> QED BY <1>3, <1>4

(* A sum of integers is one. *)
THEOREM SumInt ==
  ASSUME NEW S, IsFiniteSet(S), NEW g, DOMAIN g = S, \A x \in S : g[x] \in Int
  PROVE  SumFunction(g) \in Int
  <1>1. PICK F : Additive(F, g, S)
    BY AdditiveExists
  <1>2. F[S] \in Int
    BY <1>1 DEF Additive
  <1>3. SumFunction(g) = F[S]
    BY <1>1, SumIsAdditive
  <1> QED BY <1>2, <1>3

(* A sum of naturals is one. *)
THEOREM SumNat ==
  ASSUME NEW S, IsFiniteSet(S), NEW g, DOMAIN g = S, \A x \in S : g[x] \in Nat
  PROVE  SumFunction(g) \in Nat
  <1>1. PICK F : Additive(F, g, S)
    BY AdditiveExists
  <1> DEFINE C == {U \in SUBSET S : F[U] < 0}
  <1>2. SUFFICES C = {}
    <2>1. S \in SUBSET S /\ F[S] \in Int
      BY <1>1 DEF Additive
    <2>2. ~(F[S] < 0)
      BY <1>2, <2>1
    <2>3. SumFunction(g) = F[S]
      BY <1>1, SumIsAdditive
    <2> QED BY <2>1, <2>2, <2>3
  <1>3. SUFFICES ASSUME C # {} PROVE FALSE
    OBVIOUS
  <1>4. \A U \in SUBSET S : IsFiniteSet(U)
    BY FS_Subset
  <1>5. PICK U \in C : \A V \in C : Cardinality(U) <= Cardinality(V)
    <2>1. \A V \in C : IsFiniteSet(V)
      BY <1>4
    <2> HIDE DEF C
    <2> QED BY <1>3, <2>1, Fewest
  <1>6. U \in SUBSET S /\ F[U] < 0
    BY <1>5
  <1>7. U # {}
    <2>1. F[{}] = 0 /\ ~(0 < 0)
      BY <1>1 DEF Additive
    <2> HIDE DEF C
    <2> QED BY <1>6, <2>1
  <1>8. PICK x \in U : TRUE
    BY <1>7
  <1> DEFINE V == U \ {x}
  <1>9. V \in SUBSET S /\ V \cup {x} = U /\ x \in S \ V
    BY <1>6, <1>8
  <1>10. Cardinality(V) = Cardinality(U) - 1 /\ Cardinality(U) \in Nat
    BY <1>4, <1>6, <1>8, <1>9, FS_RemoveElement, FS_CardinalityType
  <1>11. V \notin C
    BY <1>5, <1>10
  <1>12. F[V] \in Int /\ ~(F[V] < 0)
    BY <1>1, <1>9, <1>11 DEF Additive
  <1>13. F[U] = F[V] + g[x]
    <2> HIDE DEF V, C
    <2>1. F[V \cup {x}] = F[V] + g[x]
      BY <1>1, <1>9 DEF Additive
    <2> QED BY <1>9, <2>1
  <1>14. g[x] \in Nat
    BY <1>9
  <1> HIDE DEF V, C
  <1> QED BY <1>6, <1>12, <1>13, <1>14

(* A sum of nothing. *)
THEOREM SumOfNothing ==
  ASSUME NEW g, DOMAIN g = {}
  PROVE  SumFunction(g) = 0
  <1>1. PICK F : Additive(F, g, {})
    BY FS_EmptySet, AdditiveExists
  <1> QED BY <1>1, FS_EmptySet, SumIsAdditive DEF Additive

(* A sum with one more to add. *)
THEOREM SumOneMore ==
  ASSUME NEW S, IsFiniteSet(S), NEW x, x \notin S, NEW g \in [S \cup {x} -> Int]
  PROVE  SumFunction(g) = SumFunction([y \in S |-> g[y]]) + g[x]
  <1> DEFINE T == S \cup {x}
             h == [y \in S |-> g[y]]
  <1>1. IsFiniteSet(T)
    BY FS_AddElement
  <1>2. DOMAIN g = T /\ (\A y \in T : g[y] \in Int) /\ DOMAIN h = S /\ \A y \in S : h[y] = g[y]
    OBVIOUS
  <1>3. PICK F : Additive(F, g, T)
    BY <1>1, <1>2, AdditiveExists
  <1> DEFINE G == [U \in SUBSET S |-> F[U]]
  <1>4. Additive(G, h, S)
    BY <1>3 DEF Additive
  <1>5. SumFunction(g) = F[T]
    BY <1>1, <1>2, <1>3, SumIsAdditive
  <1>6. G[S] = F[S] /\ S \in SUBSET T /\ x \in T \ S
    OBVIOUS
  <1>7. F[T] = F[S] + g[x]
    BY <1>3, <1>6 DEF Additive
  <1> HIDE DEF G, h
  <1>8. SumFunction(h) = G[S]
    BY <1>2, <1>4, SumIsAdditive
  <1> QED BY <1>5, <1>6, <1>7, <1>8 DEF h

(* Adding up along a sequence of numbers is their sum. *)
THEOREM RunningSum ==
  ASSUME NEW m \in Nat, NEW a \in [1 .. m -> Int]
  PROVE  /\ \E P : P = [n \in 0 .. m |-> IF n = 0 THEN 0 ELSE P[n - 1] + a[n]]
         /\ \A P : P = [n \in 0 .. m |-> IF n = 0 THEN 0 ELSE P[n - 1] + a[n]] => P[m] = SumFunction(a)
  <1> DEFINE upTo(n) == [i \in 1 .. n |-> a[i]]
             S == [n \in 0 .. m |-> SumFunction(upTo(n))]
  <1>1. SumFunction(upTo(0)) = 0
    <2>1. DOMAIN upTo(0) = {}
      OBVIOUS
    <2> HIDE DEF upTo
    <2> QED BY <2>1, SumOfNothing
  <1>2. ASSUME NEW n \in 1 .. m
        PROVE  SumFunction(upTo(n)) = SumFunction(upTo(n - 1)) + a[n]
    <2> DEFINE T == 1 .. n - 1
               g == upTo(n)
    <2>1. n - 1 \in Int /\ n \in Int /\ 1 .. n = T \cup {n} /\ n \notin T
      OBVIOUS
    <2>2. IsFiniteSet(T)
      <3> HIDE DEF T
      <3> QED BY <2>1, FS_Interval DEF T
    <2>3. g \in [T \cup {n} -> Int] /\ g[n] = a[n]
      BY <2>1
    <2>4. upTo(n - 1) = [y \in T |-> g[y]]
      OBVIOUS
    <2> HIDE DEF T, g, upTo
    <2>5. SumFunction(g) = SumFunction([y \in T |-> g[y]]) + g[n]
      BY <2>1, <2>2, <2>3, SumOneMore
    <2> QED BY <2>3, <2>4, <2>5 DEF g
  <1>3. S = [n \in 0 .. m |-> IF n = 0 THEN 0 ELSE S[n - 1] + a[n]]
    <2> HIDE DEF upTo
    <2>1. ASSUME NEW n \in 0 .. m
          PROVE  S[n] = IF n = 0 THEN 0 ELSE S[n - 1] + a[n]
      <3>1. CASE n = 0
        BY <1>1, <3>1
      <3>2. CASE n # 0
        <4>1. n \in 1 .. m /\ n - 1 \in 0 .. m
          BY <3>2
        <4> QED BY <1>2, <3>2, <4>1
      <3> QED BY <3>1, <3>2
    <2> QED BY <2>1
  <1>4. ASSUME NEW P, P = [n \in 0 .. m |-> IF n = 0 THEN 0 ELSE P[n - 1] + a[n]]
        PROVE  P[m] = SumFunction(a)
    <2> DEFINE N == {n \in 0 .. m : P[n] # S[n]}
    <2> HIDE DEF S
    <2>1. N = {}
      <3> SUFFICES ASSUME N # {} PROVE FALSE
        OBVIOUS
      <3>1. N \subseteq Nat
        OBVIOUS
      <3>2. PICK n \in N : \A k \in N : n <= k
        <4> HIDE DEF N
        <4> QED BY <3>1, LeastNumber
      <3>3. n # 0
        BY <1>3, <1>4
      <3>4. n - 1 \in 0 .. m /\ n \in 0 .. m /\ n - 1 \notin N
        BY <3>2, <3>3
      <3>5. P[n] = P[n - 1] + a[n] /\ S[n] = S[n - 1] + a[n]
        BY <1>3, <1>4, <3>3, <3>4
      <3> QED BY <3>4, <3>5
    <2>2. P[m] = S[m]
      BY <2>1
    <2>3. upTo(m) = a
      OBVIOUS
    <2>4. S[m] = SumFunction(upTo(m))
      BY DEF S
    <2> HIDE DEF upTo
    <2> QED BY <2>2, <2>3, <2>4
  <1> QED BY <1>3, <1>4
=============================================================================
