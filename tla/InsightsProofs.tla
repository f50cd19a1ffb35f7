--------------------------- MODULE InsightsProofs ---------------------------
(***************************************************************************)
(* Proofs about Insights, for any carts, events, readings and photos: what *)
(* the algorithms answer to a question keeps what each of them promises.   *)
(*                                                                         *)
(* Most answers add up what belongs to the carts of a cell, the events or  *)
(* the photos.  A sum is a fold over a finite set, which takes its members *)
(* in an order of its own: that the order does not matter, and what follows*)
(* from it for parts, zeros and groups, is proved first.                   *)
(***************************************************************************)
EXTENDS Insights, FiniteSetTheorems, NaturalsInduction, SequenceTheorems, TLAPS

-----------------------------------------------------------------------------
(* Induction.                                                              *)

\* A set that holds zero, and what follows each natural in it, holds them all.
LEMMA NatSteps ==
  ASSUME NEW P, 0 \in P, \A n \in Nat : n \in P => n + 1 \in P
  PROVE  Nat \subseteq P
<1>1. SUFFICES ASSUME Nat \ P # {} PROVE FALSE
  OBVIOUS
<1>2. PICK m \in Nat \ P : \A x \in Nat \ P : ~(<<x, m>> \in OpToRel(<, Nat))
  BY <1>1, NatLessThanWellFounded, WFMin
<1>3. m \in Nat \ {0} /\ m - 1 \in Nat
  OBVIOUS
<1>4. m - 1 \in P
  <2>1. \A x \in Nat \ P : ~(x < m)
    BY <1>2 DEF OpToRel
  <2>2. m - 1 < m
    BY <1>3
  <2> QED
    BY <1>3, <2>1, <2>2
<1> QED
  BY <1>3, <1>4

\* The parts of a finite set can be counted.
LEMMA PartsCount ==
  ASSUME NEW S, IsFiniteSet(S)
  PROVE  \A T \in SUBSET S : /\ IsFiniteSet(T) /\ Cardinality(T) \in Nat
                             /\ Cardinality(T) = 0 <=> T = {}
                             /\ Cardinality(T) <= Cardinality(S)
BY FS_Subset, FS_CardinalityType, FS_EmptySet

\* A set without one of its members has one less.
LEMMA OneLess ==
  ASSUME NEW T, IsFiniteSet(T), NEW x \in T, NEW n \in Nat, Cardinality(T) <= n + 1
  PROVE  /\ IsFiniteSet(T \ {x}) /\ Cardinality(T \ {x}) \in Nat
         /\ Cardinality(T \ {x}) <= n
         /\ Cardinality(T) = n + 1 => Cardinality(T \ {x}) = n
<1>1. Cardinality(T) \in Nat /\ IsFiniteSet(T \ {x}) /\ Cardinality(T \ {x}) = Cardinality(T) - 1
  BY FS_RemoveElement, FS_CardinalityType
<1>2. Cardinality(T \ {x}) \in Nat
  BY <1>1, FS_CardinalityType
<1> QED
  BY <1>1, <1>2

\* A set that holds the empty set, and with each part of S what it is with a
\* member more, holds S.
LEMMA SetSteps ==
  ASSUME NEW S, IsFiniteSet(S), NEW P, {} \in P,
         \A T \in SUBSET S : \A x \in S \ T : T \in P => T \cup {x} \in P
  PROVE  S \in P
<1> DEFINE N == {n \in Nat : \A T \in SUBSET S : Cardinality(T) = n => T \in P}
<1>1. 0 \in N
  BY PartsCount
<1>2. ASSUME NEW n \in Nat, n \in N PROVE n + 1 \in N
  <2>1. ASSUME NEW T \in SUBSET S, Cardinality(T) = n + 1 PROVE T \in P
    <3>1. IsFiniteSet(T) /\ T # {}
      BY <2>1, PartsCount
    <3>2. PICK x \in T : TRUE
      BY <3>1
    <3>3. Cardinality(T \ {x}) = n
      BY <2>1, <3>1, OneLess
    <3>4. T \ {x} \in P /\ (T \ {x}) \cup {x} = T /\ x \in S \ (T \ {x})
      BY <1>2, <3>3
    <3> QED
      BY <3>4
  <2> QED
    BY <2>1
<1>3. Cardinality(S) \in N
  <2> HIDE DEF N
  <2> QED
    BY <1>1, <1>2, NatSteps, FS_CardinalityType
<1> QED
  BY <1>3

-----------------------------------------------------------------------------
(* Recursion over the first naturals.                                      *)

IsStepped(g, n, base, F) ==
    \A h \in 0..n : g[h] = IF h = 0 THEN base ELSE F[<<h, g[h - 1]>>]

\* Whatever is stepped on from a base has a value at each of n steps.
LEMMA Recursion ==
  ASSUME NEW n \in Nat, NEW V, NEW base \in V, NEW F \in [(1..n) \X V -> V]
  PROVE  \E g \in [0..n -> V] : IsStepped(g, n, base, F)
<1> DEFINE Good(g, m) == \A h \in 0..n : h <= m => g[h] = IF h = 0 THEN base ELSE F[<<h, g[h - 1]>>]
           P == {m \in Nat : \E g \in [0..n -> V] : Good(g, m)}
<1>1. 0 \in P
  <2> DEFINE g == [h \in 0..n |-> base]
  <2>1. g \in [0..n -> V] /\ Good(g, 0)
    OBVIOUS
  <2> QED
    BY <2>1
<1>2. ASSUME NEW m \in Nat, m \in P PROVE m + 1 \in P
  <2>1. PICK g \in [0..n -> V] : Good(g, m)
    BY <1>2
  <2> DEFINE f == [h \in 0..n |-> IF h = 0 THEN base ELSE F[<<h, g[h - 1]>>]]
  <2>2. f \in [0..n -> V]
    <3>1. \A h \in 0..n : h # 0 => h \in 1..n /\ g[h - 1] \in V
      OBVIOUS
    <3> QED
      BY <3>1
  <2>3. ASSUME NEW h \in 0..n, h <= m + 1, h # 0 PROVE f[h] = F[<<h, f[h - 1]>>]
    <3>1. h - 1 \in 0..n /\ h - 1 <= m
      BY <2>3
    <3>2. f[h - 1] = g[h - 1]
      BY <2>1, <3>1
    <3> QED
      BY <2>3, <3>2
  <2>4. Good(f, m + 1)
    BY <2>3
  <2> HIDE DEF f, Good
  <2> QED
    BY <2>2, <2>4
<1>3. n \in P
  <2> HIDE DEF P
  <2> QED
    BY <1>1, <1>2, NatSteps
<1> QED
  BY <1>3 DEF IsStepped

-----------------------------------------------------------------------------
(* A fold over a finite set: what it is of a set follows from what it is   *)
(* of the set without the member that is chosen from it.                   *)

IsFold(it, S, base, F, chosen) ==
    \A T \in SUBSET S :
      it[T] = IF T = {} THEN base ELSE F[<<chosen[T], it[T \ {chosen[T]}]>>]

Chooses(chosen, S) == \A T \in SUBSET S : T # {} => chosen[T] \in T

\* It follows the fold as long as its values are integers.
Follows(it, S, base, F, chosen) ==
    /\ it[{}] = base
    /\ \A T \in SUBSET S :
         T # {} /\ it[T \ {chosen[T]}] \in Int => it[T] = F[<<chosen[T], it[T \ {chosen[T]}]>>]

Alike(it, jt, S) == it[S] = jt[S]

\* There is such a function on the parts of a finite set.
LEMMA FoldExists ==
  ASSUME NEW S, IsFiniteSet(S), NEW V, NEW base \in V, NEW F \in [S \X V -> V],
         NEW chosen, Chooses(chosen, S)
  PROVE  \E it \in [SUBSET S -> V] : IsFold(it, S, base, F, chosen)
<1> USE DEF Chooses
<1> DEFINE Good(it, n) == \A T \in SUBSET S : Cardinality(T) <= n =>
              it[T] = IF T = {} THEN base ELSE F[<<chosen[T], it[T \ {chosen[T]}]>>]
           P == {n \in Nat : \E it \in [SUBSET S -> V] : Good(it, n)}
<1>1. 0 \in P
  <2> DEFINE it == [T \in SUBSET S |-> base]
  <2>1. it \in [SUBSET S -> V] /\ Good(it, 0)
    BY PartsCount
  <2> QED
    BY <2>1
<1>2. ASSUME NEW n \in Nat, n \in P PROVE n + 1 \in P
  <2>1. PICK it \in [SUBSET S -> V] : Good(it, n)
    BY <1>2
  <2> DEFINE jt == [T \in SUBSET S |->
                      IF T = {} THEN base ELSE F[<<chosen[T], it[T \ {chosen[T]}]>>]]
  <2>2. jt \in [SUBSET S -> V]
    OBVIOUS
  <2>3. ASSUME NEW T \in SUBSET S, Cardinality(T) <= n + 1, T # {}
        PROVE  jt[T] = F[<<chosen[T], jt[T \ {chosen[T]}]>>]
    <3>1. T \ {chosen[T]} \in SUBSET S /\ Cardinality(T \ {chosen[T]}) <= n
      BY <2>3, PartsCount, OneLess
    <3>2. jt[T \ {chosen[T]}] = it[T \ {chosen[T]}]
      BY <2>1, <3>1
    <3> QED
      BY <2>3, <3>2
  <2>4. Good(jt, n + 1)
    BY <2>3
  <2> HIDE DEF jt, Good
  <2> QED
    BY <2>2, <2>4
<1>3. Cardinality(S) \in P
  <2> HIDE DEF P
  <2> QED
    BY <1>1, <1>2, NatSteps, FS_CardinalityType
<1>4. PICK it \in [SUBSET S -> V] : Good(it, Cardinality(S))
  BY <1>3
<1> QED
  BY <1>4, PartsCount DEF IsFold

\* There is but one, on the parts of a part too, and whatever follows it as long
\* as its values are integers agrees with it.
LEMMA FoldUnique ==
  ASSUME NEW S, NEW R \in SUBSET S, IsFiniteSet(R), NEW base \in Int, NEW F \in [S \X Int -> Int],
         NEW chosen, Chooses(chosen, S),
         NEW it \in [SUBSET S -> Int], IsFold(it, S, base, F, chosen),
         NEW jt, Follows(jt, R, base, F, chosen)
  PROVE  Alike(jt, it, R)
<1> DEFINE P == {n \in Nat : \A T \in SUBSET R : Cardinality(T) = n => jt[T] = it[T]}
<1>1. 0 \in P
  BY PartsCount DEF IsFold, Follows
<1>2. ASSUME NEW n \in Nat, n \in P PROVE n + 1 \in P
  <2>1. ASSUME NEW T \in SUBSET R, Cardinality(T) = n + 1 PROVE jt[T] = it[T]
    <3>1. T # {} /\ IsFiniteSet(T) /\ chosen[T] \in T
      BY <2>1, PartsCount DEF Chooses
    <3>2. ASSUME NEW x \in T PROVE Cardinality(T \ {x}) = n
      BY <2>1, <3>1, OneLess
    <3>3. jt[T \ {chosen[T]}] = it[T \ {chosen[T]}] /\ it[T \ {chosen[T]}] \in Int
      BY <1>2, <3>1, <3>2
    <3>4. T \in SUBSET S
      OBVIOUS
    <3> QED
      BY <3>1, <3>3, <3>4 DEF IsFold, Follows
  <2> QED
    BY <2>1
<1>3. Nat \subseteq P
  <2> HIDE DEF P
  <2> QED
    BY <1>1, <1>2, NatSteps
<1> QED
  BY <1>3, PartsCount DEF Alike

-----------------------------------------------------------------------------
(* Sums.                                                                   *)

\* The member that a sum takes first.
Pick(T) == CHOOSE x \in T : TRUE

\* w gives each member of S an integer.
Weighs(w, S) == \A x \in S : w[x] \in Int

\* A sum is a fold.
LEMMA SumFolds ==
  ASSUME NEW S, IsFiniteSet(S), NEW w, Weighs(w, S)
  PROVE  \E F \in [S \X Int -> Int], it \in [SUBSET S -> Int] :
           /\ \A x \in S, n \in Int : F[<<x, n>>] = w[x] + n
           /\ IsFold(it, S, 0, F, [T \in SUBSET S |-> Pick(T)])
           /\ SumFunctionOnSet(w, S) = it[S]
<1> DEFINE F == [p \in S \X Int |-> w[p[1]] + p[2]]
           chosen == [T \in SUBSET S |-> Pick(T)]
           Fix(g) == g = [T \in SUBSET S |->
                            IF T = {} THEN 0
                            ELSE w[CHOOSE x \in T : TRUE] + g[T \ {CHOOSE x \in T : TRUE}]]
<1>1. \A T \in SUBSET S : T # {} => Pick(T) \in T
  BY DEF Pick
<1>2. F \in [S \X Int -> Int] /\ \A x \in S, n \in Int : F[<<x, n>>] = w[x] + n
  BY DEF Weighs
<1>3. \E it \in [SUBSET S -> Int] : IsFold(it, S, 0, F, chosen)
  <2>1. Chooses(chosen, S)
    BY <1>1 DEF Chooses
  <2>2. 0 \in Int
    OBVIOUS
  <2> HIDE DEF F, chosen
  <2> QED
    BY <1>2, <2>1, <2>2, FoldExists
<1>4. PICK it \in [SUBSET S -> Int] : IsFold(it, S, 0, F, chosen)
  BY <1>3
<1>5. Fix(it)
  BY <1>1, <1>4 DEF IsFold, Pick
<1>6. SumFunctionOnSet(w, S) = (CHOOSE g : Fix(g))[S]
  BY DEF SumFunctionOnSet, FoldFunctionOnSet, MapThenFoldSet
<1>7. PICK jt : jt = CHOOSE g : Fix(g)
  OBVIOUS
<1>8. Fix(jt)
  <2> HIDE DEF Fix
  <2> QED
    BY <1>5, <1>7, Zenon
<1>9. Follows(jt, S, 0, F, chosen)
  BY <1>1, <1>8 DEF Follows, Pick
<1>10. Chooses(chosen, S) /\ S \in SUBSET S /\ 0 \in Int
  BY <1>1 DEF Chooses
<1> HIDE DEF F, chosen, Fix
<1>11. Alike(jt, it, S)
  <2>1. F \in [S \X Int -> Int]
    BY <1>2
  <2>2. it \in [SUBSET S -> Int] /\ IsFold(it, S, 0, F, chosen)
    BY <1>4
  <2> QED
    BY <1>9, <1>10, <2>1, <2>2, FoldUnique
<1> QED
  BY <1>2, <1>4, <1>6, <1>7, <1>11 DEF chosen, Alike

\* Nothing adds up to zero, and anything to what is taken first and the rest.
LEMMA SumPick ==
  ASSUME NEW S, IsFiniteSet(S), NEW w, Weighs(w, S)
  PROVE  /\ SumFunctionOnSet(w, S) \in Int
         /\ S = {} => SumFunctionOnSet(w, S) = 0
         /\ S # {} => SumFunctionOnSet(w, S) = w[Pick(S)] + SumFunctionOnSet(w, S \ {Pick(S)})
<1>1. PICK F \in [S \X Int -> Int], it \in [SUBSET S -> Int] :
           /\ \A x \in S, n \in Int : F[<<x, n>>] = w[x] + n
           /\ IsFold(it, S, 0, F, [T \in SUBSET S |-> Pick(T)])
           /\ SumFunctionOnSet(w, S) = it[S]
  BY SumFolds
<1>2. ASSUME S # {} PROVE SumFunctionOnSet(w, S) = w[Pick(S)] + SumFunctionOnSet(w, S \ {Pick(S)})
  <2> DEFINE R == S \ {Pick(S)}
  <2>1. Pick(S) \in S /\ \A T \in SUBSET S : T # {} => Pick(T) \in T
    BY <1>2 DEF Pick
  <2>2. IsFiniteSet(R) /\ Weighs(w, R) /\ R \in SUBSET S /\ 0 \in Int
    BY FS_Subset DEF Weighs
  <2>3. PICK G \in [R \X Int -> Int], jt \in [SUBSET R -> Int] :
           /\ \A x \in R, n \in Int : G[<<x, n>>] = w[x] + n
           /\ IsFold(jt, R, 0, G, [T \in SUBSET R |-> Pick(T)])
           /\ SumFunctionOnSet(w, R) = jt[R]
    <3> HIDE DEF R
    <3> QED
      BY <2>2, SumFolds
  <2> DEFINE chosen == [T \in SUBSET S |-> Pick(T)]
  <2>4. Follows(jt, R, 0, F, chosen)
    <3>1. ASSUME NEW T \in SUBSET R, T # {} PROVE jt[T] = F[<<chosen[T], jt[T \ {chosen[T]}]>>]
      <4>1. chosen[T] = Pick(T) /\ Pick(T) \in T /\ Pick(T) \in S
        BY <2>1, <3>1
      <4>2. jt[T] = G[<<Pick(T), jt[T \ {Pick(T)}]>>] /\ jt[T \ {Pick(T)}] \in Int
        BY <2>3, <3>1 DEF IsFold
      <4> QED
        <5>1. G[<<Pick(T), jt[T \ {Pick(T)}]>>] = w[Pick(T)] + jt[T \ {Pick(T)}]
          BY <2>3, <4>1, <4>2
        <5>2. F[<<Pick(T), jt[T \ {Pick(T)}]>>] = w[Pick(T)] + jt[T \ {Pick(T)}]
          BY <1>1, <4>1, <4>2
        <5> QED
          BY <4>1, <4>2, <5>1, <5>2
    <3>2. jt[{}] = 0
      BY <2>3 DEF IsFold
    <3> QED
      BY <3>1, <3>2 DEF Follows
  <2>5. Chooses(chosen, S) /\ IsFold(it, S, 0, F, chosen)
    BY <1>1, <2>1 DEF Chooses
  <2>6. Alike(jt, it, R)
    <3> HIDE DEF R, chosen
    <3> QED
      BY <2>2, <2>4, <2>5, FoldUnique
  <2>7. it[S] = F[<<Pick(S), it[R]>>] /\ it[R] \in Int
    BY <1>1, <1>2 DEF IsFold
  <2> QED
    BY <1>1, <2>1, <2>3, <2>6, <2>7 DEF Alike
<1>3. S = {} => it[S] = 0
  BY <1>1 DEF IsFold
<1> QED
  BY <1>1, <1>2, <1>3

\* It does not matter which member is taken first.
LEMMA SumRemove ==
  ASSUME NEW S, IsFiniteSet(S), NEW w, Weighs(w, S), NEW x \in S
  PROVE  SumFunctionOnSet(w, S) = w[x] + SumFunctionOnSet(w, S \ {x})
<1> DEFINE N == {n \in Nat : \A T \in SUBSET S : Cardinality(T) = n =>
              \A y \in T : SumFunctionOnSet(w, T) = w[y] + SumFunctionOnSet(w, T \ {y})}
<1>1. 0 \in N
  BY PartsCount
<1>2. ASSUME NEW n \in Nat, n \in N PROVE n + 1 \in N
  <2>1. ASSUME NEW T \in SUBSET S, Cardinality(T) = n + 1, NEW y \in T
        PROVE  SumFunctionOnSet(w, T) = w[y] + SumFunctionOnSet(w, T \ {y})
    <3>1. \A U \in SUBSET S : IsFiniteSet(U) /\ Weighs(w, U)
      BY PartsCount DEF Weighs
    <3>2. PICK p : p = Pick(T)
      OBVIOUS
    <3>3. p \in T /\ SumFunctionOnSet(w, T) = w[p] + SumFunctionOnSet(w, T \ {p})
      <4>1. p \in T
        BY <3>2 DEF Pick
      <4> QED
        BY <3>1, <3>2, <4>1, SumPick
    <3>4. CASE p # y
      <4>1. Cardinality(T \ {p}) = n /\ Cardinality(T \ {y}) = n
        <5>1. IsFiniteSet(T) /\ Cardinality(T) <= n + 1
          BY <2>1, <3>1
        <5>2. ASSUME NEW q \in T PROVE Cardinality(T \ {q}) = n
          BY <2>1, <5>1, OneLess
        <5> QED
          BY <3>3, <5>2
      <4>2. /\ SumFunctionOnSet(w, T \ {p}) = w[y] + SumFunctionOnSet(w, (T \ {p}) \ {y})
            /\ SumFunctionOnSet(w, T \ {y}) = w[p] + SumFunctionOnSet(w, (T \ {y}) \ {p})
        BY <1>2, <3>3, <3>4, <4>1
      <4>3. (T \ {p}) \ {y} = (T \ {y}) \ {p}
        OBVIOUS
      <4>4. SumFunctionOnSet(w, (T \ {y}) \ {p}) \in Int
        BY <3>1, SumPick
      <4>5. w[p] \in Int /\ w[y] \in Int
        BY <3>3 DEF Weighs
      <4>6. PICK a \in Int : a = SumFunctionOnSet(w, (T \ {y}) \ {p})
        BY <4>4
      <4>7. /\ SumFunctionOnSet(w, T \ {p}) = w[y] + a
            /\ SumFunctionOnSet(w, T \ {y}) = w[p] + a
        BY <4>2, <4>3, <4>6
      <4> QED
        BY <3>3, <4>5, <4>7
    <3> QED
      BY <3>3, <3>4
  <2> QED
    BY <2>1
<1>3. Cardinality(S) \in N
  <2> HIDE DEF N
  <2> QED
    BY <1>1, <1>2, NatSteps, FS_CardinalityType
<1> QED
  BY <1>3

\* A member more adds its weight.
LEMMA SumInsert ==
  ASSUME NEW S, IsFiniteSet(S), NEW w, NEW x, x \notin S, Weighs(w, S \cup {x})
  PROVE  SumFunctionOnSet(w, S \cup {x}) = w[x] + SumFunctionOnSet(w, S)
<1>1. IsFiniteSet(S \cup {x}) /\ x \in S \cup {x}
  BY FS_AddElement
<1>2. (S \cup {x}) \ {x} = S
  OBVIOUS
<1>3. SumFunctionOnSet(w, S \cup {x}) = w[x] + SumFunctionOnSet(w, (S \cup {x}) \ {x})
  BY <1>1, SumRemove
<1> QED
  BY <1>2, <1>3

\* What is weighed alike adds up to the same.
LEMMA SumAlike ==
  ASSUME NEW S, IsFiniteSet(S), NEW v, NEW w, Weighs(w, S), \A x \in S : v[x] = w[x]
  PROVE  SumFunctionOnSet(v, S) = SumFunctionOnSet(w, S)
<1> DEFINE P == {T \in SUBSET S : SumFunctionOnSet(v, T) = SumFunctionOnSet(w, T)}
<1>1. \A T \in SUBSET S : IsFiniteSet(T) /\ Weighs(v, T) /\ Weighs(w, T)
  BY PartsCount DEF Weighs
<1>2. {} \in P
  BY <1>1, SumPick
<1>3. ASSUME NEW T \in SUBSET S, NEW x \in S \ T, T \in P PROVE T \cup {x} \in P
  <2>1. IsFiniteSet(T) /\ Weighs(v, T \cup {x}) /\ Weighs(w, T \cup {x})
    BY <1>1
  <2>2. /\ SumFunctionOnSet(v, T \cup {x}) = v[x] + SumFunctionOnSet(v, T)
        /\ SumFunctionOnSet(w, T \cup {x}) = w[x] + SumFunctionOnSet(w, T)
    BY <2>1, SumInsert
  <2> QED
    BY <1>3, <2>2
<1>4. S \in P
  <2> HIDE DEF P
  <2> QED
    BY <1>2, <1>3, SetSteps
<1> QED
  BY <1>4

\* A sum of differences and sums is the difference and sum of the sums.
LEMMA SumBalance ==
  ASSUME NEW S, IsFiniteSet(S), NEW u, NEW a, NEW l, NEW c,
         Weighs(u, S), Weighs(a, S), Weighs(l, S), Weighs(c, S),
         \A x \in S : u[x] = a[x] - l[x] + c[x]
  PROVE  SumFunctionOnSet(u, S)
           = SumFunctionOnSet(a, S) - SumFunctionOnSet(l, S) + SumFunctionOnSet(c, S)
<1> DEFINE Balanced(T) == SumFunctionOnSet(u, T)
                = SumFunctionOnSet(a, T) - SumFunctionOnSet(l, T) + SumFunctionOnSet(c, T)
           P == {T \in SUBSET S : Balanced(T)}
<1>1. \A T \in SUBSET S :
         IsFiniteSet(T) /\ Weighs(u, T) /\ Weighs(a, T) /\ Weighs(l, T) /\ Weighs(c, T)
  BY PartsCount DEF Weighs
<1>2. {} \in P
  <2>1. /\ SumFunctionOnSet(u, {}) = 0 /\ SumFunctionOnSet(a, {}) = 0
        /\ SumFunctionOnSet(l, {}) = 0 /\ SumFunctionOnSet(c, {}) = 0
    BY <1>1, SumPick
  <2> QED
    BY <2>1
<1>3. ASSUME NEW T \in SUBSET S, NEW x \in S \ T, T \in P PROVE T \cup {x} \in P
  <2>1. /\ IsFiniteSet(T) /\ T \cup {x} \in SUBSET S
        /\ Weighs(u, T \cup {x}) /\ Weighs(a, T \cup {x})
        /\ Weighs(l, T \cup {x}) /\ Weighs(c, T \cup {x})
    BY <1>1
  <2>2. /\ SumFunctionOnSet(u, T \cup {x}) = u[x] + SumFunctionOnSet(u, T)
        /\ SumFunctionOnSet(a, T \cup {x}) = a[x] + SumFunctionOnSet(a, T)
        /\ SumFunctionOnSet(l, T \cup {x}) = l[x] + SumFunctionOnSet(l, T)
        /\ SumFunctionOnSet(c, T \cup {x}) = c[x] + SumFunctionOnSet(c, T)
    BY <2>1, SumInsert
  <2>3. /\ SumFunctionOnSet(a, T) \in Int /\ SumFunctionOnSet(l, T) \in Int
        /\ SumFunctionOnSet(c, T) \in Int
    BY <1>1, SumPick
  <2>4. a[x] \in Int /\ l[x] \in Int /\ c[x] \in Int /\ u[x] = a[x] - l[x] + c[x]
    BY DEF Weighs
  <2>5. Balanced(T)
    BY <1>3
  <2>6. Balanced(T \cup {x})
    BY <2>2, <2>3, <2>4, <2>5
  <2> QED
    BY <2>1, <2>6
<1>4. S \in P
  <2> HIDE DEF P
  <2> QED
    BY <1>2, <1>3, SetSteps
<1> QED
  BY <1>4

\* Members that weigh nothing do not count.
LEMMA SumZeros ==
  ASSUME NEW S, IsFiniteSet(S), NEW w, Weighs(w, S), NEW R \in SUBSET S,
         \A x \in S \ R : w[x] = 0
  PROVE  SumFunctionOnSet(w, S) = SumFunctionOnSet(w, R)
<1> DEFINE P == {T \in SUBSET (S \ R) : SumFunctionOnSet(w, R \cup T) = SumFunctionOnSet(w, R)}
<1>1. IsFiniteSet(S \ R) /\ \A T \in SUBSET S : IsFiniteSet(T) /\ Weighs(w, T)
  BY PartsCount, FS_Difference DEF Weighs
<1>2. {} \in P
  <2>1. R \cup {} = R
    OBVIOUS
  <2> QED
    BY <2>1
<1>3. ASSUME NEW T \in SUBSET (S \ R), NEW x \in (S \ R) \ T, T \in P PROVE T \cup {x} \in P
  <2>1. IsFiniteSet(R \cup T) /\ Weighs(w, (R \cup T) \cup {x}) /\ x \notin R \cup T
    <3>1. R \cup T \in SUBSET S /\ (R \cup T) \cup {x} \in SUBSET S
      OBVIOUS
    <3> QED
      BY <1>1, <3>1
  <2>2. SumFunctionOnSet(w, (R \cup T) \cup {x}) = w[x] + SumFunctionOnSet(w, R \cup T)
    BY <2>1, SumInsert
  <2>3. SumFunctionOnSet(w, R \cup (T \cup {x})) = w[x] + SumFunctionOnSet(w, R \cup T)
    <3>1. (R \cup T) \cup {x} = R \cup (T \cup {x})
      OBVIOUS
    <3> QED
      BY <2>2, <3>1
  <2>4. w[x] = 0 /\ SumFunctionOnSet(w, R \cup T) = SumFunctionOnSet(w, R)
    BY <1>3
  <2>5. SumFunctionOnSet(w, R) \in Int
    BY <1>1, SumPick
  <2> QED
    BY <2>3, <2>4, <2>5
<1>4. S \ R \in P
  <2> HIDE DEF P
  <2> QED
    BY <1>1, <1>2, <1>3, SetSteps
<1>5. R \cup (S \ R) = S
  OBVIOUS
<1> QED
  BY <1>4, <1>5

\* What weighs less adds up to less.
LEMMA SumGrows ==
  ASSUME NEW S, IsFiniteSet(S), NEW v, NEW w, Weighs(v, S), Weighs(w, S), \A x \in S : v[x] <= w[x]
  PROVE  SumFunctionOnSet(v, S) <= SumFunctionOnSet(w, S)
<1> DEFINE Less(T) == SumFunctionOnSet(v, T) <= SumFunctionOnSet(w, T)
           P == {T \in SUBSET S : Less(T)}
<1>1. \A T \in SUBSET S : IsFiniteSet(T) /\ Weighs(v, T) /\ Weighs(w, T)
  BY PartsCount DEF Weighs
<1>2. {} \in P
  <2>1. SumFunctionOnSet(v, {}) = 0 /\ SumFunctionOnSet(w, {}) = 0
    BY <1>1, SumPick
  <2> QED
    BY <2>1
<1>3. ASSUME NEW T \in SUBSET S, NEW x \in S \ T, T \in P PROVE T \cup {x} \in P
  <2>1. IsFiniteSet(T) /\ T \cup {x} \in SUBSET S /\ Weighs(v, T \cup {x}) /\ Weighs(w, T \cup {x})
    BY <1>1
  <2>2. /\ SumFunctionOnSet(v, T \cup {x}) = v[x] + SumFunctionOnSet(v, T)
        /\ SumFunctionOnSet(w, T \cup {x}) = w[x] + SumFunctionOnSet(w, T)
    BY <2>1, SumInsert
  <2>3. SumFunctionOnSet(v, T) \in Int /\ SumFunctionOnSet(w, T) \in Int
    BY <1>1, SumPick
  <2>4. v[x] \in Int /\ w[x] \in Int /\ v[x] <= w[x] /\ Less(T)
    BY <1>3 DEF Weighs
  <2>5. Less(T \cup {x})
    BY <2>2, <2>3, <2>4
  <2> QED
    BY <2>1, <2>5
<1>4. S \in P
  <2> HIDE DEF P
  <2> QED
    BY <1>2, <1>3, SetSteps
<1> QED
  BY <1>4

\* Counts add up to a count.
LEMMA SumCounts ==
  ASSUME NEW S, IsFiniteSet(S), NEW w, \A x \in S : w[x] \in Nat
  PROVE  SumFunctionOnSet(w, S) \in Nat
<1> DEFINE z == [x \in S |-> 0]
<1>1. Weighs(w, S) /\ Weighs(z, S) /\ \A x \in S : z[x] = 0 /\ z[x] <= w[x]
  BY DEF Weighs
<1> HIDE DEF z
<1>2. SumFunctionOnSet(z, S) <= SumFunctionOnSet(w, S)
  BY <1>1, SumGrows
<1>3. SumFunctionOnSet(z, S) = SumFunctionOnSet(z, {})
  BY <1>1, SumZeros
<1>4. SumFunctionOnSet(z, {}) = 0
  BY <1>1, FS_EmptySet, SumPick DEF Weighs
<1>5. SumFunctionOnSet(w, S) \in Int
  BY <1>1, SumPick
<1> QED
  BY <1>2, <1>3, <1>4, <1>5

\* Two sets without a common member add up to their union.
LEMMA SumUnion ==
  ASSUME NEW S, IsFiniteSet(S), NEW w, Weighs(w, S), NEW A \in SUBSET S, NEW B \in SUBSET S,
         A \cap B = {}
  PROVE  SumFunctionOnSet(w, A \cup B) = SumFunctionOnSet(w, A) + SumFunctionOnSet(w, B)
<1> DEFINE Adds(T) == SumFunctionOnSet(w, A \cup T)
                         = SumFunctionOnSet(w, A) + SumFunctionOnSet(w, T)
           P == {T \in SUBSET B : Adds(T)}
<1>1. \A T \in SUBSET S :
         IsFiniteSet(T) /\ Weighs(w, T) /\ SumFunctionOnSet(w, T) \in Int
  BY PartsCount, SumPick DEF Weighs
<1>2. {} \in P
  <2>1. A \cup {} = A /\ {} \in SUBSET S
    OBVIOUS
  <2>2. SumFunctionOnSet(w, {}) = 0
    BY <1>1, <2>1, SumPick
  <2> QED
    BY <1>1, <2>1, <2>2
<1>3. ASSUME NEW T \in SUBSET B, NEW x \in B \ T, T \in P PROVE T \cup {x} \in P
  <2>1. /\ x \notin A \cup T
        /\ A \cup T \in SUBSET S /\ (A \cup T) \cup {x} \in SUBSET S /\ T \cup {x} \in SUBSET S
        /\ T \in SUBSET S /\ x \in S
    OBVIOUS
  <2>2. SumFunctionOnSet(w, (A \cup T) \cup {x}) = w[x] + SumFunctionOnSet(w, A \cup T)
    BY <1>1, <2>1, SumInsert
  <2>3. SumFunctionOnSet(w, T \cup {x}) = w[x] + SumFunctionOnSet(w, T)
    BY <1>1, <2>1, SumInsert
  <2>4. SumFunctionOnSet(w, A \cup (T \cup {x})) = w[x] + SumFunctionOnSet(w, A \cup T)
    <3>1. (A \cup T) \cup {x} = A \cup (T \cup {x})
      OBVIOUS
    <3> QED
      BY <2>2, <3>1
  <2>5. /\ w[x] \in Int /\ SumFunctionOnSet(w, A) \in Int /\ SumFunctionOnSet(w, T) \in Int
        /\ Adds(T)
    BY <1>1, <1>3, <2>1 DEF Weighs
  <2>6. Adds(T \cup {x})
    BY <2>3, <2>4, <2>5
  <2> QED
    BY <2>6
<1>4. B \in P
  <2>1. IsFiniteSet(B)
    BY <1>1
  <2> HIDE DEF P
  <2> QED
    BY <1>2, <1>3, <2>1, SetSteps
<1> QED
  BY <1>4

\* The members of the groups with some labels.
Grouped(S, group, labels) == {x \in S : group[x] \in labels}

\* What each group adds up to.
Gathers(v, w, S, group, labels) ==
    \A l \in labels : v[l] = SumFunctionOnSet(w, {x \in S : group[x] = l})

\* The sum over groups of what each of them adds up to is the sum over their members.
LEMMA SumGroups ==
  ASSUME NEW S, IsFiniteSet(S), NEW w, Weighs(w, S), NEW L, IsFiniteSet(L), NEW group,
         NEW v, Gathers(v, w, S, group, L)
  PROVE  SumFunctionOnSet(v, L) = SumFunctionOnSet(w, Grouped(S, group, L))
<1> USE DEF Grouped, Gathers
<1> DEFINE Of(M) == {x \in S : group[x] \in M}
           Sums(M) == SumFunctionOnSet(v, M) = SumFunctionOnSet(w, Of(M))
           P == {M \in SUBSET L : Sums(M)}
<1>1. \A T \in SUBSET S :
         IsFiniteSet(T) /\ Weighs(w, T) /\ SumFunctionOnSet(w, T) \in Int
  BY PartsCount, SumPick DEF Weighs
<1>2. \A M \in SUBSET L : IsFiniteSet(M) /\ Weighs(v, M)
  <2>1. \A l \in L : {x \in S : group[x] = l} \in SUBSET S
    OBVIOUS
  <2> QED
    BY <1>1, <2>1, PartsCount DEF Weighs
<1>3. {} \in P
  <2>1. Of({}) = {} /\ {} \in SUBSET S /\ {} \in SUBSET L
    OBVIOUS
  <2>2. SumFunctionOnSet(v, {}) = 0 /\ SumFunctionOnSet(w, {}) = 0
    BY <1>1, <1>2, <2>1, SumPick
  <2> QED
    BY <2>1, <2>2
<1>4. ASSUME NEW M \in SUBSET L, NEW l \in L \ M, M \in P PROVE M \cup {l} \in P
  <2> DEFINE New == {x \in S : group[x] = l}
  <2>1. Of(M \cup {l}) = Of(M) \cup New /\ Of(M) \cap New = {}
    OBVIOUS
  <2>2. Of(M) \in SUBSET S /\ New \in SUBSET S /\ M \cup {l} \in SUBSET L
    OBVIOUS
  <2>3. SumFunctionOnSet(w, Of(M) \cup New)
           = SumFunctionOnSet(w, Of(M)) + SumFunctionOnSet(w, New)
    <3> HIDE DEF Of, New
    <3> QED
      BY <2>1, <2>2, SumUnion
  <2>4. SumFunctionOnSet(v, M \cup {l}) = v[l] + SumFunctionOnSet(v, M)
    BY <1>2, <2>2, SumInsert
  <2>5. v[l] = SumFunctionOnSet(w, New) /\ Sums(M)
    BY <1>4
  <2>6. SumFunctionOnSet(w, Of(M)) \in Int /\ SumFunctionOnSet(w, New) \in Int
    BY <1>1, <2>2
  <2> HIDE DEF Of, New
  <2>7. Sums(M \cup {l})
    <3>1. SumFunctionOnSet(w, Of(M \cup {l}))
             = SumFunctionOnSet(w, Of(M)) + SumFunctionOnSet(w, New)
      BY <2>1, <2>3
    <3> QED
      BY <2>4, <2>5, <2>6, <3>1
  <2> QED
    BY <2>2, <2>7
<1>5. L \in P
  <2> HIDE DEF P
  <2> QED
    BY <1>3, <1>4, SetSteps
<1> QED
  BY <1>5

\* A sum over at most two members, in full.
LEMMA SumOfTwo ==
  ASSUME NEW w, NEW x, NEW y, x # y, Weighs(w, {x, y})
  PROVE  /\ SumFunctionOnSet(w, {}) = 0
         /\ SumFunctionOnSet(w, {x}) = w[x]
         /\ SumFunctionOnSet(w, {x, y}) = w[x] + w[y]
<1>1. Weighs(w, {}) /\ Weighs(w, {x}) /\ w[x] \in Int /\ w[y] \in Int
  BY DEF Weighs
<1>2. IsFiniteSet({}) /\ IsFiniteSet({x})
  BY FS_EmptySet, FS_Singleton
<1>3. {} \cup {x} = {x} /\ {x} \cup {y} = {x, y}
  OBVIOUS
<1>4. SumFunctionOnSet(w, {}) = 0
  BY <1>1, <1>2, SumPick
<1>5. SumFunctionOnSet(w, {x}) = w[x] + SumFunctionOnSet(w, {})
  <2>1. SumFunctionOnSet(w, {} \cup {x}) = w[x] + SumFunctionOnSet(w, {})
    BY <1>1, <1>2, <1>3, SumInsert
  <2> QED
    BY <1>3, <2>1
<1>6. SumFunctionOnSet(w, {x, y}) = w[y] + SumFunctionOnSet(w, {x})
  <2>1. SumFunctionOnSet(w, {x} \cup {y}) = w[y] + SumFunctionOnSet(w, {x})
    BY <1>2, <1>3, SumInsert
  <2> QED
    BY <1>3, <2>1
<1> QED
  BY <1>1, <1>4, <1>5, <1>6

-----------------------------------------------------------------------------
(* The question.                                                           *)

\* What may be asked, of each kind.
MigrationsAsked ==
    \E before, after \in Snapshots :
      \E order \in SetToSeqs({Cell(c) : c \in Range(before) \cup Range(after)}) :
        asked = [about |-> "migrations", before |-> before, after |-> after, order |-> order]
ZonesAsked == \E carts \in Crowds : asked = [about |-> "zones", carts |-> carts]
MoodAsked ==
    \E events \in BoundedSeq(MoodEvents, 2), category \in Categories :
      asked = [about |-> "mood", events |-> events, category |-> category]
DateAsked ==
    \E month \in 1..12, day \in 1..31 : asked = [about |-> "date", date |-> Date(month, day)]
HistoryAsked == \E n \in 0..MaxHistory : asked = [about |-> "history", hours |-> n]
ForecastAsked ==
    \E hours \in 0..1, rate \in 0..2, reading \in Readings, mood \in Moods :
      asked = [about |-> "forecast", hours |-> hours, rate |-> rate,
               reading |-> reading, mood |-> mood]
PhotosAsked ==
    \E photos \in BoundedSeq(Photos, 3) : asked = [about |-> "photos", photos |-> photos]
PageAsked ==
    \E temp \in Temps, humidity \in {20, 50, 51, 100}, where \in Neighborhoods,
      telemetry \in Telemetries :
        asked = [about |-> "page", temp |-> temp, humidity |-> humidity, where |-> where,
                 telemetry |-> telemetry]

\* The invariant: a question is one that may be asked.
QuestionInv ==
    \/ asked = Nothing
    \/ MigrationsAsked \/ ZonesAsked \/ MoodAsked \/ DateAsked
    \/ HistoryAsked \/ ForecastAsked \/ PhotosAsked \/ PageAsked

\* It holds at the beginning and is kept by every step.
LEMMA QuestionSteps ==
  /\ InsightsInit => QuestionInv
  /\ QuestionInv /\ [InsightsNext]_asked => QuestionInv'
<1>1. InsightsInit => QuestionInv
  BY DEF InsightsInit, QuestionInv
<1>2. ASSUME QuestionInv, [InsightsNext]_asked PROVE QuestionInv'
  <2>1. CASE asked' = asked
    <3>1. /\ MigrationsAsked => MigrationsAsked'
          /\ ZonesAsked => ZonesAsked'
          /\ MoodAsked => MoodAsked'
          /\ DateAsked => DateAsked'
          /\ HistoryAsked => HistoryAsked'
          /\ ForecastAsked => ForecastAsked'
          /\ PhotosAsked => PhotosAsked'
          /\ PageAsked => PageAsked'
      <4>1. (MigrationsAsked => MigrationsAsked') /\ (ZonesAsked => ZonesAsked')
        BY <2>1 DEF MigrationsAsked, ZonesAsked
      <4>2. (MoodAsked => MoodAsked') /\ (DateAsked => DateAsked')
        BY <2>1 DEF MoodAsked, DateAsked
      <4>3. (HistoryAsked => HistoryAsked') /\ (ForecastAsked => ForecastAsked')
        BY <2>1 DEF HistoryAsked, ForecastAsked
      <4>4. (PhotosAsked => PhotosAsked') /\ (PageAsked => PageAsked')
        BY <2>1 DEF PhotosAsked, PageAsked
      <4> QED
        BY <4>1, <4>2, <4>3, <4>4
    <3> QED
      BY <1>2, <2>1, <3>1 DEF QuestionInv
  <2>2. CASE AskMigrations
    BY <2>2 DEF AskMigrations, MigrationsAsked, QuestionInv
  <2>3. CASE AskZones
    BY <2>3 DEF AskZones, ZonesAsked, QuestionInv
  <2>4. CASE AskMood
    BY <2>4 DEF AskMood, MoodAsked, QuestionInv
  <2>5. CASE AskDate
    BY <2>5 DEF AskDate, DateAsked, QuestionInv
  <2>6. CASE AskHistory
    BY <2>6 DEF AskHistory, HistoryAsked, QuestionInv
  <2>7. CASE AskForecast
    BY <2>7 DEF AskForecast, ForecastAsked, QuestionInv
  <2>8. CASE AskPhotos
    BY <2>8 DEF AskPhotos, PhotosAsked, QuestionInv
  <2>9. CASE AskPage
    BY <2>9 DEF AskPage, PageAsked, QuestionInv
  <2>10. CASE Done
    BY <2>10 DEF Done, QuestionInv
  <2> QED
    BY <1>2, <2>1, <2>2, <2>3, <2>4, <2>5, <2>6, <2>7, <2>8, <2>9, <2>10 DEF InsightsNext, Ask
<1> QED
  BY <1>1, <1>2

\* What a question is about tells how it was asked.
LEMMA KindsAsked ==
  ASSUME QuestionInv
  PROVE  /\ asked.about = "migrations" => MigrationsAsked
         /\ asked.about = "zones" => ZonesAsked
         /\ asked.about = "mood" => MoodAsked
         /\ asked.about = "date" => DateAsked
         /\ asked.about = "history" => HistoryAsked
         /\ asked.about = "forecast" => ForecastAsked
         /\ asked.about = "photos" => PhotosAsked
         /\ asked.about = "page" => PageAsked
<1>1. MigrationsAsked => asked.about = "migrations"
  BY DEF MigrationsAsked
<1>2. ZonesAsked => asked.about = "zones"
  BY DEF ZonesAsked
<1>3. MoodAsked => asked.about = "mood"
  BY DEF MoodAsked
<1>4. DateAsked => asked.about = "date"
  BY DEF DateAsked
<1>5. HistoryAsked => asked.about = "history"
  BY DEF HistoryAsked
<1>6. ForecastAsked => asked.about = "forecast"
  BY DEF ForecastAsked
<1>7. PhotosAsked => asked.about = "photos"
  BY DEF PhotosAsked
<1>8. PageAsked => asked.about = "page"
  BY DEF PageAsked
<1>9. asked = Nothing => asked.about = "nothing"
  BY DEF Nothing
<1> QED
  BY <1>1, <1>2, <1>3, <1>4, <1>5, <1>6, <1>7, <1>8, <1>9 DEF QuestionInv

-----------------------------------------------------------------------------
(* Dates, histories and forecasts without a model.                         *)

\* The branches of the calendar agree with the vacations.
LEMMA Vacations == QuestionInv => VacationsAgree
<1> SUFFICES ASSUME QuestionInv, asked.about = "date" PROVE VacationsAgree
  BY DEF VacationsAgree
<1>1. PICK month \in 1..12, day \in 1..31 : asked.date = Date(month, day)
  BY KindsAsked DEF DateAsked
<1> DEFINE date == asked.date
<1>2. date.month = month /\ date.day = day
  BY <1>1 DEF Date
<1>3. TemporalFeatures(date).vacation <=> IsSchoolVacation(date)
  BY DEF TemporalFeatures
<1>4. IsSchoolVacation(date) => \E p \in SchoolVacationPeriods : InPeriod(date, p)
  BY <1>2 DEF IsSchoolVacation, SchoolVacationPeriods, Date, NotAfter, InPeriod
<1>5. ASSUME NEW p \in SchoolVacationPeriods, NotAfter(p[1], p[2]), InPeriod(date, p)
      PROVE  IsSchoolVacation(date)
  BY <1>2, <1>5 DEF IsSchoolVacation, SchoolVacationPeriods, Date, NotAfter, InPeriod
<1> QED
  BY <1>3, <1>4, <1>5 DEF VacationsAgree

\* Histories of every length.
LEMMA Histories == QuestionInv => HistoryInRange
<1> SUFFICES ASSUME QuestionInv, asked.about = "history" PROVE HistoryInRange
  BY DEF HistoryInRange
<1>1. PICK n \in Nat : n = asked.hours
  BY KindsAsked, ReadingsAssumption DEF HistoryAsked, ReadingsAssumption
<1> DEFINE read == HistoricalFeatures(n)
<1>2. DOMAIN read = {"sales_lag_1h", "sales_lag_4h", "sales_lag_1d", "sales_lag_7d",
                     "sales_same_hour_last_week"}
  BY DEF HistoricalFeatures
<1>3. /\ \A name \in DOMAIN read : read[name] \in (IF n = 0 THEN 0 ELSE 1)..n
      /\ Window(n) \subseteq 1..n
  BY <1>2 DEF HistoricalFeatures, LastHour, LastDay, Window
<1>4. /\ read.sales_lag_1h <= read.sales_lag_1d
      /\ read.sales_lag_1d <= read.sales_lag_7d
      /\ n \notin 4..23 => read.sales_lag_4h <= read.sales_lag_1d
      /\ n # 168 => read.sales_lag_7d <= read.sales_same_hour_last_week
  BY DEF HistoricalFeatures, LastHour, LastDay
<1> QED
  BY <1>1, <1>3, <1>4 DEF HistoryInRange

\* A product with a factor that is not negative grows with the other.
LEMMA TimesGrows ==
  ASSUME NEW a \in Int, NEW b \in Int, NEW k \in Nat, a <= b
  PROVE  k * a <= k * b /\ a * k <= b * k /\ a * k \in Int /\ k * a = a * k
<1>1. PICK d \in Nat : b = a + d
  <2>1. b - a \in Nat /\ b = a + (b - a)
    OBVIOUS
  <2> QED
    BY <2>1
<1>2. k * (a + d) = k * a + k * d /\ k * d \in Nat /\ k * a \in Int /\ k * a = a * k
      /\ k * b = b * k
  OBVIOUS
<1> QED
  BY <1>1, <1>2

\* What the formula predicts is not negative, grows with the temperature and the
\* mood, and is nothing exactly when nothing was sold or the mood is at its lowest.
LEMMA Predicted ==
  ASSUME NEW last \in 0..2, NEW t \in Int, NEW m \in Int
  PROVE  /\ StandIn(last, t, m).predicted \in Nat
         /\ 0 <= StandIn(last, t, m).lower
         /\ StandIn(last, t, m).lower <= StandIn(last, t, m).predicted
         /\ StandIn(last, t, m).predicted <= StandIn(last, t, m).upper
         /\ StandIn(last, t, m).predicted = 0 <=> last = 0 \/ m <= -2
         /\ StandIn(last, t, m).predicted <= StandIn(last, t, m + 1).predicted
         /\ \A u \in Int : t <= u => StandIn(last, t, m).predicted <= StandIn(last, u, m).predicted
<1> DEFINE Factor(x) == IF x < 15 THEN 15 ELSE IF x > 60 THEN 60 ELSE x
           Sixtieths(x, y) == last * Factor(x) * (2 + y)
           Demand(x, y) == IF Sixtieths(x, y) > 0 THEN Sixtieths(x, y) ELSE 0
<1>1. \A x \in Int : Factor(x) \in 15..60
  OBVIOUS
<1>2. \A x \in Int : last * Factor(x) \in Nat
  BY <1>1
<1>3. \A x, y \in Int : Sixtieths(x, y) \in Int
  <2> SUFFICES ASSUME NEW x \in Int, NEW y \in Int PROVE Sixtieths(x, y) \in Int
    OBVIOUS
  <2> DEFINE k == last * Factor(x)
  <2>1. k \in Int /\ 2 + y \in Int
    BY <1>2
  <2> HIDE DEF k
  <2>2. k * (2 + y) \in Int
    BY <2>1
  <2> QED
    BY <2>2 DEF k
<1>4. \A x, y \in Int : StandIn(last, x, y)
         = [predicted |-> 10 * Demand(x, y),
            lower |-> 7 * Demand(x, y),
            upper |-> 13 * Demand(x, y)]
  BY DEF StandIn
<1>5. Sixtieths(t, m) > 0 <=> last # 0 /\ m > -2
  <2> DEFINE k == last * Factor(t)
  <2>1. k \in Nat /\ (k = 0 <=> last = 0)
    BY <1>1
  <2> HIDE DEF k
  <2>2. k * (2 + m) > 0 <=> k # 0 /\ 2 + m > 0
    <3>1. CASE 2 + m > 0 /\ k # 0
      <4>1. 1 * k <= (2 + m) * k
        BY <2>1, <3>1, TimesGrows
      <4> QED
        BY <2>1, <3>1, <4>1
    <3>2. CASE 2 + m <= 0
      <4>1. k * (2 + m) <= k * 0
        BY <2>1, <3>2, TimesGrows
      <4> QED
        BY <2>1, <3>2, <4>1
    <3> QED
      BY <2>1, <3>1, <3>2
  <2> QED
    BY <2>1, <2>2 DEF k
<1>6. Sixtieths(t, m) <= Sixtieths(t, m + 1)
  <2> DEFINE k == last * Factor(t)
  <2>1. k \in Nat /\ 2 + m \in Int /\ 2 + (m + 1) \in Int /\ 2 + m <= 2 + (m + 1)
    BY <1>2
  <2> HIDE DEF k
  <2>2. k * (2 + m) <= k * (2 + (m + 1))
    BY <2>1, TimesGrows
  <2> QED
    BY <2>2 DEF k
<1>7. ASSUME NEW u \in Int, t <= u, m > -2 PROVE Sixtieths(t, m) <= Sixtieths(u, m)
  <2> DEFINE j == last * Factor(t)
             k == last * Factor(u)
  <2>1. j \in Nat /\ k \in Nat /\ j <= k
    <3>1. Factor(t) <= Factor(u) /\ Factor(t) \in Int /\ Factor(u) \in Int /\ last \in Nat
      BY <1>7
    <3> HIDE DEF Factor
    <3> QED
      BY <1>2, <3>1, TimesGrows
  <2> HIDE DEF j, k
  <2>2. j * (2 + m) <= k * (2 + m)
    <3>1. 2 + m \in Nat
      BY <1>7
    <3> QED
      BY <2>1, <3>1, TimesGrows
  <2> QED
    BY <2>2 DEF j, k
<1> HIDE DEF Sixtieths
<1>8. \A u \in Int : t <= u => Demand(t, m) <= Demand(u, m)
  <2> SUFFICES ASSUME NEW u \in Int, t <= u
               PROVE  Demand(t, m) <= Demand(u, m)
    OBVIOUS
  <2>1. Sixtieths(t, m) \in Int /\ Sixtieths(u, m) \in Int
    BY <1>3
  <2>2. m > -2 => Sixtieths(t, m) <= Sixtieths(u, m)
    BY <1>7
  <2> QED
    BY <1>5, <2>1, <2>2
<1>9. Demand(t, m) <= Demand(t, m + 1)
  <2>1. Sixtieths(t, m) \in Int /\ Sixtieths(t, m + 1) \in Int
    BY <1>3
  <2> QED
    BY <1>6, <2>1
<1>10. \A x, y \in Int : Demand(x, y) \in Nat
  BY <1>3
<1>11. Demand(t, m) = 0 <=> last = 0 \/ m <= -2
  <2>1. Sixtieths(t, m) \in Int
    BY <1>3
  <2> QED
    BY <1>5, <2>1
<1> HIDE DEF Demand
<1>12. \A x, y \in Int : /\ StandIn(last, x, y).predicted = 10 * Demand(x, y)
                         /\ StandIn(last, x, y).lower = 7 * Demand(x, y)
                         /\ StandIn(last, x, y).upper = 13 * Demand(x, y)
  BY <1>4
<1>13. ASSUME NEW u \in Int, NEW y \in Int, Demand(t, m) <= Demand(u, y)
       PROVE  StandIn(last, t, m).predicted <= StandIn(last, u, y).predicted
  <2>1. PICK a \in Nat : a = Demand(t, m)
    BY <1>10
  <2>2. PICK b \in Nat : b = Demand(u, y)
    BY <1>10
  <2>3. StandIn(last, t, m).predicted = 10 * a /\ StandIn(last, u, y).predicted = 10 * b
    BY <1>12, <2>1, <2>2
  <2> QED
    BY <1>13, <2>1, <2>2, <2>3
<1>14. PICK a \in Nat : a = Demand(t, m)
  BY <1>10
<1>15. /\ StandIn(last, t, m).predicted = 10 * a
       /\ StandIn(last, t, m).lower = 7 * a
       /\ StandIn(last, t, m).upper = 13 * a
       /\ a = 0 <=> last = 0 \/ m <= -2
  BY <1>11, <1>12, <1>14
<1>16. m + 1 \in Int
  OBVIOUS
<1> QED
  BY <1>8, <1>9, <1>13, <1>15, <1>16

\* A forecast without a model keeps its promises.
LEMMA Forecasts == QuestionInv => StandInExplained
<1> SUFFICES ASSUME QuestionInv, asked.about = "forecast" PROVE StandInExplained
  BY DEF StandInExplained
<1>1. PICK hours \in 0..1, rate \in 0..2, r \in Int, mood \in Int :
        asked.hours = hours /\ asked.rate = rate /\ asked.reading = r /\ asked.mood = mood
  BY KindsAsked, ReadingsAssumption DEF ForecastAsked, ReadingsAssumption
<1> DEFINE last == IF LastHour(hours) = 0 THEN 0 ELSE rate
           Forecast(reading, m) ==
             StandIn(last, WeatherFeatures(reading, Missing, Missing).temperature, m)
           reading == Or(r, 30)
<1>2. /\ last \in 0..2
      /\ last = 0 <=> hours = 0 \/ rate = 0
  BY DEF LastHour
<1>3. \A x \in Int : Or(x, 30) \in Int
  BY DEF Or
<1>4. \A x, m \in Int : Forecast(x, m) = StandIn(last, Or(x, 30), m)
  BY DEF WeatherFeatures
<1>5. Or(reading, 30) = reading /\ reading \in Int
  BY DEF Or, Missing
<1>6. reading <= Or(reading + 1, 30)
  BY <1>5 DEF Or, Missing
<1> HIDE DEF last, Forecast, reading
<1>7. /\ Forecast(r, mood) = StandIn(last, reading, mood)
      /\ Forecast(reading, mood) = Forecast(r, mood)
  BY <1>4, <1>5 DEF reading
<1>8. /\ Forecast(reading + 1, mood) = StandIn(last, Or(reading + 1, 30), mood)
      /\ Forecast(reading, mood + 1) = StandIn(last, reading, mood + 1)
      /\ Or(reading + 1, 30) \in Int
  BY <1>3, <1>4, <1>5
<1>9. /\ 0 <= Forecast(r, mood).lower
      /\ Forecast(r, mood).lower <= Forecast(r, mood).predicted
      /\ Forecast(r, mood).predicted <= Forecast(r, mood).upper
      /\ Forecast(r, mood).predicted = 0 <=> hours = 0 \/ rate = 0 \/ mood <= -2
      /\ Forecast(r, mood).predicted <= Forecast(reading, mood + 1).predicted
      /\ Forecast(r, mood).predicted <= Forecast(reading + 1, mood).predicted
  <2> DEFINE f == StandIn(last, reading, mood)
  <2>1. /\ f.predicted \in Nat /\ 0 <= f.lower /\ f.lower <= f.predicted /\ f.predicted <= f.upper
        /\ f.predicted = 0 <=> last = 0 \/ mood <= -2
        /\ f.predicted <= StandIn(last, reading, mood + 1).predicted
        /\ \A u \in Int : reading <= u => f.predicted <= StandIn(last, u, mood).predicted
    BY <1>2, <1>5, Predicted
  <2>2. f.predicted <= StandIn(last, Or(reading + 1, 30), mood).predicted
    BY <1>6, <1>8, <2>1
  <2> HIDE DEF f
  <2> QED
    BY <1>2, <1>7, <1>8, <2>1, <2>2 DEF f
<1> QED
  BY <1>1, <1>7, <1>9 DEF StandInExplained, Forecast, reading, last

-----------------------------------------------------------------------------
(* The Melt-Risk page.                                                     *)

\* An hour costs one of five amounts, more in the warmth; a degree more, and a
\* freezer that is worse, is warmer.
LEMMA Costs ==
  /\ \A t \in Int : DecayRate(t) \in {350, 180, 80, 30, 5}
  /\ \A t, u \in Int : t <= u => DecayRate(t) <= DecayRate(u)
  /\ \A temp \in 20..47, tel \in Telemetries, h \in 1..12 :
       /\ FreezerTemp(temp, tel, h) \in Int
       /\ temp \in Temps => /\ FreezerTemp(temp, tel, h) <= FreezerTemp(temp + 1, tel, h)
                            /\ FreezerTemp(temp, tel, h) <= FreezerTemp(temp, Worse(tel), h)
<1>1. \A t \in Int : DecayRate(t) \in {350, 180, 80, 30, 5}
  BY DEF DecayRate
<1>2. \A t, u \in Int : t <= u => DecayRate(t) <= DecayRate(u)
  BY DEF DecayRate
<1>3. ASSUME NEW temp \in 20..47, NEW h \in 1..12
      PROVE  /\ FreezerTemp(temp, "normal", h) = -2150
             /\ FreezerTemp(temp, "strain", h) = -1200 + h * (80 + (temp - 30) * 5)
             /\ FreezerTemp(temp, "outage", h) = h * (160 + (temp - 30) * 12)
  BY DEF FreezerTemp
<1>4. \A a \in Int, b \in Int, h \in 1..12 : h * a \in Int /\ (a <= b => h * a <= h * b)
  BY TimesGrows
<1>5. ASSUME NEW temp \in 20..47, NEW h \in 1..12
      PROVE  /\ h * (80 + (temp - 30) * 5) \in Int /\ h * (160 + (temp - 30) * 12) \in Int
             /\ h * (80 + (temp - 30) * 5) >= 0
             /\ h * (80 + (temp - 30) * 5) <= h * (80 + (temp + 1 - 30) * 5)
             /\ h * (160 + (temp - 30) * 12) <= h * (160 + (temp + 1 - 30) * 12)
             /\ h * (80 + (temp - 30) * 5) - 1200 <= h * (160 + (temp - 30) * 12)
  <2> DEFINE a == 80 + (temp - 30) * 5
             b == 160 + (temp - 30) * 12
             a1 == 80 + (temp + 1 - 30) * 5
             b1 == 160 + (temp + 1 - 30) * 12
  <2>1. a \in Int /\ b \in Int /\ a1 \in Int /\ b1 \in Int /\ 0 <= a /\ a <= a1 /\ b <= b1 /\ a <= b
    OBVIOUS
  <2> HIDE DEF a, b, a1, b1
  <2>2. h * a \in Int /\ h * b \in Int /\ h * 0 <= h * a /\ h * a <= h * a1 /\ h * b <= h * b1
        /\ h * a <= h * b /\ h * 0 = 0
    BY <1>4, <2>1
  <2>3. h * a >= 0 /\ h * a - 1200 <= h * b
    BY <2>2
  <2> QED
    BY <2>2, <2>3 DEF a, b, a1, b1
<1>6. ASSUME NEW temp \in 20..47, NEW tel \in Telemetries, NEW h \in 1..12
      PROVE  /\ FreezerTemp(temp, tel, h) \in Int
             /\ temp \in Temps => /\ FreezerTemp(temp, tel, h) <= FreezerTemp(temp + 1, tel, h)
                                  /\ FreezerTemp(temp, tel, h) <= FreezerTemp(temp, Worse(tel), h)
  <2>1. temp \in Temps => temp + 1 \in 20..47
    BY DEF Temps
  <2>2. CASE tel = "normal"
    BY <1>3, <1>5, <2>1, <2>2 DEF Worse
  <2>3. CASE tel = "strain"
    BY <1>3, <1>5, <2>1, <2>3 DEF Worse
  <2>4. CASE tel = "outage"
    BY <1>3, <1>5, <2>1, <2>4 DEF Worse
  <2> QED
    BY <2>2, <2>3, <2>4 DEF Telemetries
<1> QED
  BY <1>1, <1>2, <1>6

\* What an hour of the forecast costs.
LEMMA Cost ==
  ASSUME NEW temp \in 20..47, NEW tel \in Telemetries, NEW h \in 1..12
  PROVE  /\ FreezerTemp(temp, tel, h) \in Int
         /\ DecayRate(FreezerTemp(temp, tel, h)) \in 0..350
<1>1. FreezerTemp(temp, tel, h) \in Int
  BY Costs
<1>2. DecayRate(FreezerTemp(temp, tel, h)) \in {350, 180, 80, 30, 5}
  BY <1>1, Costs
<1> QED
  BY <1>1, <1>2

\* The forecast of the stock's score, hour by hour.
LEMMA HourlyScore ==
  ASSUME NEW temp \in 20..47, NEW tel \in Telemetries
  PROVE  /\ Sellability(temp, tel)[0] = 1000
         /\ \A h \in 1..12 : Sellability(temp, tel)[h]
              = Positive(Sellability(temp, tel)[h - 1] - DecayRate(FreezerTemp(temp, tel, h)))
         /\ \A h \in 0..12 : Sellability(temp, tel)[h] \in Nat
<1> DEFINE Fix(g) == g = [h \in 0..12 |-> IF h = 0 THEN 1000
                 ELSE Positive(g[h - 1] - DecayRate(FreezerTemp(temp, tel, h)))]
           F == [p \in (1..12) \X Int |->
                   Positive(p[2] - DecayRate(FreezerTemp(temp, tel, p[1])))]
<1>0. ASSUME NEW h \in 1..12 PROVE DecayRate(FreezerTemp(temp, tel, h)) \in 0..350
  BY Cost
<1>1. \A h \in 1..12 : DecayRate(FreezerTemp(temp, tel, h)) \in Int
  BY <1>0
<1>2. F \in [(1..12) \X Int -> Int]
  BY <1>1 DEF Positive
<1>3. PICK g \in [0..12 -> Int] : IsStepped(g, 12, 1000, F)
  <2> DEFINE n == 12
             V == Int
             base == 1000
  <2>1. n \in Nat /\ base \in V /\ F \in [(1..n) \X V -> V]
    BY <1>2
  <2> HIDE DEF F, n, V, base
  <2>2. \E g \in [0..n -> V] : IsStepped(g, n, base, F)
    BY <2>1, Recursion
  <2> QED
    BY <2>2 DEF n, V, base
<1>4. Fix(g)
  <2>1. \A h \in 1..12 : h - 1 \in 0..12 /\ g[h - 1] \in Int
    OBVIOUS
  <2>2. \A h \in 1..12 :
          F[<<h, g[h - 1]>>] = Positive(g[h - 1] - DecayRate(FreezerTemp(temp, tel, h)))
    BY <2>1
  <2>3. \A h \in 0..12 : h # 0 => h \in 1..12
    OBVIOUS
  <2> HIDE DEF F
  <2> QED
    BY <1>3, <2>2, <2>3 DEF IsStepped
<1>5. Sellability(temp, tel) = CHOOSE f : Fix(f)
  BY DEF Sellability
<1>6. PICK f : f = CHOOSE e : Fix(e)
  OBVIOUS
<1>7. Fix(f)
  <2> HIDE DEF Fix
  <2> QED
    BY <1>4, <1>6, Zenon
<1>8. /\ f[0] = 1000
      /\ \A h \in 1..12 : f[h] = Positive(f[h - 1] - DecayRate(FreezerTemp(temp, tel, h)))
  BY <1>7
<1>9. \A h \in 0..12 : f[h] \in Nat
  <2> DEFINE P == {h \in Nat : h <= 12 => f[h] \in Nat}
  <2>1. 0 \in P
    BY <1>8
  <2>2. ASSUME NEW h \in Nat, h \in P PROVE h + 1 \in P
    <3>1. ASSUME h + 1 <= 12 PROVE f[h + 1] \in Nat
      <4>1. h + 1 \in 1..12 /\ (h + 1) - 1 = h /\ f[h] \in Nat
        BY <2>2, <3>1
      <4>2. f[h + 1] = Positive(f[h] - DecayRate(FreezerTemp(temp, tel, h + 1)))
        BY <1>8, <4>1
      <4> QED
        BY <1>1, <4>1, <4>2 DEF Positive
    <3> QED
      BY <3>1
  <2> HIDE DEF P
  <2>3. Nat \subseteq P
    BY <2>1, <2>2, NatSteps
  <2> QED
    BY <2>3 DEF P
<1> HIDE DEF Fix
<1>10. Sellability(temp, tel) = f
  BY <1>5, <1>6
<1> QED
  BY <1>8, <1>9, <1>10 DEF Positive

\* The freezer is never colder with the second than with the first inputs.
Warmer(t, tel, u, worse) ==
    \A h \in 1..12 : FreezerTemp(t, tel, h) <= FreezerTemp(u, worse, h)

Falls(lower, score) == \A h \in 0..12 : lower[h] <= score[h]

\* Where it is never colder the score is never higher.
LEMMA ScoreFalls ==
  ASSUME NEW t \in 20..47, NEW tel \in Telemetries, NEW u \in 20..47, NEW worse \in Telemetries,
         Warmer(t, tel, u, worse)
  PROVE  Falls(Sellability(u, worse), Sellability(t, tel))
<1> DEFINE a == Sellability(t, tel)
           b == Sellability(u, worse)
           P == {h \in Nat : h <= 12 => b[h] <= a[h]}
<1>1. /\ a[0] = 1000 /\ b[0] = 1000
      /\ \A h \in 1..12 : a[h] = Positive(a[h - 1] - DecayRate(FreezerTemp(t, tel, h)))
      /\ \A h \in 1..12 : b[h] = Positive(b[h - 1] - DecayRate(FreezerTemp(u, worse, h)))
      /\ \A h \in 0..12 : a[h] \in Nat /\ b[h] \in Nat
  <2>1. /\ a[0] = 1000
        /\ \A h \in 1..12 : a[h] = Positive(a[h - 1] - DecayRate(FreezerTemp(t, tel, h)))
        /\ \A h \in 0..12 : a[h] \in Nat
    BY HourlyScore
  <2>2. /\ b[0] = 1000
        /\ \A h \in 1..12 : b[h] = Positive(b[h - 1] - DecayRate(FreezerTemp(u, worse, h)))
        /\ \A h \in 0..12 : b[h] \in Nat
    BY HourlyScore
  <2> QED
    BY <2>1, <2>2
<1>2. \A h \in 1..12 : /\ DecayRate(FreezerTemp(t, tel, h)) <= DecayRate(FreezerTemp(u, worse, h))
                       /\ DecayRate(FreezerTemp(t, tel, h)) \in Int
                       /\ DecayRate(FreezerTemp(u, worse, h)) \in Int
  <2> SUFFICES ASSUME NEW h \in 1..12
               PROVE  /\ DecayRate(FreezerTemp(t, tel, h)) <= DecayRate(FreezerTemp(u, worse, h))
                      /\ DecayRate(FreezerTemp(t, tel, h)) \in Int
                      /\ DecayRate(FreezerTemp(u, worse, h)) \in Int
    OBVIOUS
  <2>0. /\ FreezerTemp(t, tel, h) \in Int /\ DecayRate(FreezerTemp(t, tel, h)) \in 0..350
        /\ FreezerTemp(u, worse, h) \in Int /\ DecayRate(FreezerTemp(u, worse, h)) \in 0..350
    <3>1. FreezerTemp(t, tel, h) \in Int /\ DecayRate(FreezerTemp(t, tel, h)) \in 0..350
      BY Cost
    <3>2. FreezerTemp(u, worse, h) \in Int /\ DecayRate(FreezerTemp(u, worse, h)) \in 0..350
      BY Cost
    <3> QED
      BY <3>1, <3>2
  <2>1. /\ FreezerTemp(t, tel, h) \in Int /\ DecayRate(FreezerTemp(t, tel, h)) \in Int
        /\ FreezerTemp(u, worse, h) \in Int /\ DecayRate(FreezerTemp(u, worse, h)) \in Int
    BY <2>0
  <2>2. FreezerTemp(t, tel, h) <= FreezerTemp(u, worse, h)
    BY DEF Warmer
  <2>3. DecayRate(FreezerTemp(t, tel, h)) <= DecayRate(FreezerTemp(u, worse, h))
    BY <2>1, <2>2, Costs
  <2> QED
    BY <2>1, <2>3
<1> HIDE DEF a, b
<1>3. 0 \in P
  BY <1>1
<1>4. ASSUME NEW h \in Nat, h \in P PROVE h + 1 \in P
  <2>1. ASSUME h + 1 <= 12 PROVE b[h + 1] <= a[h + 1]
    <3>1. h + 1 \in 1..12 /\ (h + 1) - 1 = h /\ h \in 0..12 /\ b[h] <= a[h]
      BY <1>4, <2>1
    <3>2. /\ a[h + 1] = Positive(a[h] - DecayRate(FreezerTemp(t, tel, h + 1)))
          /\ b[h + 1] = Positive(b[h] - DecayRate(FreezerTemp(u, worse, h + 1)))
      BY <1>1, <3>1
    <3> QED
      BY <1>1, <1>2, <3>1, <3>2 DEF Positive
  <2> QED
    BY <2>1
<1>5. Nat \subseteq P
  <2> HIDE DEF P
  <2> QED
    BY <1>3, <1>4, NatSteps
<1> QED
  BY <1>5 DEF a, b, Falls

\* From one hour to the next a score does not rise, and loses at most some cost.
Sinks(score, h, cost) ==
    /\ score[h] <= score[h - 1]
    /\ \A c \in Nat : cost <= c => score[h] >= score[h - 1] - c

\* The score never rises, and loses at most what an hour can cost.
LEMMA ScoreNeverRises ==
  ASSUME NEW t \in 20..47, NEW tel \in Telemetries, NEW h \in 1..12
  PROVE  Sinks(Sellability(t, tel), h, DecayRate(FreezerTemp(t, tel, h)))
<1>1. h - 1 \in 0..12 /\ h \in 0..12
  OBVIOUS
<1>2. /\ Sellability(t, tel)[h]
           = Positive(Sellability(t, tel)[h - 1] - DecayRate(FreezerTemp(t, tel, h)))
      /\ Sellability(t, tel)[h] \in Nat /\ Sellability(t, tel)[h - 1] \in Nat
  BY <1>1, HourlyScore
<1>3. DecayRate(FreezerTemp(t, tel, h)) \in Nat
  <2>1. DecayRate(FreezerTemp(t, tel, h)) \in 0..350
    BY Cost
  <2> QED
    BY <2>1
<1> QED
  BY <1>2, <1>3 DEF Positive, Sinks

\* As long as the stock is called sellable, the score keeps 65 percent.
LEMMA SellableKeeps ==
  ASSUME NEW t \in Temps, NEW humidity \in {20, 50, 51, 100}, NEW tel \in Telemetries,
         NEW h \in 1..12, 60 * (h - 1) < SellableMinutes(t, humidity, tel)
  PROVE  Sellability(t, tel)[h] >= 650
<1>0. t \in 20..47
  BY DEF Temps
<1> DEFINE s == Sellability(t, tel)
<1>1. /\ s[0] = 1000 /\ \A k \in 0..12 : s[k] \in Nat
      /\ \A k \in 1..12 : \A c \in Nat :
           DecayRate(FreezerTemp(t, tel, k)) <= c => s[k] >= s[k - 1] - c
  <2>1. s[0] = 1000 /\ \A k \in 0..12 : s[k] \in Nat
    BY <1>0, HourlyScore
  <2>2. ASSUME NEW k \in 1..12, NEW c \in Nat, DecayRate(FreezerTemp(t, tel, k)) <= c
        PROVE  s[k] >= s[k - 1] - c
    <3>1. Sinks(Sellability(t, tel), k, DecayRate(FreezerTemp(t, tel, k)))
      BY <1>0, ScoreNeverRises
    <3> QED
      BY <2>2, <3>1 DEF Sinks
  <2> QED
    BY <2>1, <2>2
<1> HIDE DEF s
<1>2. CASE tel = "normal"
  <2>1. \A k \in 1..12 : DecayRate(FreezerTemp(t, tel, k)) <= 5
    BY <1>2 DEF FreezerTemp, DecayRate
  <2>2. \A k \in 1..12 : s[k] >= s[k - 1] - 5
    BY <1>1, <2>1
  <2> DEFINE P == {k \in Nat : k <= 12 => s[k] >= 1000 - 5 * k}
  <2>3. 0 \in P
    BY <1>1
  <2>4. ASSUME NEW k \in Nat, k \in P PROVE k + 1 \in P
    <3>1. ASSUME k + 1 <= 12 PROVE s[k + 1] >= 1000 - 5 * (k + 1)
      <4>1. k + 1 \in 1..12 /\ (k + 1) - 1 = k /\ k \in 0..12 /\ k + 1 \in 0..12
            /\ s[k] >= 1000 - 5 * k
        BY <2>4, <3>1
      <4>2. s[k + 1] >= s[k] - 5
        BY <2>2, <4>1
      <4> QED
        BY <1>1, <4>1, <4>2
    <3> QED
      BY <3>1
  <2>5. Nat \subseteq P
    <3> HIDE DEF P
    <3> QED
      BY <2>3, <2>4, NatSteps
  <2>6. s[h] >= 1000 - 5 * h /\ s[h] \in Nat
    BY <1>1, <2>5
  <2> QED
    BY <2>6 DEF s
<1>3. CASE tel = "strain"
  <2>1. SellableMinutes(t, humidity, tel) <= 144
    BY <1>3 DEF SellableMinutes, Remaining, Positive, AtLeast, Temps
  <2>2. SellableMinutes(t, humidity, tel) \in Int
    BY <1>3 DEF SellableMinutes, Remaining, Positive, AtLeast, Temps
  <2>3. h \in 1..3
    BY <2>1, <2>2
  <2>4. \A k \in 1..3 : DecayRate(FreezerTemp(t, tel, k)) <= 80
    BY <1>3 DEF FreezerTemp, DecayRate, Temps
  <2>5. s[1] >= s[0] - 80 /\ s[2] >= s[1] - 80 /\ s[3] >= s[2] - 80
    BY <1>1, <2>4
  <2>6. s[1] \in Nat /\ s[2] \in Nat /\ s[3] \in Nat
    BY <1>1
  <2> QED
    BY <1>1, <2>3, <2>5, <2>6 DEF s
<1>4. CASE tel = "outage"
  <2>1. SellableMinutes(t, humidity, tel) <= 38 /\ SellableMinutes(t, humidity, tel) \in Int
    BY <1>4 DEF SellableMinutes, Remaining, Positive, AtLeast, Temps
  <2>2. h = 1
    BY <2>1
  <2>3. DecayRate(FreezerTemp(t, tel, 1)) <= 350
    <3>1. ASSUME NEW k \in 1..12 PROVE DecayRate(FreezerTemp(t, tel, k)) \in 0..350
      BY <1>0, Cost
    <3> QED
      BY <3>1
  <2>4. s[1] >= s[0] - 350 /\ s[1] \in Nat
    BY <1>1, <2>3
  <2> QED
    BY <1>1, <2>2, <2>4 DEF s
<1> QED
  BY <1>2, <1>3, <1>4 DEF Telemetries

\* A degree more, or a worse freezer, makes neither more minutes nor more yield.
LEMMA FormulasFall ==
  ASSUME NEW t \in Temps, NEW humidity \in {20, 50, 51, 100}, NEW tel \in Telemetries,
         NEW where \in Neighborhoods
  PROVE  /\ SellableMinutes(t + 1, humidity, tel) <= SellableMinutes(t, humidity, tel)
         /\ SellableMinutes(t, humidity, Worse(tel)) <= SellableMinutes(t, humidity, tel)
         /\ YieldEfficiency(t, where, Worse(tel)) <= YieldEfficiency(t, where, tel)
<1> USE DEF SellableMinutes, YieldEfficiency, Remaining, Positive, AtLeast, Temps, Worse
<1>1. CASE tel = "normal"
  BY <1>1
<1>2. CASE tel = "strain"
  BY <1>2
<1>3. CASE tel = "outage"
  BY <1>3
<1> QED
  BY <1>1, <1>2, <1>3 DEF Telemetries

Actions == {"act-default-align", "act-outage-reroute", "act-strain-markdown",
            "act-stadium-refill", "act-heat-alert"}

\* A sequence of actions with these members.
Lists(s, ids) == s \in Seq(Actions) /\ Range(s) = ids

\* A list of one action, and of none.
LEMMA OneOrNone ==
  /\ \A id \in Actions : Lists(<<id>>, {id})
  /\ Lists(<<>>, {})
<1>1. ASSUME NEW id \in Actions PROVE Lists(<<id>>, {id})
  <2>1. <<id>> \in Seq(Actions)
    OBVIOUS
  <2>2. DOMAIN <<id>> = {1} /\ <<id>>[1] = id
    OBVIOUS
  <2>3. Range(<<id>>) = {<<id>>[x] : x \in DOMAIN <<id>>}
    BY DEF Range
  <2> QED
    BY <2>1, <2>2, <2>3 DEF Lists
<1>2. Lists(<<>>, {})
  <2>1. <<>> \in Seq(Actions)
    BY EmptySeq
  <2>2. DOMAIN <<>> = {}
    OBVIOUS
  <2> QED
    BY <2>1, <2>2 DEF Lists, Range
<1> QED
  BY <1>1, <1>2

\* One list after another has the members of both.
LEMMA BothLists ==
  ASSUME NEW s, NEW t, NEW ids, NEW more, Lists(s, ids), Lists(t, more)
  PROVE  Lists(s \o t, ids \cup more)
BY ConcatProperties, RangeConcatenation DEF Lists

\* The actions on offer.
LEMMA OfferedAre ==
  ASSUME NEW t \in Int, NEW where, NEW tel
  PROVE  Range(Offered(t, where, tel)) =
           {"act-default-align"}
             \cup (IF tel = "outage" THEN {"act-outage-reroute"} ELSE {})
             \cup (IF tel \in {"strain", "outage"} THEN {"act-strain-markdown"} ELSE {})
             \cup (IF where = "stadium-ipl" THEN {"act-stadium-refill"} ELSE {})
             \cup (IF t >= 40 /\ tel = "normal" THEN {"act-heat-alert"} ELSE {})
<1> DEFINE s1 == IF tel = "outage" THEN <<"act-outage-reroute">> ELSE <<>>
           s2 == IF tel \in {"strain", "outage"} THEN <<"act-strain-markdown">> ELSE <<>>
           s3 == IF where = "stadium-ipl" THEN <<"act-stadium-refill">> ELSE <<>>
           s4 == IF t >= 40 /\ tel = "normal" THEN <<"act-heat-alert">> ELSE <<>>
           s5 == <<"act-default-align">>
           i1 == IF tel = "outage" THEN {"act-outage-reroute"} ELSE {}
           i2 == IF tel \in {"strain", "outage"} THEN {"act-strain-markdown"} ELSE {}
           i3 == IF where = "stadium-ipl" THEN {"act-stadium-refill"} ELSE {}
           i4 == IF t >= 40 /\ tel = "normal" THEN {"act-heat-alert"} ELSE {}
           i5 == {"act-default-align"}
<1>1. /\ Lists(<<"act-outage-reroute">>, {"act-outage-reroute"})
      /\ Lists(<<"act-strain-markdown">>, {"act-strain-markdown"})
      /\ Lists(<<"act-stadium-refill">>, {"act-stadium-refill"})
      /\ Lists(<<"act-heat-alert">>, {"act-heat-alert"})
      /\ Lists(<<"act-default-align">>, {"act-default-align"})
  BY OneOrNone DEF Actions
<1>2. Lists(s1, i1)
  BY <1>1, OneOrNone
<1>3. Lists(s2, i2)
  BY <1>1, OneOrNone
<1>4. Lists(s3, i3)
  BY <1>1, OneOrNone
<1>5. Lists(s4, i4)
  BY <1>1, OneOrNone
<1>6. Lists(s5, i5)
  BY <1>1
<1>7. Offered(t, where, tel) = (((s1 \o s2) \o s3) \o s4) \o s5
  BY DEF Offered
<1> HIDE DEF s1, s2, s3, s4, s5, i1, i2, i3, i4, i5
<1>8. Lists(s1 \o s2, i1 \cup i2)
  BY <1>2, <1>3, BothLists
<1>9. Lists((s1 \o s2) \o s3, (i1 \cup i2) \cup i3)
  BY <1>8, <1>4, BothLists
<1>10. Lists(((s1 \o s2) \o s3) \o s4, ((i1 \cup i2) \cup i3) \cup i4)
  BY <1>9, <1>5, BothLists
<1>11. Lists((((s1 \o s2) \o s3) \o s4) \o s5, (((i1 \cup i2) \cup i3) \cup i4) \cup i5)
  BY <1>10, <1>6, BothLists
<1>12. Range(Offered(t, where, tel)) = (((i1 \cup i2) \cup i3) \cup i4) \cup i5
  BY <1>7, <1>11 DEF Lists
<1> QED
  BY <1>12 DEF i1, i2, i3, i4, i5

\* The formulas of the page agree.
LEMMA PageAgrees == QuestionInv => PageConsistent
<1> SUFFICES ASSUME QuestionInv, asked.about = "page" PROVE PageConsistent
  BY DEF PageConsistent
<1>1. PICK temp \in Temps, humidity \in {20, 50, 51, 100}, where \in Neighborhoods,
        telemetry \in Telemetries :
        asked = [about |-> "page", temp |-> temp, humidity |-> humidity, where |-> where,
                 telemetry |-> telemetry]
  BY KindsAsked DEF PageAsked
<1>2. /\ asked.temp = temp /\ asked.humidity = humidity /\ asked.where = where
      /\ asked.telemetry = telemetry
  BY <1>1
<1> DEFINE minutes == SellableMinutes(temp, humidity, telemetry)
           score == Sellability(temp, telemetry)
           answers == Range(Offered(temp, where, telemetry))
                         \ {"act-default-align", "act-stadium-refill"}
<1>3. Worse(telemetry) \in Telemetries /\ temp \in 20..47 /\ temp + 1 \in 20..47
  BY DEF Worse, Telemetries, Temps
<1>4. \A h \in 1..12 : 60 * (h - 1) < minutes => score[h] >= 650
  BY SellableKeeps
<1>5. \A h \in 1..12 : /\ score[h] <= score[h - 1]
                       /\ Sellability(temp + 1, telemetry)[h] <= score[h]
                       /\ Sellability(temp, Worse(telemetry))[h] <= score[h]
  <2>1. ASSUME NEW h \in 1..12 PROVE score[h] <= score[h - 1]
    <3>1. Sinks(Sellability(temp, telemetry), h, DecayRate(FreezerTemp(temp, telemetry, h)))
      BY <1>3, ScoreNeverRises
    <3> QED
      BY <3>1 DEF Sinks
  <2>2. /\ Warmer(temp, telemetry, temp + 1, telemetry)
        /\ Warmer(temp, telemetry, temp, Worse(telemetry))
    BY <1>3, Costs DEF Warmer
  <2>3. Falls(Sellability(temp + 1, telemetry), Sellability(temp, telemetry))
    BY <1>3, <2>2, ScoreFalls
  <2>4. Falls(Sellability(temp, Worse(telemetry)), Sellability(temp, telemetry))
    BY <1>3, <2>2, ScoreFalls
  <2> QED
    BY <2>1, <2>3, <2>4 DEF Falls
<1>6. /\ SellableMinutes(temp + 1, humidity, telemetry) <= minutes
      /\ SellableMinutes(temp, humidity, Worse(telemetry)) <= minutes
      /\ YieldEfficiency(temp, where, Worse(telemetry)) <= YieldEfficiency(temp, where, telemetry)
  BY FormulasFall
<1>7. answers = {} <=> \/ MeltRisk(temp, telemetry) = "STABLE"
                       \/ MeltRisk(temp, telemetry) = "ELEVATED" /\ temp < 40
  <2>1. answers = (IF telemetry = "outage" THEN {"act-outage-reroute"} ELSE {})
             \cup (IF telemetry \in {"strain", "outage"} THEN {"act-strain-markdown"} ELSE {})
             \cup (IF temp >= 40 /\ telemetry = "normal" THEN {"act-heat-alert"} ELSE {})
    <3>1. temp \in Int
      BY <1>3
    <3> QED
      BY <3>1, OfferedAre
  <2> HIDE DEF answers
  <2>2. CASE telemetry = "normal"
    BY <2>1, <2>2 DEF MeltRisk, Temps
  <2>3. CASE telemetry \in {"strain", "outage"}
    BY <2>1, <2>3 DEF MeltRisk
  <2> QED
    BY <2>2, <2>3 DEF Telemetries
<1> HIDE DEF minutes, score, answers
<1> QED
  BY <1>2, <1>4, <1>5, <1>6, <1>7 DEF PageConsistent, minutes, score, answers

-----------------------------------------------------------------------------
(* The photos of a cart.                                                   *)

\* What a photo can be compared with, and answered.
Shown == {photo.shows : photo \in Photos} \cup {NoProducts}
PhotoAnswers == {AnalyzePhoto(photo, previous) : photo \in Photos, previous \in SUBSET Shown}

\* The counts that the photo before photo i leaves to compare with.
Compared(photos, i) ==
    {photos[j].shows : j \in {k \in DOMAIN photos :
                                k + 1 = i /\ photos[k].readable /\ photos[k].shows # NoProducts}}

\* The counts of an answer.
LEMMA AnswerCounts ==
  ASSUME NEW photo \in Photos, NEW previous
  PROVE  AnalyzePhoto(photo, previous).counts
           = IF photo.readable THEN photo.shows ELSE NoProducts
BY DEF AnalyzePhoto, EmptyResult

\* Each photo is answered after the one before.
Answered(r, photos, n) ==
    /\ r \in Seq(PhotoAnswers) /\ Len(r) = n
    /\ \A i \in 1..n : r[i] = AnalyzePhoto(photos[i], Compared(photos, i))

\* The results for the photos of a cart.
LEMMA ResultsAre ==
  ASSUME NEW photos \in Seq(Photos)
  PROVE  Answered(Results(photos), photos, Len(photos))
<1> DEFINE n == Len(photos)
           V == Seq(PhotoAnswers)
           base == <<>>
           Next1(i, r) == Append(r, AnalyzePhoto(photos[i], GetPreviousCounts(r)))
           F == [p \in (1..n) \X V |-> Next1(p[1], p[2])]
           Fix(g) == g = [i \in 0..n |-> IF i = 0 THEN <<>> ELSE Next1(i, g[i - 1])]
<1>1. n \in Nat /\ \A i \in 1..n : photos[i] \in Photos
  OBVIOUS
<1>2. base \in V
  BY EmptySeq
<1>3. ASSUME NEW a \in PhotoAnswers PROVE a.counts \in Shown
  BY AnswerCounts DEF PhotoAnswers, Shown
<1>4. ASSUME NEW r \in V PROVE GetPreviousCounts(r) \in SUBSET Shown
  BY <1>3 DEF GetPreviousCounts
<1>5. ASSUME NEW i \in 1..n, NEW r \in V PROVE Next1(i, r) \in V
  <2>1. AnalyzePhoto(photos[i], GetPreviousCounts(r)) \in PhotoAnswers
    BY <1>1, <1>4 DEF PhotoAnswers
  <2> QED
    BY <2>1
<1>6. F \in [(1..n) \X V -> V] /\ \A i \in 1..n, r \in V : F[<<i, r>>] = Next1(i, r)
  BY <1>5
<1>7. PICK g \in [0..n -> V] : IsStepped(g, n, base, F)
  <2> HIDE DEF n, V, base, F
  <2> QED
    BY <1>1, <1>2, <1>6, Recursion
<1>8. Fix(g)
  <2>1. \A i \in 0..n : i # 0 => i \in 1..n /\ g[i - 1] \in V
    <3> HIDE DEF V
    <3> QED
      BY <1>1, <1>7
  <2> HIDE DEF F, V, Next1, n
  <2> QED
    BY <1>6, <1>7, <2>1 DEF IsStepped
<1>9. PICK f : f = CHOOSE e : Fix(e)
  OBVIOUS
<1>10. Fix(f)
  <2> HIDE DEF Fix
  <2> QED
    BY <1>8, <1>9, Zenon
<1>11. Results(photos) = f[n]
  BY <1>9 DEF Results
<1>12. /\ f[0] = <<>>
       /\ \A i \in 1..n : f[i] = Next1(i, f[i - 1])
  <2> HIDE DEF Next1
  <2> QED
    BY <1>1, <1>10
<1> DEFINE P == {m \in Nat : m <= n => Answered(f[m], photos, m)}
<1>13. 0 \in P
  <2>1. f[0] = <<>> /\ <<>> \in Seq(PhotoAnswers) /\ Len(<<>>) = 0 /\ 1..0 = {}
    BY <1>12, EmptySeq
  <2> QED
    BY <2>1 DEF Answered
<1>14. ASSUME NEW m \in Nat, m \in P PROVE m + 1 \in P
  <2>1. ASSUME m + 1 <= n PROVE Answered(f[m + 1], photos, m + 1)
    <3> DEFINE r == f[m]
               a == AnalyzePhoto(photos[m + 1], GetPreviousCounts(r))
    <3>1. /\ m + 1 \in 1..n /\ (m + 1) - 1 = m
          /\ r \in V /\ Len(r) = m
          /\ \A i \in 1..m : r[i] = AnalyzePhoto(photos[i], Compared(photos, i))
      BY <1>14, <2>1 DEF Answered
    <3>2. f[m + 1] = Append(r, a)
      BY <1>12, <3>1
    <3>3. a \in PhotoAnswers
      <4>1. photos[m + 1] \in Photos /\ GetPreviousCounts(r) \in SUBSET Shown
        BY <1>1, <1>4, <3>1
      <4> HIDE DEF r
      <4> QED
        BY <4>1 DEF PhotoAnswers
    <3>4. GetPreviousCounts(r) = Compared(photos, m + 1)
      <4>1. \A i \in 1..m : photos[i] \in Photos /\ r[i].counts
               = IF photos[i].readable THEN photos[i].shows ELSE NoProducts
        BY <1>1, <3>1, AnswerCounts
      <4>2. GetPreviousCounts(r)
              = {r[i].counts : i \in {j \in 1..m : j = m /\ r[j].counts # NoProducts}}
        BY <3>1 DEF GetPreviousCounts
      <4>3. Compared(photos, m + 1)
              = {photos[j].shows : j \in {k \in 1..m : k = m /\ photos[k].readable
                                                         /\ photos[k].shows # NoProducts}}
        BY <1>1, <3>1 DEF Compared
      <4> QED
        BY <4>1, <4>2, <4>3
    <3>5. /\ Append(r, a) \in Seq(PhotoAnswers) /\ Len(Append(r, a)) = m + 1
          /\ \A i \in 1..m : Append(r, a)[i] = r[i]
          /\ Append(r, a)[m + 1] = a
      <4> HIDE DEF r, a
      <4> QED
        BY <3>1, <3>3
    <3>6. \A i \in 1..m + 1 : i \in 1..m \/ i = m + 1
      BY <3>1
    <3> HIDE DEF r
    <3> QED
      BY <3>1, <3>2, <3>4, <3>5, <3>6 DEF Answered
  <2> QED
    BY <2>1
<1>15. Nat \subseteq P
  <2> HIDE DEF P
  <2> QED
    BY <1>13, <1>14, NatSteps
<1> QED
  BY <1>1, <1>11, <1>15

\* The greater and the smaller of two integers.
Greater(a, b) == Max({a, b})
Smaller(a, b) == Min({a, b})

\* They are one of the two.
LEMMA OneOfTwo ==
  ASSUME NEW a \in Int, NEW b \in Int
  PROVE  /\ Greater(a, b) = IF a < b THEN b ELSE a
         /\ Smaller(a, b) = IF a < b THEN a ELSE b
<1>1. PICK m : m = Max({a, b})
  OBVIOUS
<1>2. m \in {a, b} /\ \A y \in {a, b} : m >= y
  <2>1. \E x \in {a, b} : \A y \in {a, b} : x >= y
    <3>1. CASE a < b
      BY <3>1
    <3>2. CASE ~(a < b)
      BY <3>2
    <3> QED
      BY <3>1, <3>2
  <2> QED
    BY <1>1, <2>1 DEF Max
<1>3. PICK l : l = Min({a, b})
  OBVIOUS
<1>4. l \in {a, b} /\ \A y \in {a, b} : l <= y
  <2>1. \E x \in {a, b} : \A y \in {a, b} : x <= y
    <3>1. CASE a < b
      BY <3>1
    <3>2. CASE ~(a < b)
      BY <3>2
    <3> QED
      BY <3>1, <3>2
  <2> QED
    BY <1>3, <2>1 DEF Min
<1>5. Greater(a, b) = m /\ Smaller(a, b) = l
  BY <1>1, <1>3 DEF Greater, Smaller
<1> QED
  BY <1>2, <1>4, <1>5

\* What there is more of a product in one photo than in another.
More(photo, next, p) == CountOf(photo.shows, p) - CountOf(next.shows, p)
LostOf(photo, next, p) == IF More(photo, next, p) > 0 THEN More(photo, next, p) ELSE 0

\* The products of photos can be summed up.
LEMMA PhotoCounts ==
  ASSUME NEW photo \in Photos, NEW next \in Photos
  PROVE  /\ IsFiniteSet(DOMAIN photo.shows)
         /\ \A p : CountOf(photo.shows, p) \in Nat
         /\ \A p \in DOMAIN photo.shows : photo.shows[p] = CountOf(photo.shows, p)
         /\ \A p : p \notin DOMAIN photo.shows => CountOf(photo.shows, p) = 0
         /\ \A p : LostOf(photo, next, p) \in Nat
         /\ \A p : p \notin DOMAIN photo.shows => LostOf(photo, next, p) = 0
<1>1. IsFiniteSet(DOMAIN photo.shows) /\ \A p \in DOMAIN photo.shows : photo.shows[p] \in Nat
  BY PhotosAssumption DEF PhotosAssumption
<1>2. \A p : CountOf(photo.shows, p) \in Nat /\ CountOf(next.shows, p) \in Nat
  <2>1. \A p \in DOMAIN next.shows : next.shows[p] \in Nat
    BY PhotosAssumption DEF PhotosAssumption
  <2> QED
    BY <1>1, <2>1 DEF CountOf
<1> QED
  BY <1>1, <1>2 DEF CountOf, LostOf, More

\* What left the cart is summed over any products that include those it had.
LEMMA LeftOver ==
  ASSUME NEW photo \in Photos, NEW next \in Photos, NEW U, IsFiniteSet(U),
         DOMAIN photo.shows \subseteq U
  PROVE  /\ Left(photo, next) = SumFunctionOnSet([p \in U |-> LostOf(photo, next, p)], U)
         /\ Left(photo, next) \in Nat
         /\ Total(photo.shows) = SumFunctionOnSet([p \in U |-> CountOf(photo.shows, p)], U)
<1> DEFINE D == DOMAIN photo.shows
           l == [p \in U |-> LostOf(photo, next, p)]
           a == [p \in U |-> CountOf(photo.shows, p)]
           m == [p \in D |-> Max({0, photo.shows[p] - CountOf(next.shows, p)})]
<1>1. /\ IsFiniteSet(D)
      /\ \A p : CountOf(photo.shows, p) \in Nat /\ CountOf(next.shows, p) \in Nat
      /\ \A p \in D : photo.shows[p] = CountOf(photo.shows, p)
      /\ \A p : p \notin D => CountOf(photo.shows, p) = 0
      /\ \A p : LostOf(photo, next, p) \in Nat
      /\ \A p : p \notin D => LostOf(photo, next, p) = 0
  BY PhotoCounts
<1>2. Weighs(l, U) /\ Weighs(a, U) /\ \A p \in U \ D : l[p] = 0 /\ a[p] = 0
  BY <1>1 DEF Weighs
<1>3. Weighs(l, D) /\ Weighs(a, D)
  BY <1>1 DEF Weighs
<1>4. \A p \in D : m[p] = l[p]
  <2> SUFFICES ASSUME NEW p \in D
               PROVE  Max({0, photo.shows[p] - CountOf(next.shows, p)}) = LostOf(photo, next, p)
    OBVIOUS
  <2>1. PICK k \in Int : k = photo.shows[p] - CountOf(next.shows, p)
    BY <1>1
  <2>2. Greater(0, k) = IF 0 < k THEN k ELSE 0
    BY OneOfTwo
  <2>3. Greater(0, k) = LostOf(photo, next, p)
    BY <1>1, <2>1, <2>2 DEF LostOf, More
  <2>4. Greater(0, k) = Max({0, photo.shows[p] - CountOf(next.shows, p)})
    BY <2>1 DEF Greater
  <2> QED
    BY <2>3, <2>4
<1>5. \A p \in D : photo.shows[p] = a[p]
  BY <1>1
<1>6. Left(photo, next) = SumFunctionOnSet(m, D)
  BY DEF Left, SumFunction
<1>7. Total(photo.shows) = SumFunctionOnSet(photo.shows, D)
  BY DEF Total, SumFunction
<1>8. D \in SUBSET U
  OBVIOUS
<1> HIDE DEF D, l, a, m
<1>9. SumFunctionOnSet(m, D) = SumFunctionOnSet(l, D)
  BY <1>1, <1>3, <1>4, SumAlike
<1>10. SumFunctionOnSet(photo.shows, D) = SumFunctionOnSet(a, D)
  BY <1>1, <1>3, <1>5, SumAlike
<1>11. SumFunctionOnSet(l, U) = SumFunctionOnSet(l, D)
  BY <1>2, <1>8, SumZeros
<1>12. SumFunctionOnSet(a, U) = SumFunctionOnSet(a, D)
  BY <1>2, <1>8, SumZeros
<1>13. \A p \in U : l[p] \in Nat
  BY <1>1 DEF l
<1>14. SumFunctionOnSet(l, U) \in Nat
  BY <1>13, SumCounts
<1> QED
  BY <1>6, <1>7, <1>9, <1>10, <1>11, <1>12, <1>14 DEF l, a

\* From one photo to the next the stock changes by what left and what came.
LEMMA StockChanges ==
  ASSUME NEW photo \in Photos, NEW next \in Photos
  PROVE  /\ Total(next.shows) = Total(photo.shows) - Left(photo, next) + Came(photo, next)
         /\ Total(photo.shows) \in Int /\ Left(photo, next) \in Int /\ Came(photo, next) \in Int
         /\ Left(photo, next) \in Nat
<1> DEFINE U == DOMAIN photo.shows \cup DOMAIN next.shows
           u == [p \in U |-> CountOf(next.shows, p)]
           a == [p \in U |-> CountOf(photo.shows, p)]
           l == [p \in U |-> LostOf(photo, next, p)]
           c == [p \in U |-> LostOf(next, photo, p)]
<1>1. IsFiniteSet(U)
  BY PhotoCounts, FS_Union
<1>2. /\ Weighs(u, U) /\ Weighs(a, U) /\ Weighs(l, U) /\ Weighs(c, U)
      /\ \A p \in U : u[p] = a[p] - l[p] + c[p]
  <2>1. \A p : /\ CountOf(photo.shows, p) \in Nat /\ CountOf(next.shows, p) \in Nat
               /\ LostOf(photo, next, p) \in Nat /\ LostOf(next, photo, p) \in Nat
    BY PhotoCounts
  <2>2. \A p : CountOf(next.shows, p)
                 = CountOf(photo.shows, p) - LostOf(photo, next, p) + LostOf(next, photo, p)
    BY <2>1 DEF LostOf, More
  <2> QED
    BY <2>1, <2>2 DEF Weighs
<1>3. /\ Left(photo, next) = SumFunctionOnSet(l, U) /\ Left(photo, next) \in Nat
      /\ Total(photo.shows) = SumFunctionOnSet(a, U)
  BY <1>1, LeftOver
<1>4. /\ Left(next, photo) = SumFunctionOnSet(c, U) /\ Left(next, photo) \in Nat
      /\ Total(next.shows) = SumFunctionOnSet(u, U)
  BY <1>1, LeftOver
<1> HIDE DEF U, u, a, l, c
<1>5. SumFunctionOnSet(u, U)
        = SumFunctionOnSet(a, U) - SumFunctionOnSet(l, U) + SumFunctionOnSet(c, U)
  BY <1>1, <1>2, SumBalance
<1>6. SumFunctionOnSet(a, U) \in Int
  BY <1>1, <1>2, SumPick
<1> QED
  BY <1>3, <1>4, <1>5, <1>6 DEF Came

\* What is estimated as sold between two photos is what left the cart.
LEMMA SoldIsLeft ==
  ASSUME NEW photo \in Photos, NEW next \in Photos
  PROVE  EstimatedSold(next.shows, photo.shows) = Left(photo, next)
<1> DEFINE U == DOMAIN next.shows \cup DOMAIN photo.shows
           delta == DeltaPerProduct(next.shows, photo.shows)
           D == {q \in DOMAIN delta : delta[q] < 0}
           s == [p \in D |-> -delta[p]]
           l == [p \in U |-> LostOf(photo, next, p)]
<1>1. IsFiniteSet(U)
  BY PhotoCounts, FS_Union
<1>2. \A p : /\ CountOf(photo.shows, p) \in Nat /\ CountOf(next.shows, p) \in Nat
             /\ LostOf(photo, next, p) \in Nat
  BY PhotoCounts
<1>3. DOMAIN delta = U /\ \A p \in U : delta[p] = -More(photo, next, p)
  BY <1>2 DEF DeltaPerProduct, More
<1>4. D \in SUBSET U /\ \A p \in D : s[p] = l[p]
  BY <1>2, <1>3 DEF LostOf, More
<1>5. Weighs(l, U) /\ Weighs(l, D) /\ \A p \in U \ D : l[p] = 0
  BY <1>2, <1>3 DEF Weighs, LostOf, More
<1>6. EstimatedSold(next.shows, photo.shows) = SumFunctionOnSet(s, D)
  BY DEF EstimatedSold, SumFunction
<1>7. Left(photo, next) = SumFunctionOnSet(l, U)
  BY <1>1, LeftOver
<1> HIDE DEF U, delta, D, s, l
<1>8. IsFiniteSet(D)
  BY <1>1, <1>4, FS_Subset
<1>9. SumFunctionOnSet(s, D) = SumFunctionOnSet(l, D)
  BY <1>4, <1>5, <1>8, SumAlike
<1>10. SumFunctionOnSet(l, U) = SumFunctionOnSet(l, D)
  BY <1>1, <1>4, <1>5, SumZeros
<1> QED
  BY <1>6, <1>7, <1>9, <1>10

\* A sum over one member.
LEMMA SumOfOne ==
  ASSUME NEW x, NEW w, w[x] \in Int
  PROVE  SumFunctionOnSet(w, {x}) = w[x] /\ SumFunctionOnSet(w, {}) = 0
<1>1. IsFiniteSet({}) /\ Weighs(w, {}) /\ Weighs(w, {} \cup {x}) /\ {} \cup {x} = {x} /\ x \notin {}
  BY FS_EmptySet DEF Weighs
<1>2. SumFunctionOnSet(w, {}) = 0
  BY <1>1, SumPick
<1>3. SumFunctionOnSet(w, {} \cup {x}) = w[x] + SumFunctionOnSet(w, {})
  BY <1>1, SumInsert
<1> QED
  BY <1>1, <1>2, <1>3

\* What is estimated for a photo.
EstimateOf(results, i) == SumFunction([n \in results[i].estimates |-> n])

\* Both photos of a gap can be decoded.
BothReadable(photos, i) == i \in 2..Len(photos) /\ photos[i - 1].readable /\ photos[i].readable

\* It is what left the cart, or nothing next to a photo that cannot be decoded.
LEMMA Estimates ==
  ASSUME NEW photos \in Seq(Photos), NEW i \in 1..Len(photos)
  PROVE  EstimateOf(Results(photos), i)
           = IF BothReadable(photos, i) THEN Left(photos[i - 1], photos[i]) ELSE 0
<1>1. Results(photos)[i] = AnalyzePhoto(photos[i], Compared(photos, i))
  BY ResultsAre DEF Answered
<1> DEFINE E == Results(photos)[i].estimates
           id == [n \in E |-> n]
<1>2. EstimateOf(Results(photos), i) = SumFunctionOnSet(id, E)
  BY DEF EstimateOf, SumFunction
<1>3. E = {} => EstimateOf(Results(photos), i) = 0
  <2>1. IsFiniteSet({}) /\ Weighs(id, {})
    BY FS_EmptySet DEF Weighs
  <2>2. SumFunctionOnSet(id, {}) = 0
    <3> HIDE DEF id
    <3> QED
      BY <2>1, SumPick
  <2> QED
    BY <1>2, <2>2
<1>4. photos[i] \in Photos /\ \A j \in DOMAIN photos : photos[j] \in Photos /\ j \in 1..Len(photos)
  OBVIOUS
<1>5. CASE BothReadable(photos, i)
  <2>1. /\ i - 1 \in DOMAIN photos /\ photos[i - 1] \in Photos
        /\ photos[i - 1].readable /\ photos[i].readable
    BY <1>5 DEF BothReadable
  <2>2. E = {EstimatedSold(photos[i].shows, p) : p \in Compared(photos, i)}
    BY <1>1, <2>1 DEF AnalyzePhoto
  <2>3. CASE photos[i - 1].shows # NoProducts
    <3>1. Compared(photos, i) = {photos[i - 1].shows}
      <4>1. {k \in DOMAIN photos : k + 1 = i /\ photos[k].readable /\ photos[k].shows # NoProducts}
               = {i - 1}
        BY <2>1, <2>3
      <4> QED
        BY <4>1 DEF Compared
    <3>2. E = {Left(photos[i - 1], photos[i])}
      <4>1. EstimatedSold(photos[i].shows, photos[i - 1].shows) = Left(photos[i - 1], photos[i])
        BY <1>4, <2>1, SoldIsLeft
      <4> QED
        BY <2>2, <3>1, <4>1
    <3>3. PICK x \in Int : x = Left(photos[i - 1], photos[i])
      BY <1>4, <2>1, StockChanges
    <3>4. E = {x} /\ id[x] = x
      BY <3>2, <3>3
    <3> HIDE DEF id, E
    <3>5. SumFunctionOnSet(id, {x}) = x
      BY <3>4, SumOfOne
    <3> QED
      BY <1>2, <1>5, <3>3, <3>4, <3>5
  <2>4. CASE photos[i - 1].shows = NoProducts
    <3>1. Compared(photos, i) = {}
      BY <2>1, <2>4 DEF Compared
    <3>2. E = {}
      BY <2>2, <3>1
    <3>3. Left(photos[i - 1], photos[i]) = 0
      <4> DEFINE l == [p \in {} |-> LostOf(photos[i - 1], photos[i], p)]
      <4>1. IsFiniteSet({}) /\ DOMAIN photos[i - 1].shows \subseteq {} /\ Weighs(l, {})
        BY <2>4, FS_EmptySet DEF NoProducts, Weighs
      <4>2. Left(photos[i - 1], photos[i]) = SumFunctionOnSet(l, {})
        BY <1>4, <2>1, <4>1, LeftOver
      <4> HIDE DEF l
      <4>3. SumFunctionOnSet(l, {}) = 0
        BY <4>1, SumPick
      <4> QED
        BY <4>2, <4>3
    <3> QED
      BY <1>3, <1>5, <3>2, <3>3
  <2> QED
    BY <2>3, <2>4
<1>6. CASE ~BothReadable(photos, i)
  <2>1. CASE ~photos[i].readable
    <3>1. E = {}
      BY <1>1, <2>1 DEF AnalyzePhoto, EmptyResult
    <3> QED
      BY <1>3, <1>6, <3>1
  <2>2. CASE photos[i].readable
    <3>1. Compared(photos, i) = {}
      BY <1>4, <1>6, <2>2 DEF Compared, BothReadable
    <3>2. E = {}
      BY <1>1, <3>1 DEF AnalyzePhoto, EmptyResult
    <3> QED
      BY <1>3, <1>6, <3>2
  <2> QED
    BY <2>1, <2>2
<1> QED
  BY <1>5, <1>6

\* A bounded sequence is one.
LEMMA BoundedIsSeq ==
  ASSUME NEW S, NEW n \in Nat, NEW s \in BoundedSeq(S, n)
  PROVE  s \in Seq(S) /\ Len(s) \in 0..n
BY DEF BoundedSeq, SeqOf

\* The stock after the first m photos.
Balance(photos, m) ==
    Total(photos[1].shows)
      - SumFunctionOnSet([i \in 2..Len(photos) |-> Left(photos[i - 1], photos[i])], 2..m)
      + SumFunctionOnSet([i \in 2..Len(photos) |-> Came(photos[i - 1], photos[i])], 2..m)

\* What left and what came accounts for the change of the stock.
LEMMA Balanced ==
  ASSUME NEW photos \in Seq(Photos), Len(photos) # 0
  PROVE  Balance(photos, Len(photos)) = Total(photos[Len(photos)].shows)
<1> DEFINE n == Len(photos)
           l == [i \in 2..n |-> Left(photos[i - 1], photos[i])]
           c == [i \in 2..n |-> Came(photos[i - 1], photos[i])]
           T(m) == Total(photos[m].shows)
           Bal(m) == T(1) - SumFunctionOnSet(l, 2..m) + SumFunctionOnSet(c, 2..m)
           P == {m \in Nat : m + 1 <= n => Bal(m + 1) = T(m + 1)}
<1>1. n \in Nat \ {0} /\ \A i \in 1..n : photos[i] \in Photos
  OBVIOUS
<1>2. ASSUME NEW i \in 2..n
      PROVE  T(i) = T(i - 1) - l[i] + c[i] /\ l[i] \in Int /\ c[i] \in Int /\ T(i - 1) \in Int
  <2>1. photos[i - 1] \in Photos /\ photos[i] \in Photos
    BY <1>1
  <2>2. l[i] = Left(photos[i - 1], photos[i]) /\ c[i] = Came(photos[i - 1], photos[i])
    OBVIOUS
  <2> HIDE DEF l, c
  <2> QED
    BY <2>1, <2>2, StockChanges
<1>3. T(1) \in Int
  <2>1. photos[1] \in Photos
    BY <1>1
  <2> QED
    BY <2>1, StockChanges
<1>4. \A m \in Nat : m <= n => IsFiniteSet(2..m) /\ Weighs(l, 2..m) /\ Weighs(c, 2..m)
  <2> HIDE DEF l, c, n, T
  <2> QED
    BY <1>1, <1>2, FS_Interval DEF Weighs
<1> HIDE DEF l, c, n, T
<1>5. 0 \in P
  <2>1. 2..1 = {} /\ 1 <= n /\ 1 \in Nat /\ 0 + 1 = 1
    BY <1>1
  <2>2. SumFunctionOnSet(l, 2..1) = 0 /\ SumFunctionOnSet(c, 2..1) = 0
    BY <1>4, <2>1, SumPick
  <2> QED
    BY <1>3, <2>1, <2>2
<1>6. ASSUME NEW m \in Nat, m \in P PROVE m + 1 \in P
  <2>1. ASSUME (m + 1) + 1 <= n PROVE Bal((m + 1) + 1) = T((m + 1) + 1)
    <3>0. PICK k \in Nat : k = m + 1
      OBVIOUS
    <3>1. /\ k <= n /\ k + 1 \in 2..n /\ k + 1 <= n /\ k + 1 \in Nat /\ (k + 1) - 1 = k
          /\ 2..(k + 1) = (2..k) \cup {k + 1} /\ k + 1 \notin 2..k
      BY <1>1, <2>1, <3>0
    <3>2. Bal(k) = T(k)
      BY <1>6, <3>0, <3>1
    <3>3. /\ SumFunctionOnSet(l, (2..k) \cup {k + 1}) = l[k + 1] + SumFunctionOnSet(l, 2..k)
          /\ SumFunctionOnSet(c, (2..k) \cup {k + 1}) = c[k + 1] + SumFunctionOnSet(c, 2..k)
      <4>1. /\ IsFiniteSet(2..k) /\ Weighs(l, (2..k) \cup {k + 1}) /\ Weighs(c, (2..k) \cup {k + 1})
        BY <1>4, <3>1
      <4> QED
        BY <3>1, <4>1, SumInsert
    <3>4. T(k + 1) = T(k) - l[k + 1] + c[k + 1] /\ l[k + 1] \in Int /\ c[k + 1] \in Int
      BY <1>2, <3>1
    <3>5. SumFunctionOnSet(l, 2..k) \in Int /\ SumFunctionOnSet(c, 2..k) \in Int
      BY <1>4, <3>1, SumPick
    <3>6. PICK x \in Int, y \in Int : x = SumFunctionOnSet(l, 2..k) /\ y = SumFunctionOnSet(c, 2..k)
      BY <3>5
    <3>7. /\ SumFunctionOnSet(l, 2..(k + 1)) = l[k + 1] + x
          /\ SumFunctionOnSet(c, 2..(k + 1)) = c[k + 1] + y
      BY <3>1, <3>3, <3>6
    <3>8. T(1) - x + y = T(k)
      BY <3>2, <3>6
    <3>9. Bal(k + 1) = T(1) - (l[k + 1] + x) + (c[k + 1] + y)
      BY <3>7
    <3>10. Bal(k + 1) = T(k + 1)
      <4>1. PICK lost \in Int, came \in Int, first \in Int :
              lost = l[k + 1] /\ came = c[k + 1] /\ first = T(1)
        BY <1>3, <3>4
      <4>2. Bal(k + 1) = first - (lost + x) + (came + y)
        BY <3>9, <4>1
      <4>3. T(k + 1) = (first - x + y) - lost + came
        BY <3>4, <3>8, <4>1
      <4>4. first - (lost + x) + (came + y) = (first - x + y) - lost + came
        OBVIOUS
      <4> QED
        BY <4>2, <4>3, <4>4
    <3> QED
      BY <3>0, <3>10
  <2> HIDE DEF Bal
  <2> QED
    BY <2>1
<1>7. n - 1 \in P
  <2> HIDE DEF P
  <2> QED
    BY <1>1, <1>5, <1>6, NatSteps
<1>8. Bal(n) = T(n)
  BY <1>1, <1>7
<1> QED
  BY <1>8 DEF Balance, l, c, n, T

\* The counts of the photos account for the stock.
LEMMA PhotosAccounted == QuestionInv => SalesAccounted
<1> SUFFICES ASSUME QuestionInv, asked.about = "photos" PROVE SalesAccounted
  BY DEF SalesAccounted
<1>1. PICK photos \in Seq(Photos) : asked.photos = photos
  <2>1. PICK photos \in BoundedSeq(Photos, 3) : asked = [about |-> "photos", photos |-> photos]
    BY KindsAsked DEF PhotosAsked
  <2>2. photos \in Seq(Photos)
    BY BoundedIsSeq
  <2> QED
    BY <2>1, <2>2
<1> DEFINE results == Results(photos)
           n == Len(photos)
           Estimate(i) == SumFunction([m \in results[i].estimates |-> m])
           gaps == 2..Len(photos)
           Both(i) == photos[i - 1].readable /\ photos[i].readable
           B == {j \in gaps : Both(j)}
           e == [i \in DOMAIN photos |-> Estimate(i)]
           b == [i \in B |-> Left(photos[i - 1], photos[i])]
           l == [i \in gaps |-> Left(photos[i - 1], photos[i])]
           c == [i \in gaps |-> Came(photos[i - 1], photos[i])]
<1>2. n \in Nat /\ DOMAIN photos = 1..n /\ \A i \in 1..n : photos[i] \in Photos
  OBVIOUS
<1>3. ASSUME NEW i \in 1..n
      PROVE  e[i] = IF i \in B THEN Left(photos[i - 1], photos[i]) ELSE 0
  <2>1. EstimateOf(Results(photos), i)
          = IF BothReadable(photos, i) THEN Left(photos[i - 1], photos[i]) ELSE 0
    BY Estimates
  <2> QED
    BY <1>2, <2>1 DEF EstimateOf, BothReadable
<1>4. ASSUME NEW i \in B PROVE b[i] = e[i] /\ b[i] \in Int
  <2>1. i \in 1..n /\ photos[i - 1] \in Photos /\ photos[i] \in Photos
    BY <1>2
  <2>2. Left(photos[i - 1], photos[i]) \in Int
    BY <2>1, StockChanges
  <2> HIDE DEF e, B
  <2> QED
    BY <1>3, <2>1, <2>2
<1>5. B \in SUBSET (1..n) /\ DOMAIN e = 1..n /\ DOMAIN b = B
  BY <1>2
<1> HIDE DEF e, b, B
<1>6. SumFunctionOnSet(e, 1..n) = SumFunctionOnSet(b, B)
  <2>1. IsFiniteSet(1..n) /\ IsFiniteSet(B)
    <3>1. IsFiniteSet(1..n)
      <4> HIDE DEF n
      <4> QED
        BY <1>2, FS_Interval
    <3> QED
      BY <1>5, <3>1, FS_Subset
  <2>2. Weighs(e, 1..n) /\ Weighs(e, B) /\ Weighs(b, B)
    BY <1>3, <1>4, <1>5 DEF Weighs
  <2>3. \A i \in (1..n) \ B : e[i] = 0
    BY <1>3
  <2>4. SumFunctionOnSet(e, 1..n) = SumFunctionOnSet(e, B)
    <3>1. PICK S : S = 1..n
      OBVIOUS
    <3>2. IsFiniteSet(S) /\ Weighs(e, S) /\ B \in SUBSET S
      BY <1>5, <2>1, <2>2, <3>1
    <3>3. \A i \in S \ B : e[i] = 0
      BY <2>3, <3>1
    <3>4. SumFunctionOnSet(e, S) = SumFunctionOnSet(e, B)
      BY <3>2, <3>3, SumZeros
    <3> QED
      BY <3>1, <3>4
  <2>5. SumFunctionOnSet(e, B) = SumFunctionOnSet(b, B)
    BY <1>4, <2>1, <2>2, SumAlike
  <2> QED
    BY <2>4, <2>5
<1>7. SumFunction(e) = SumFunction(b)
  BY <1>5, <1>6 DEF SumFunction
<1>8. SumFunction(b) <= SumFunction(l)
  <2> DEFINE z == [i \in gaps |-> IF i \in B THEN l[i] ELSE 0]
  <2>1. ASSUME NEW i \in gaps PROVE l[i] \in Nat
    <3>1. photos[i - 1] \in Photos /\ photos[i] \in Photos
      BY <1>2
    <3>2. Left(photos[i - 1], photos[i]) \in Nat
      BY <3>1, StockChanges
    <3> QED
      BY <3>2
  <2>2. IsFiniteSet(gaps)
    <3> HIDE DEF n
    <3> QED
      BY <1>2, FS_Interval
  <2>3. B \in SUBSET gaps /\ IsFiniteSet(B)
    BY <2>2, FS_Subset DEF B
  <2>4. \A i \in B : b[i] = l[i]
    BY <2>3 DEF b
  <2> HIDE DEF l, gaps
  <2>5. Weighs(z, gaps) /\ Weighs(l, gaps) /\ Weighs(z, B) /\ Weighs(b, B)
    BY <2>1, <2>3, <2>4 DEF Weighs
  <2>6. (\A i \in gaps : z[i] <= l[i]) /\ (\A i \in gaps \ B : z[i] = 0) /\ \A i \in B : z[i] = b[i]
    BY <2>1, <2>3, <2>4
  <2> HIDE DEF z
  <2>7. SumFunctionOnSet(z, gaps) = SumFunctionOnSet(z, B)
    BY <2>2, <2>3, <2>5, <2>6, SumZeros
  <2>8. SumFunctionOnSet(z, B) = SumFunctionOnSet(b, B)
    BY <2>3, <2>5, <2>6, SumAlike
  <2>9. SumFunctionOnSet(z, gaps) <= SumFunctionOnSet(l, gaps)
    BY <2>2, <2>5, <2>6, SumGrows
  <2>10. SumFunction(b) = SumFunctionOnSet(b, B)
    BY <1>5 DEF SumFunction
  <2>11. SumFunction(l) = SumFunctionOnSet(l, gaps)
    BY DEF SumFunction, l
  <2> QED
    BY <2>7, <2>8, <2>9, <2>10, <2>11
<1>9. SumFunction(b) \in Int
  <2>1. SumFunction(b) = SumFunctionOnSet(b, B)
    BY <1>5 DEF SumFunction
  <2>2. IsFiniteSet(B) /\ Weighs(b, B)
    <3>1. IsFiniteSet(1..n)
      <4> HIDE DEF n
      <4> QED
        BY <1>2, FS_Interval
    <3> QED
      BY <1>4, <1>5, <3>1, FS_Subset DEF Weighs
  <2> QED
    BY <2>1, <2>2, SumPick
<1>10. ASSUME photos # <<>>, \A i \in DOMAIN photos : photos[i].readable
      PROVE  results[1].units - SumFunction(e) + SumFunction(c) = Last(results).units
  <2>1. n # 0 /\ 1 \in 1..n /\ n \in 1..n
    BY <1>2, <1>10
  <2>2. B = gaps
    BY <1>2, <1>10 DEF B
  <2>3. b = l
    BY <2>2 DEF b
  <2>4. results[1].units = Total(photos[1].shows)
    <3>1. results[1] = AnalyzePhoto(photos[1], Compared(photos, 1))
      BY <2>1, ResultsAre DEF Answered
    <3> QED
      BY <1>2, <1>10, <2>1, <3>1 DEF AnalyzePhoto
  <2>5. Last(results).units = Total(photos[n].shows)
    <3>1. Len(results) = n /\ results[n] = AnalyzePhoto(photos[n], Compared(photos, n))
      BY <2>1, ResultsAre DEF Answered
    <3> QED
      BY <1>2, <1>10, <2>1, <3>1 DEF AnalyzePhoto, Last
  <2>6. Balance(photos, n) = Total(photos[n].shows)
    BY <2>1, Balanced
  <2>7. Balance(photos, n)
          = Total(photos[1].shows) - SumFunctionOnSet(l, 2..n) + SumFunctionOnSet(c, 2..n)
    BY DEF Balance
  <2>8. SumFunction(l) = SumFunctionOnSet(l, 2..n) /\ SumFunction(c) = SumFunctionOnSet(c, 2..n)
    BY DEF SumFunction
  <2> HIDE DEF l, c, results
  <2> QED
    BY <1>7, <2>3, <2>4, <2>5, <2>6, <2>7, <2>8
<1> QED
  BY <1>1, <1>7, <1>10, <1>8, <1>9 DEF SalesAccounted, e, b, B

\* Dates, histories, readings, photos and the page: all of it is read as promised.
LEMMA ReadingsKeep == QuestionInv => ReadingsAgree
BY Vacations, Histories, Forecasts, PhotosAccounted, PageAgrees DEF ReadingsAgree

-----------------------------------------------------------------------------
(* The mood score.                                                         *)

\* What is configured for a type of event.
IsConfig(c) ==
    /\ c.impact \in Int /\ c.radius \in Nat \ {0} /\ c.lambda \in {150, 1, 5}
    /\ \A k \in DOMAIN c.multipliers : c.multipliers[k] \in 6..17

\* All configured types are of this form, and so is what an event brings itself.
LEMMA Configured ==
  ASSUME NEW e, e.impact \in Int
  PROVE  IsConfig(ConfigOf(e))
<1>1. ASSUME NEW type \in DOMAIN EventImpactConfigs PROVE IsConfig(EventImpactConfigs[type])
  <2>1. /\ IsConfig(EventImpactConfigs.india_cricket_win)
        /\ IsConfig(EventImpactConfigs.ipl_match)
        /\ IsConfig(EventImpactConfigs.ipl_final)
    BY DEF EventImpactConfigs, Config, IsConfig
  <2>2. /\ IsConfig(EventImpactConfigs.school_result_day)
        /\ IsConfig(EventImpactConfigs.local_festival)
        /\ IsConfig(EventImpactConfigs.diwali)
        /\ IsConfig(EventImpactConfigs.holi)
    BY DEF EventImpactConfigs, Config, IsConfig
  <2>3. /\ IsConfig(EventImpactConfigs.wedding_season)
        /\ IsConfig(EventImpactConfigs.heat_wave)
        /\ IsConfig(EventImpactConfigs.rain_storm)
        /\ IsConfig(EventImpactConfigs.exam_period)
    BY DEF EventImpactConfigs, Config, IsConfig
  <2>4. type \in {"india_cricket_win", "ipl_match", "ipl_final", "school_result_day",
                  "local_festival", "diwali", "holi", "wedding_season", "heat_wave",
                  "rain_storm", "exam_period"}
    BY DEF EventImpactConfigs
  <2> QED
    BY <2>1, <2>2, <2>3, <2>4
<1>2. IsConfig(Config(e.impact, 50, 150, <<>>))
  BY DEF Config, IsConfig
<1> QED
  BY <1>1, <1>2 DEF ConfigOf

\* The factors of an impact, in their ranges.
LEMMA Factors ==
  ASSUME NEW e \in MoodEvents, NEW category
  PROVE  /\ ConfigOf(e).impact \in Int /\ ConfigOf(e).lambda \in {150, 1, 5}
         /\ Multiplier(e, category) \in 6..17
         /\ Spatial(e) \in 0..Full
<1>1. e.impact \in Int /\ e.distance \in Nat /\ e.radius \in Nat
  BY EventsAssumption DEF EventsAssumption
<1>2. IsConfig(ConfigOf(e))
  BY <1>1, Configured
<1>3. Multiplier(e, category) \in 6..17
  BY <1>2 DEF Multiplier, IsConfig
<1>4. Radius(e) \in Nat \ {0}
  BY <1>1, <1>2 DEF Radius, IsConfig
<1>5. Spatial(e) \in 0..Full
  <2>1. PICK r \in Nat \ {0} : r = Radius(e)
    BY <1>4
  <2>2. PICK d \in Nat : d = Full * e.distance
    BY <1>1 DEF Full
  <2>3. PICK q \in Int : q = d \div r
    BY <2>1, <2>2
  <2>4. q >= 0
    <3>1. d >= 0 /\ r > 0
      BY <2>1, <2>2
    <3> QED
      BY <2>1, <2>2, <2>3, <3>1
  <2>5. Greater(0, Full - q) = IF 0 < Full - q THEN Full - q ELSE 0
    <3>1. Full - q \in Int
      BY DEF Full
    <3> QED
      BY <3>1, OneOfTwo
  <2>6. Spatial(e) = Greater(0, Full - q)
    BY <2>1, <2>2, <2>3 DEF Spatial, Greater
  <2> QED
    BY <2>4, <2>5, <2>6 DEF Full
<1> QED
  BY <1>2, <1>3, <1>5 DEF IsConfig

\* What time makes of an event, before it nothing.
Level(e, t) == IF Started(e, t) THEN Temporal(e, t) ELSE 0

\* It grows only in the event's first half hour and shrinks only when it is over.
LEMMA LevelMoves ==
  ASSUME NEW e \in MoodEvents, NEW t \in 0..MoodTimes
  PROVE  /\ Level(e, t) \in 0..Full
         /\ t + 1 \in 0..MoodTimes =>
              /\ Level(e, t + 1) > Level(e, t) => InFirstHalfHour(e, t)
              /\ Level(e, t + 1) < Level(e, t) => Over(e, t + 1)
<1>1. /\ e.start \in Nat /\ e.end \in Nat \cup {Endless} /\ (e.end # Endless => e.start <= e.end)
      /\ ConfigOf(e).lambda \in {150, 1, 5} /\ MoodTimes \in Nat /\ Endless = -1 /\ Full = 20
  BY EventsAssumption, Factors, MoodTimesAssumption
     DEF EventsAssumption, MoodTimesAssumption, Endless, Full
<1> DEFINE l == ConfigOf(e).lambda
           Built(u) == IF 20 < 10 * (u - e.start) THEN 20 ELSE 10 * (u - e.start)
<1>2. ASSUME NEW u \in 0..MoodTimes
      PROVE  Level(e, u) = IF ~Started(e, u) THEN 0
                           ELSE IF Over(e, u) THEN Fade(l, u - e.end) ELSE Built(u)
  <2>1. PICK k \in Int : k = 10 * (u - e.start)
    BY <1>1
  <2>2. Smaller(20, k) = IF 20 < k THEN 20 ELSE k
    BY OneOfTwo
  <2>3. Temporal(e, u) = IF Over(e, u) THEN Fade(l, u - e.end) ELSE Smaller(20, k)
    <3>1. (Full \div 2) * (u - e.start) = k
      BY <1>1, <2>1
    <3> QED
      BY <1>1, <3>1 DEF Temporal, Smaller
  <2> QED
    BY <1>1, <2>1, <2>2, <2>3 DEF Level
<1>3. ASSUME NEW k \in 0..MoodTimes
      PROVE  Fade(l, k) \in 0..20 /\ (k + 1 \in 0..MoodTimes => Fade(l, k + 1) <= Fade(l, k))
  BY <1>1, FadeAssumption DEF FadeAssumption
<1>4. ASSUME NEW u \in 0..MoodTimes PROVE Level(e, u) \in 0..20
  <2>1. CASE ~Started(e, u)
    BY <1>2, <2>1
  <2>2. CASE Started(e, u) /\ Over(e, u)
    <3>1. u - e.end \in 0..MoodTimes
      BY <1>1, <2>2 DEF Over
    <3>2. Fade(l, u - e.end) \in 0..20
      BY <1>3, <3>1
    <3> QED
      BY <1>2, <2>2, <3>2
  <2>3. CASE Started(e, u) /\ ~Over(e, u)
    BY <1>1, <1>2, <2>3 DEF Started
  <2> QED
    BY <2>1, <2>2, <2>3
<1>5. ASSUME t + 1 \in 0..MoodTimes
      PROVE  /\ Level(e, t + 1) > Level(e, t) => InFirstHalfHour(e, t)
             /\ Level(e, t + 1) < Level(e, t) => Over(e, t + 1)
  <2>0. Level(e, t) \in 0..20 /\ Level(e, t + 1) \in 0..20
    BY <1>4, <1>5
  <2>1. CASE ~Started(e, t)
    <3>1. Level(e, t) = 0
      BY <1>2, <2>1
    <3>2. Level(e, t + 1) = 0
      <4>1. Started(e, t + 1) => t + 1 = e.start /\ ~Over(e, t + 1)
        BY <1>1, <2>1 DEF Started, Over
      <4> QED
        BY <1>1, <1>2, <1>5, <4>1
    <3> QED
      BY <3>1, <3>2
  <2>2. CASE Started(e, t) /\ ~Over(e, t + 1)
    <3>1. Started(e, t + 1) /\ ~Over(e, t)
      BY <1>1, <2>2 DEF Started, Over
    <3>2. Level(e, t) = Built(t) /\ Level(e, t + 1) = Built(t + 1)
      BY <1>2, <1>5, <2>2, <3>1
    <3> QED
      BY <1>1, <2>2, <3>2 DEF Started, InFirstHalfHour
  <2>3. CASE Started(e, t) /\ Over(e, t + 1) /\ ~Over(e, t)
    <3>1. Level(e, t) = Built(t)
      BY <1>2, <2>3
    <3> QED
      BY <1>1, <2>0, <2>3, <3>1 DEF Started, InFirstHalfHour
  <2>4. CASE Started(e, t) /\ Over(e, t + 1) /\ Over(e, t)
    <3>1. /\ Started(e, t + 1) /\ t - e.end \in 0..MoodTimes /\ (t - e.end) + 1 \in 0..MoodTimes
          /\ (t - e.end) + 1 = (t + 1) - e.end
      BY <1>1, <1>5, <2>4 DEF Started, Over
    <3>2. Fade(l, (t - e.end) + 1) <= Fade(l, t - e.end)
      BY <1>3, <3>1
    <3>3. Level(e, t) = Fade(l, t - e.end) /\ Level(e, t + 1) = Fade(l, (t + 1) - e.end)
      BY <1>2, <1>5, <2>4, <3>1
    <3>4. Level(e, t + 1) <= Level(e, t)
      BY <3>1, <3>2, <3>3
    <3> QED
      BY <2>0, <2>4, <3>4
  <2> QED
    BY <2>1, <2>2, <2>3, <2>4
<1> QED
  BY <1>1, <1>4, <1>5

\* A product grows or shrinks with a factor as the sign of the first says.
LEMMA ProductMoves ==
  ASSUME NEW i \in Int, NEW a \in Nat, NEW b \in Nat, a <= b, NEW s \in Nat, NEW m \in Nat
  PROVE  /\ i * a * s * m \in Int /\ i * b * s * m \in Int
         /\ i >= 0 => i * a * s * m <= i * b * s * m
         /\ i <= 0 => i * b * s * m <= i * a * s * m
<1>1. ASSUME NEW x \in Int, NEW y \in Int, x <= y PROVE x * s * m <= y * s * m /\ x * s * m \in Int
  <2>1. x * s <= y * s /\ x * s \in Int /\ y * s \in Int
    BY <1>1, TimesGrows
  <2>2. PICK p \in Int, q \in Int : p = x * s /\ q = y * s
    BY <2>1
  <2>3. p * m <= q * m /\ p * m \in Int
    BY <2>1, <2>2, TimesGrows
  <2> QED
    BY <2>2, <2>3
<1>2. i * a \in Int /\ i * b \in Int
  OBVIOUS
<1>3. PICK x \in Int, y \in Int : x = i * a /\ y = i * b
  BY <1>2
<1>4. i >= 0 => x <= y
  BY <1>3, TimesGrows
<1>5. i <= 0 => y <= x
  <2>1. ASSUME i <= 0 PROVE y <= x
    <3>1. PICK j \in Nat : j = -i
      BY <2>1
    <3>2. j * a <= j * b
      BY TimesGrows
    <3>3. j * a = -x /\ j * b = -y
      BY <1>3, <3>1
    <3> QED
      BY <3>2, <3>3
  <2> QED
    BY <2>1
<1>6. /\ i * a * s * m = x * s * m /\ i * b * s * m = y * s * m
      /\ x * s * m \in Int /\ y * s * m \in Int
  <2>1. x <= x /\ y <= y
    OBVIOUS
  <2> QED
    BY <1>1, <1>3, <2>1
<1>7. (x <= y => x * s * m <= y * s * m) /\ (y <= x => y * s * m <= x * s * m)
  BY <1>1
<1> QED
  BY <1>4, <1>5, <1>6, <1>7

\* An event's impact rises and falls for its own reasons only.
Reason(e, t, way) ==
    /\ Spatial(e) > 0
    /\ IF way = "rise" THEN (Lifts(e) /\ InFirstHalfHour(e, t)) \/ (Depresses(e) /\ Over(e, t + 1))
       ELSE (Depresses(e) /\ InFirstHalfHour(e, t)) \/ (Lifts(e) /\ Over(e, t + 1))

\* What an event does to the score, moment by moment.
LEMMA ImpactMoves ==
  ASSUME NEW e \in MoodEvents, NEW t \in 0..MoodTimes, NEW category
  PROVE  /\ Impact(e, t, category) \in Int
         /\ ~Started(e, t) \/ ~(Spatial(e) > 0) => Impact(e, t, category) = 0
         /\ t + 1 \in 0..MoodTimes =>
              /\ Impact(e, t + 1, category) > Impact(e, t, category) => Reason(e, t, "rise")
              /\ Impact(e, t + 1, category) < Impact(e, t, category) => Reason(e, t, "fall")
<1>1. PICK i \in Int, s \in 0..20, m \in 6..17 :
         i = ConfigOf(e).impact /\ s = Spatial(e) /\ m = Multiplier(e, category)
  BY Factors DEF Full
<1>2. ASSUME NEW u \in 0..MoodTimes, NEW a \in Nat, a = Level(e, u)
      PROVE  Impact(e, u, category) = i * a * s * m
  <2>1. CASE Contributes(e, u)
    BY <1>1, <1>2, <2>1 DEF Contributes, Impact, Level
  <2>2. CASE ~Contributes(e, u)
    <3>1. Impact(e, u, category) = 0
      BY <2>2 DEF Impact
    <3>2. a = 0 \/ s = 0
      BY <1>1, <1>2, <2>2 DEF Contributes, Level
    <3>3. CASE a = 0
      BY <3>1, <3>3
    <3>4. CASE s = 0
      <4>1. PICK x \in Int : x = i * a
        OBVIOUS
      <4> QED
        BY <3>1, <3>4, <4>1
    <3> QED
      BY <3>2, <3>3, <3>4
  <2> QED
    BY <2>1, <2>2
<1>3. PICK a \in Nat : a = Level(e, t)
  BY LevelMoves DEF Full
<1>4. Impact(e, t, category) = i * a * s * m /\ i * a * s * m \in Int
  <2>1. a <= a /\ s \in Nat /\ m \in Nat
    OBVIOUS
  <2> QED
    BY <1>2, <1>3, <2>1, ProductMoves
<1>5. ~Started(e, t) \/ ~(Spatial(e) > 0) => Impact(e, t, category) = 0
  BY DEF Impact, Contributes
<1>6. ASSUME t + 1 \in 0..MoodTimes
      PROVE  /\ Impact(e, t + 1, category) > Impact(e, t, category) => Reason(e, t, "rise")
             /\ Impact(e, t + 1, category) < Impact(e, t, category) => Reason(e, t, "fall")
  <2>1. PICK b \in Nat : b = Level(e, t + 1)
    BY <1>6, LevelMoves DEF Full
  <2>2. Impact(e, t + 1, category) = i * b * s * m
    BY <1>2, <1>6, <2>1
  <2>3. (b > a => InFirstHalfHour(e, t)) /\ (b < a => Over(e, t + 1))
    BY <1>3, <1>6, <2>1, LevelMoves
  <2>4. s \in Nat /\ m \in Nat
    OBVIOUS
  <2>5. PICK x \in Int, y \in Int : x = i * a * s * m /\ y = i * b * s * m
    <3>1. a <= a /\ b <= b
      OBVIOUS
    <3>2. i * a * s * m \in Int /\ i * b * s * m \in Int
      BY <2>4, <3>1, ProductMoves
    <3> QED
      BY <3>2
  <2>6. /\ i >= 0 /\ a <= b => x <= y
        /\ i <= 0 /\ a <= b => y <= x
        /\ i >= 0 /\ b <= a => y <= x
        /\ i <= 0 /\ b <= a => x <= y
    BY <2>4, <2>5, ProductMoves
  <2>7. (Lifts(e) <=> i > 0) /\ (Depresses(e) <=> i < 0)
    BY <1>1 DEF Lifts, Depresses
  <2>8. s = 0 => x = 0 /\ y = 0
    <3>1. ASSUME s = 0 PROVE x = 0 /\ y = 0
      <4>1. PICK p \in Int, q \in Int : p = i * a /\ q = i * b
        OBVIOUS
      <4> QED
        BY <2>5, <3>1, <4>1
    <3> QED
      BY <3>1
  <2>9. (y > x => Reason(e, t, "rise")) /\ (y < x => Reason(e, t, "fall"))
    BY <1>1, <2>3, <2>6, <2>7, <2>8 DEF Reason
  <2> QED
    BY <1>4, <2>2, <2>5, <2>9
<1> QED
  BY <1>4, <1>5, <1>6

\* An event of those asked about for which the score may move.
SomeReason(events, t, way) == \E e \in Range(events) : Reason(e, t, way)

\* The score moves only if an event moves it.
LEMMA ScoreMoves ==
  ASSUME NEW events \in Seq(MoodEvents), NEW t \in 0..MoodTimes, NEW category
  PROVE  /\ CompositeScore(events, t, category) \in Int
         /\ (\A e \in Range(events) : Spatial(e) > 0 => ~Started(e, t)) =>
              CompositeScore(events, t, category) = 0
         /\ t + 1 \in 0..MoodTimes =>
              /\ CompositeScore(events, t + 1, category) > CompositeScore(events, t, category) =>
                   SomeReason(events, t, "rise")
              /\ CompositeScore(events, t + 1, category) < CompositeScore(events, t, category) =>
                   SomeReason(events, t, "fall")
<1> DEFINE S == DOMAIN events
           Of(u) == [i \in S |-> Impact(events[i], u, category)]
<1>1. IsFiniteSet(S)
  <2>1. PICK n \in Int : n = Len(events) /\ S = 1..n
    OBVIOUS
  <2> HIDE DEF S
  <2> QED
    BY <2>1, FS_Interval
<1>2. \A i \in S : events[i] \in MoodEvents /\ events[i] \in Range(events)
  BY DEF Range
<1>3. ASSUME NEW u \in 0..MoodTimes
      PROVE  /\ CompositeScore(events, u, category) = SumFunctionOnSet(Of(u), S)
             /\ Weighs(Of(u), S)
  <2>1. CompositeScore(events, u, category) = SumFunctionOnSet(Of(u), S)
    BY DEF CompositeScore, SumFunction
  <2>2. \A i \in S : Impact(events[i], u, category) \in Int
    BY <1>2, ImpactMoves
  <2> HIDE DEF S
  <2> QED
    BY <2>1, <2>2 DEF Weighs
<1>4. \A u \in 0..MoodTimes, i \in S : Of(u)[i] = Impact(events[i], u, category)
  OBVIOUS
<1> HIDE DEF S, Of
<1>5. CompositeScore(events, t, category) \in Int
  BY <1>1, <1>3, SumPick
<1>6. ASSUME \A e \in Range(events) : Spatial(e) > 0 => ~Started(e, t)
      PROVE  CompositeScore(events, t, category) = 0
  <2>1. \A i \in S : Impact(events[i], t, category) = 0
    BY <1>2, <1>6, ImpactMoves
  <2>2. {} \in SUBSET S /\ \A i \in S \ {} : Of(t)[i] = 0
    BY <1>4, <2>1
  <2>3. SumFunctionOnSet(Of(t), S) = SumFunctionOnSet(Of(t), {})
    BY <1>1, <1>3, <2>2, SumZeros
  <2>4. SumFunctionOnSet(Of(t), {}) = 0
    <3>1. IsFiniteSet({}) /\ Weighs(Of(t), {})
      BY FS_EmptySet DEF Weighs
    <3> QED
      BY <3>1, SumPick
  <2> QED
    BY <1>3, <2>3, <2>4
<1>7. ASSUME t + 1 \in 0..MoodTimes, ~SomeReason(events, t, "rise")
      PROVE  CompositeScore(events, t + 1, category) <= CompositeScore(events, t, category)
  <2>1. \A i \in S : Of(t + 1)[i] <= Of(t)[i]
    <3> SUFFICES ASSUME NEW i \in S
                 PROVE  Impact(events[i], t + 1, category) <= Impact(events[i], t, category)
      BY <1>4, <1>7
    <3>1. ~Reason(events[i], t, "rise") /\ events[i] \in MoodEvents
      BY <1>2, <1>7 DEF SomeReason
    <3>2. Impact(events[i], t + 1, category) \in Int /\ Impact(events[i], t, category) \in Int
      BY <1>7, <3>1, ImpactMoves
    <3>3. ~(Impact(events[i], t + 1, category) > Impact(events[i], t, category))
      BY <1>7, <3>1, ImpactMoves
    <3> QED
      BY <3>2, <3>3
  <2>2. SumFunctionOnSet(Of(t + 1), S) <= SumFunctionOnSet(Of(t), S)
    BY <1>1, <1>3, <1>7, <2>1, SumGrows
  <2> QED
    BY <1>3, <1>7, <2>2
<1>8. ASSUME t + 1 \in 0..MoodTimes, ~SomeReason(events, t, "fall")
      PROVE  CompositeScore(events, t, category) <= CompositeScore(events, t + 1, category)
  <2>1. \A i \in S : Of(t)[i] <= Of(t + 1)[i]
    <3> SUFFICES ASSUME NEW i \in S
                 PROVE  Impact(events[i], t, category) <= Impact(events[i], t + 1, category)
      BY <1>4, <1>8
    <3>1. ~Reason(events[i], t, "fall") /\ events[i] \in MoodEvents
      BY <1>2, <1>8 DEF SomeReason
    <3>2. Impact(events[i], t + 1, category) \in Int /\ Impact(events[i], t, category) \in Int
      BY <1>8, <3>1, ImpactMoves
    <3>3. ~(Impact(events[i], t + 1, category) < Impact(events[i], t, category))
      BY <1>8, <3>1, ImpactMoves
    <3> QED
      BY <3>2, <3>3
  <2>2. SumFunctionOnSet(Of(t), S) <= SumFunctionOnSet(Of(t + 1), S)
    BY <1>1, <1>3, <1>8, <2>1, SumGrows
  <2> QED
    BY <1>3, <1>8, <2>2
<1>9. t + 1 \in 0..MoodTimes => CompositeScore(events, t + 1, category) \in Int
  BY <1>1, <1>3, SumPick
<1>10. ASSUME t + 1 \in 0..MoodTimes
       PROVE  /\ CompositeScore(events, t + 1, category) > CompositeScore(events, t, category) =>
                   SomeReason(events, t, "rise")
              /\ CompositeScore(events, t + 1, category) < CompositeScore(events, t, category) =>
                   SomeReason(events, t, "fall")
  <2>1. PICK a \in Int : a = CompositeScore(events, t, category)
    BY <1>5
  <2>2. PICK b \in Int : b = CompositeScore(events, t + 1, category)
    BY <1>9, <1>10
  <2>3. ~SomeReason(events, t, "rise") => b <= a
    BY <1>7, <1>10, <2>1, <2>2
  <2>4. ~SomeReason(events, t, "fall") => a <= b
    BY <1>8, <1>10, <2>1, <2>2
  <2> QED
    BY <2>1, <2>2, <2>3, <2>4 DEF SomeReason
<1> QED
  BY <1>5, <1>6, <1>10

\* Between the bounds nothing is cut off.
LEMMA Clamped ==
  ASSUME NEW b \in Int, NEW one \in Int, -one <= b, b <= one
  PROVE  Greater(0, Smaller(2 * one, one + b)) = one + b
<1>1. PICK k \in Int : k = one + b
  OBVIOUS
<1>2. Smaller(2 * one, k) = IF 2 * one < k THEN 2 * one ELSE k
  BY OneOfTwo
<1>3. Greater(0, k) = IF 0 < k THEN k ELSE 0
  BY OneOfTwo
<1> QED
  BY <1>1, <1>2, <1>3

\* The multiplier for a score is one more than what tanh makes of it.
LEMMA DemandIs ==
  ASSUME NEW events \in BoundedSeq(MoodEvents, 2), NEW t \in 0..MoodTimes,
         NEW category \in Categories
  PROVE  /\ One \in Int
         /\ CompositeScore(events, t, category) \in Scores
         /\ Bend(CompositeScore(events, t, category)) \in -One..One
         /\ DemandMultiplier(events, t, category) = One + Bend(CompositeScore(events, t, category))
<1>1. CompositeScore(events, t, category) \in Scores
  BY DEF Scores
<1>2. Bend(CompositeScore(events, t, category)) \in -One..One
  BY <1>1, BendAssumption DEF BendAssumption
<1>3. One \in Int
  BY DEF One
<1>4. PICK b \in Int : b = Bend(CompositeScore(events, t, category)) /\ -One <= b /\ b <= One
  BY <1>2, <1>3
<1>5. DemandMultiplier(events, t, category) = Greater(0, Smaller(2 * One, One + b))
  BY <1>4 DEF DemandMultiplier, Greater, Smaller
<1>6. Greater(0, Smaller(2 * One, One + b)) = One + b
  BY <1>3, <1>4, Clamped
<1> QED
  BY <1>1, <1>2, <1>3, <1>4, <1>5, <1>6

\* Demand moves for a reason.
LEMMA MovesExplained == QuestionInv => DemandMovesExplained
<1> SUFFICES ASSUME QuestionInv, asked.about = "mood", NEW t \in 0..MoodTimes - 1
             PROVE  LET Demand(now) == DemandMultiplier(asked.events, now, asked.category)
                        near == {e \in Range(asked.events) : Spatial(e) > 0}
                    IN  /\ Demand(t) \in 0..2 * One
                        /\ Demand(t + 1) > Demand(t) =>
                             \E e \in near : \/ Lifts(e) /\ InFirstHalfHour(e, t)
                                             \/ Depresses(e) /\ Over(e, t + 1)
                        /\ Demand(t + 1) < Demand(t) =>
                             \E e \in near : \/ Depresses(e) /\ InFirstHalfHour(e, t)
                                             \/ Lifts(e) /\ Over(e, t + 1)
                        /\ (\A e \in near : ~Started(e, t)) => Demand(t) = One
  BY DEF DemandMovesExplained
<1>1. PICK events \in BoundedSeq(MoodEvents, 2), category \in Categories :
        asked = [about |-> "mood", events |-> events, category |-> category]
  BY KindsAsked DEF MoodAsked
<1>2. asked.events = events /\ asked.category = category
  BY <1>1
<1>3. t \in 0..MoodTimes /\ t + 1 \in 0..MoodTimes /\ events \in Seq(MoodEvents)
  BY MoodTimesAssumption, BoundedIsSeq DEF MoodTimesAssumption
<1> DEFINE C(u) == CompositeScore(events, u, category)
           D(u) == DemandMultiplier(events, u, category)
<1>4. /\ D(t) = One + Bend(C(t)) /\ D(t + 1) = One + Bend(C(t + 1))
      /\ Bend(C(t)) \in -One..One /\ Bend(C(t + 1)) \in -One..One
      /\ C(t) \in Scores /\ C(t + 1) \in Scores
  BY <1>3, DemandIs
<1>5. /\ C(t) \in Int
      /\ (\A e \in Range(events) : Spatial(e) > 0 => ~Started(e, t)) => C(t) = 0
      /\ C(t + 1) > C(t) => SomeReason(events, t, "rise")
      /\ C(t + 1) < C(t) => SomeReason(events, t, "fall")
  BY <1>3, ScoreMoves
<1>6. C(t + 1) \in Int
  BY <1>3, ScoreMoves
<1> HIDE DEF C, D
<1>7. /\ C(t + 1) <= C(t) => Bend(C(t + 1)) <= Bend(C(t))
      /\ C(t) <= C(t + 1) => Bend(C(t)) <= Bend(C(t + 1))
      /\ Bend(0) = 0
  BY <1>4, BendAssumption DEF BendAssumption
<1>8. /\ D(t) \in 0..2 * One
      /\ D(t + 1) > D(t) => SomeReason(events, t, "rise")
      /\ D(t + 1) < D(t) => SomeReason(events, t, "fall")
      /\ (\A e \in Range(events) : Spatial(e) > 0 => ~Started(e, t)) => D(t) = One
  <2>1. PICK one \in Int : one = One
    BY DEF One
  <2>2. PICK x \in -one..one : x = Bend(C(t))
    BY <1>4, <2>1
  <2>3. PICK y \in -one..one : y = Bend(C(t + 1))
    BY <1>4, <2>1
  <2>4. D(t) = one + x /\ D(t + 1) = one + y
    BY <1>4, <2>1, <2>2, <2>3
  <2>5. PICK a \in Int : a = C(t)
    BY <1>5
  <2>6. PICK b \in Int : b = C(t + 1)
    BY <1>6
  <2>7. (b <= a => y <= x) /\ (a <= b => x <= y)
    BY <1>7, <2>2, <2>3, <2>5, <2>6
  <2>8. (b > a => SomeReason(events, t, "rise")) /\ (b < a => SomeReason(events, t, "fall"))
    BY <1>5, <2>5, <2>6
  <2>9. (y > x => b > a) /\ (y < x => b < a)
    BY <2>7
  <2>10. a = 0 => x = 0
    BY <1>7, <2>2, <2>5
  <2>11. D(t) \in 0..2 * One
    BY <2>1, <2>4
  <2> QED
    BY <1>5, <2>1, <2>4, <2>5, <2>8, <2>9, <2>10, <2>11
<1> QED
  BY <1>2, <1>8 DEF D, SomeReason, Reason

\* The greatest of a finite set of integers is one of them.
LEMMA GreatestIn ==
  ASSUME NEW S \in SUBSET Int, IsFiniteSet(S), S # {}
  PROVE  Max(S) \in S
<1> DEFINE P == {T \in SUBSET S : T # {} => \E x \in T : \A y \in T : x >= y}
<1>1. {} \in P
  OBVIOUS
<1>2. ASSUME NEW T \in SUBSET S, NEW z \in S \ T, T \in P PROVE T \cup {z} \in P
  <2>1. CASE T = {}
    <3>1. T \cup {z} = {z} /\ z >= z
      BY <2>1
    <3> QED
      BY <3>1
  <2>2. CASE T # {}
    <3>1. PICK x \in T : \A y \in T : x >= y
      BY <1>2, <2>2
    <3>2. CASE x >= z
      <4>1. \A y \in T \cup {z} : x >= y
        BY <3>1, <3>2
      <4> QED
        BY <4>1
    <3>3. CASE ~(x >= z)
      <4>1. \A y \in T \cup {z} : z >= y
        BY <3>1, <3>3
      <4> QED
        BY <4>1
    <3> QED
      BY <3>2, <3>3
  <2> QED
    BY <2>1, <2>2
<1>3. S \in P
  <2> HIDE DEF P
  <2> QED
    BY <1>1, <1>2, SetSteps
<1>4. \E x \in S : \A y \in S : x >= y
  BY <1>3
<1> QED
  BY <1>4 DEF Max

\* Rounding n of d four-thousandths keeps the side of the whole number c.
LEMMA RoundedKeeps ==
  ASSUME NEW c \in Nat, NEW n \in Nat
  PROVE  /\ Rounded(n, 4000) \in Nat
         /\ n <= c * 4000 => Rounded(n, 4000) <= c
         /\ n >= c * 4000 => Rounded(n, 4000) >= c
BY DEF Rounded

\* The side to which an event moves a category.
RaisesDemand(e, t, category) == Contributes(e, t) /\ Multiplier(e, category) > 10
LowersDemand(e, t, category) == Contributes(e, t) /\ Multiplier(e, category) < 10

\* An event moves the multiplier to that side or not at all.
LEMMA Adjusts ==
  ASSUME NEW e \in MoodEvents, NEW t \in 0..MoodTimes, NEW category, NEW c \in Nat
  PROVE  /\ Adjusted(c, e, t, category) \in Nat
         /\ ~RaisesDemand(e, t, category) => Adjusted(c, e, t, category) <= c
         /\ ~LowersDemand(e, t, category) => Adjusted(c, e, t, category) >= c
<1>1. CASE ~Contributes(e, t)
  BY <1>1 DEF Adjusted
<1>2. CASE Contributes(e, t)
  <2>1. PICK m \in 6..17, s \in 0..20 : m = Multiplier(e, category) /\ s = Spatial(e)
    BY Factors DEF Full
  <2>2. PICK l \in 0..20 : l = Temporal(e, t)
    <3>1. Level(e, t) \in 0..20
      BY LevelMoves DEF Full
    <3> QED
      BY <1>2, <3>1 DEF Level, Contributes
  <2>3. PICK p \in Nat : p = s * l /\ p <= 400
    <3>1. s * l <= 20 * l /\ s * l \in Int /\ 0 * l <= s * l
      <4>1. s \in Int /\ 20 \in Int /\ 0 \in Int /\ l \in Nat /\ s <= 20 /\ 0 <= s
        OBVIOUS
      <4> QED
        BY <4>1, TimesGrows
    <3> QED
      BY <3>1
  <2>4. (m - 10) * s * l = (m - 10) * p
    BY <2>3
  <2>5. PICK k \in Nat : k = 4000 + (m - 10) * p /\ (m <= 10 => k <= 4000) /\ (m >= 10 => k >= 4000)
    <3>1. 4000 + (m - 10) * p \in Nat
      BY <2>3
    <3>2. m <= 10 => 4000 + (m - 10) * p <= 4000
      BY <2>3
    <3>3. m >= 10 => 4000 + (m - 10) * p >= 4000
      BY <2>3
    <3> QED
      BY <3>1, <3>2, <3>3
  <2>6. Adjusted(c, e, t, category) = Rounded(c * k, 4000)
    <3>1. 10 * Full * Full = 4000
      BY DEF Full
    <3>2. 10 * Full * Full + (Multiplier(e, category) - 10) * Spatial(e) * Temporal(e, t) = k
      BY <2>1, <2>2, <2>4, <2>5, <3>1
    <3> QED
      BY <1>2, <3>1, <3>2 DEF Adjusted
  <2>7. PICK n \in Nat : n = c * k /\ (k <= 4000 => n <= c * 4000) /\ (k >= 4000 => n >= c * 4000)
    <3>1. c * k \in Nat
      OBVIOUS
    <3>2. k <= 4000 => c * k <= c * 4000
      BY TimesGrows
    <3>3. k >= 4000 => c * 4000 <= c * k
      BY TimesGrows
    <3> QED
      BY <3>1, <3>2, <3>3
  <2>8. Rounded(n, 4000) \in Nat /\ (k <= 4000 => Rounded(n, 4000) <= c)
        /\ (k >= 4000 => Rounded(n, 4000) >= c)
    BY <2>7, RoundedKeeps
  <2> QED
    BY <1>2, <2>1, <2>5, <2>6, <2>7, <2>8 DEF RaisesDemand, LowersDemand
<1> QED
  BY <1>1, <1>2

\* The multiplier moves only to a side to which some event moves it.
LEMMA MultiplierMoves ==
  ASSUME NEW events \in Seq(MoodEvents), NEW t \in 0..MoodTimes, NEW category
  PROVE  /\ CategoryMultiplier(events, t, category) \in Nat
         /\ (\A e \in Range(events) : ~RaisesDemand(e, t, category)) =>
              CategoryMultiplier(events, t, category) <= One
         /\ (\A e \in Range(events) : ~LowersDemand(e, t, category)) =>
              CategoryMultiplier(events, t, category) >= One
<1> DEFINE S == DOMAIN events
           V == Nat
           base == One
           F == [p \in S \X V |-> Adjusted(p[2], events[p[1]], t, category)]
           chosen == [T \in SUBSET S |-> Max(T)]
           Fix(g) == g = [T \in SUBSET S |->
                            IF T = {} THEN One
                            ELSE Adjusted(g[T \ {Max(T)}], events[Max(T)], t, category)]
<1>1. IsFiniteSet(S) /\ S \in SUBSET Int
  <2>1. PICK n \in Int : n = Len(events) /\ S = 1..n
    OBVIOUS
  <2> HIDE DEF S
  <2> QED
    BY <2>1, FS_Interval
<1>2. \A i \in S : events[i] \in MoodEvents /\ events[i] \in Range(events)
  BY DEF Range
<1>3. \A T \in SUBSET S : T # {} => Max(T) \in T
  <2> SUFFICES ASSUME NEW T \in SUBSET S, T # {} PROVE Max(T) \in T
    OBVIOUS
  <2>1. IsFiniteSet(T) /\ T \in SUBSET Int
    BY <1>1, FS_Subset
  <2> QED
    BY <2>1, GreatestIn
<1>4. ASSUME NEW i \in S, NEW c \in Nat
      PROVE  /\ Adjusted(c, events[i], t, category) \in Nat
             /\ ~RaisesDemand(events[i], t, category) => Adjusted(c, events[i], t, category) <= c
             /\ ~LowersDemand(events[i], t, category) => Adjusted(c, events[i], t, category) >= c
  <2>1. events[i] \in MoodEvents
    BY <1>2
  <2> QED
    BY <2>1, Adjusts
<1>5. F \in [S \X V -> V] /\ base \in V
  <2>1. \A i \in S, c \in Nat : Adjusted(c, events[i], t, category) \in Nat
    BY <1>4
  <2>2. base \in V
    BY DEF One
  <2> HIDE DEF S, base
  <2> QED
    BY <2>1, <2>2
<1>6. PICK it \in [SUBSET S -> V] : IsFold(it, S, base, F, chosen)
  <2>1. Chooses(chosen, S)
    BY <1>3 DEF Chooses
  <2> HIDE DEF S, V, base, F, chosen
  <2> QED
    BY <1>1, <1>5, <2>1, FoldExists
<1>7. Fix(it)
  <2>1. ASSUME NEW T \in SUBSET S, T # {}
        PROVE  it[T] = Adjusted(it[T \ {Max(T)}], events[Max(T)], t, category)
    <3>1. Max(T) \in S /\ it[T \ {Max(T)}] \in Nat
      BY <1>3, <1>6, <2>1
    <3>2. it[T] = F[<<Max(T), it[T \ {Max(T)}]>>]
      BY <1>6, <2>1 DEF IsFold
    <3> HIDE DEF S
    <3> QED
      BY <3>1, <3>2
  <2>2. it[{}] = One
    BY <1>6 DEF IsFold
  <2> HIDE DEF S
  <2> QED
    BY <1>6, <2>1, <2>2
<1>8. PICK jt : jt = CHOOSE g : Fix(g)
  OBVIOUS
<1>9. Fix(jt)
  <2> HIDE DEF Fix
  <2> QED
    BY <1>7, <1>8, Zenon
<1>10. CategoryMultiplier(events, t, category) = jt[S]
  BY <1>8 DEF CategoryMultiplier, FoldLeft, MapThenFoldSet
<1>11. /\ jt[{}] = One
       /\ \A T \in SUBSET S : T # {} =>
            jt[T] = Adjusted(jt[T \ {Max(T)}], events[Max(T)], t, category)
  <2> HIDE DEF S
  <2> QED
    BY <1>9
<1> HIDE DEF S, Fix
<1> DEFINE Bounded(T) ==
             /\ jt[T] \in Nat
             /\ (\A e \in Range(events) : ~RaisesDemand(e, t, category)) => jt[T] <= One
             /\ (\A e \in Range(events) : ~LowersDemand(e, t, category)) => jt[T] >= One
           N == {n \in Nat : \A T \in SUBSET S : Cardinality(T) = n => Bounded(T)}
<1>12. 0 \in N
  <2>1. One \in Nat
    BY DEF One
  <2>2. Bounded({})
    BY <1>11, <2>1
  <2>3. \A T \in SUBSET S : Cardinality(T) = 0 => T = {}
    BY <1>1, PartsCount
  <2> QED
    BY <2>2, <2>3
<1>13. ASSUME NEW n \in Nat, n \in N PROVE n + 1 \in N
  <2>1. ASSUME NEW T \in SUBSET S, Cardinality(T) = n + 1 PROVE Bounded(T)
    <3>1. IsFiniteSet(T) /\ T # {}
      <4>1. \A U \in SUBSET S : IsFiniteSet(U) /\ (U = {} => Cardinality(U) = 0)
        BY <1>1, PartsCount
      <4> QED
        BY <2>1, <4>1
    <3>2. PICK x : x = Max(T)
      OBVIOUS
    <3>3. x \in T /\ x \in S
      BY <1>3, <3>1, <3>2
    <3>4. Cardinality(T \ {x}) = n
      BY <2>1, <3>1, <3>3, OneLess
    <3>5. Bounded(T \ {x})
      <4> HIDE DEF Bounded
      <4> QED
        BY <1>13, <3>4
    <3>6. PICK c \in Nat : c = jt[T \ {x}]
      BY <3>5
    <3>7. jt[T] = Adjusted(c, events[x], t, category)
      BY <1>11, <3>1, <3>2, <3>6
    <3>8. PICK d \in Nat : d = jt[T]
      BY <1>4, <3>3, <3>7
    <3>9. /\ ~RaisesDemand(events[x], t, category) => d <= c
          /\ ~LowersDemand(events[x], t, category) => d >= c
      BY <1>4, <3>3, <3>7, <3>8
    <3>10. One \in Nat /\ events[x] \in Range(events)
      BY <1>2, <3>3 DEF One
    <3> QED
      BY <3>5, <3>6, <3>8, <3>9, <3>10
  <2> HIDE DEF Bounded
  <2> QED
    BY <2>1
<1>14. Cardinality(S) \in N
  <2> HIDE DEF N
  <2> QED
    BY <1>1, <1>12, <1>13, NatSteps, FS_CardinalityType
<1>15. Bounded(S)
  <2> HIDE DEF Bounded
  <2> QED
    BY <1>14
<1> QED
  BY <1>10, <1>15

\* A category moves for a reason.
LEMMA CategoriesExplained == QuestionInv => CategoryExplained
<1> SUFFICES ASSUME QuestionInv, asked.about = "mood", NEW t \in 0..MoodTimes
             PROVE  LET multiplier == CategoryMultiplier(asked.events, t, asked.category)
                        active == {e \in Range(asked.events) : Contributes(e, t)}
                    IN  /\ multiplier > One =>
                             \E e \in active : Multiplier(e, asked.category) > 10
                        /\ multiplier < One =>
                             \E e \in active : Multiplier(e, asked.category) < 10
  BY DEF CategoryExplained
<1>1. PICK events \in BoundedSeq(MoodEvents, 2), category \in Categories :
        asked = [about |-> "mood", events |-> events, category |-> category]
  BY KindsAsked DEF MoodAsked
<1>2. asked.events = events /\ asked.category = category
  BY <1>1
<1>3. events \in Seq(MoodEvents)
  BY BoundedIsSeq
<1>4. PICK m \in Nat : m = CategoryMultiplier(events, t, category)
  BY <1>3, MultiplierMoves
<1>5. /\ (\A e \in Range(events) : ~RaisesDemand(e, t, category)) => m <= One
      /\ (\A e \in Range(events) : ~LowersDemand(e, t, category)) => m >= One
  BY <1>3, <1>4, MultiplierMoves
<1>6. One \in Nat
  BY DEF One
<1> QED
  BY <1>2, <1>4, <1>5, <1>6 DEF RaisesDemand, LowersDemand

\* What a cart is told about the mood around it is explained by the events.
LEMMA MoodKeeps == QuestionInv => MoodExplained
BY MovesExplained, CategoriesExplained DEF MoodExplained

-----------------------------------------------------------------------------
(* Demand zones.                                                           *)

\* Carts are counted from one, and neither sell nor demand less than nothing.
LEMMA CartsAre ==
  ASSUME NEW carts \in Snapshots \cup Crowds
  PROVE  /\ Len(carts) \in Nat /\ DOMAIN carts = 1..Len(carts)
         /\ IsFiniteSet(DOMAIN carts) /\ Cardinality(DOMAIN carts) = Len(carts)
         /\ Weighs(Demands(carts), DOMAIN carts) /\ Weighs(Velocities(carts), DOMAIN carts)
         /\ \A i \in DOMAIN carts :
              Velocities(carts)[i] = carts[i].velocity /\ carts[i].velocity \in Nat
<1>1. carts \in Seq(Range(carts))
  BY CartsAssumption DEF CartsAssumption
<1>2. PICK n \in Nat : n = Len(carts)
  BY <1>1
<1>3. DOMAIN carts = 1..n
  BY <1>1, <1>2
<1>4. \A i \in DOMAIN carts : carts[i].velocity \in Nat /\ carts[i].demand \in Nat
  <2>1. \A i \in DOMAIN carts : carts[i] \in Range(carts)
    BY DEF Range
  <2> QED
    BY <2>1, CartsAssumption DEF CartsAssumption
<1>5. Weighs(Demands(carts), DOMAIN carts) /\ Weighs(Velocities(carts), DOMAIN carts)
  BY <1>4 DEF Weighs, Demands, Velocities
<1>6. IsFiniteSet(1..n) /\ Cardinality(1..n) = n
  BY FS_Interval
<1> QED
  BY <1>2, <1>3, <1>4, <1>5, <1>6 DEF Velocities

\* The least of a finite set of integers is one of them, and no greater than any.
LEMMA LeastIn ==
  ASSUME NEW S \in SUBSET Int, IsFiniteSet(S), S # {}
  PROVE  Min(S) \in S /\ \A y \in S : Min(S) <= y
<1> DEFINE P == {T \in SUBSET S : T # {} => \E x \in T : \A y \in T : x <= y}
<1>1. {} \in P
  OBVIOUS
<1>2. ASSUME NEW T \in SUBSET S, NEW z \in S \ T, T \in P PROVE T \cup {z} \in P
  <2>1. CASE T = {}
    <3>1. T \cup {z} = {z} /\ z <= z
      BY <2>1
    <3> QED
      BY <3>1
  <2>2. CASE T # {}
    <3>1. PICK x \in T : \A y \in T : x <= y
      BY <1>2, <2>2
    <3>2. CASE x <= z
      <4>1. \A y \in T \cup {z} : x <= y
        BY <3>1, <3>2
      <4> QED
        BY <4>1
    <3>3. CASE ~(x <= z)
      <4>1. \A y \in T \cup {z} : z <= y
        BY <3>1, <3>3
      <4> QED
        BY <4>1
    <3> QED
      BY <3>2, <3>3
  <2> QED
    BY <2>1, <2>2
<1>3. S \in P
  <2> HIDE DEF P
  <2> QED
    BY <1>1, <1>2, SetSteps
<1>4. \E x \in S : \A y \in S : x <= y
  BY <1>3
<1> QED
  BY <1>4 DEF Min

\* How many members come before z.
Earlier(first, Z, z) == {y \in Z : first[y] < first[z]}
RankOf(first, Z, z) == Cardinality(Earlier(first, Z, z))

\* Members that all come at different places are numbered from zero without gaps.
LEMMA Ranks ==
  ASSUME NEW Z, IsFiniteSet(Z), NEW first, \A z \in Z : first[z] \in Int,
         \A y, z \in Z : first[y] = first[z] => y = z
  PROVE  /\ \A y, z \in Z : RankOf(first, Z, y) = RankOf(first, Z, z) => y = z
         /\ {RankOf(first, Z, z) : z \in Z} = 0..Cardinality(Z) - 1
<1> DEFINE n == Cardinality(Z)
           rank == [z \in Z |-> RankOf(first, Z, z)]
<1>1. n \in Nat
  BY FS_CardinalityType
<1>2. ASSUME NEW z \in Z
      PROVE  rank[z] \in 0..n - 1
  <2>1. Earlier(first, Z, z) \in SUBSET Z /\ z \notin Earlier(first, Z, z)
    BY DEF Earlier
  <2>2. IsFiniteSet(Earlier(first, Z, z)) /\ RankOf(first, Z, z) \in Nat /\ RankOf(first, Z, z) <= n
    BY <2>1, PartsCount DEF RankOf
  <2>3. Cardinality(Earlier(first, Z, z)) # Cardinality(Z)
    <3>1. Earlier(first, Z, z) # Z
      BY <2>1
    <3> QED
      BY <2>1, <3>1, FS_Subset
  <2> QED
    BY <1>1, <2>2, <2>3 DEF RankOf
<1>3. ASSUME NEW y \in Z, NEW z \in Z, first[y] < first[z] PROVE rank[y] < rank[z]
  <2>1. /\ Earlier(first, Z, y) \subseteq Earlier(first, Z, z) /\ Earlier(first, Z, z) \in SUBSET Z
        /\ y \in Earlier(first, Z, z) /\ y \notin Earlier(first, Z, y)
    BY <1>3 DEF Earlier
  <2>2. IsFiniteSet(Earlier(first, Z, z))
    BY <2>1, PartsCount
  <2>3. RankOf(first, Z, y) <= RankOf(first, Z, z)
    BY <2>1, <2>2, FS_Subset DEF RankOf
  <2>4. RankOf(first, Z, y) # RankOf(first, Z, z)
    <3>1. Earlier(first, Z, y) # Earlier(first, Z, z)
      BY <2>1
    <3> QED
      BY <2>1, <2>2, <3>1, FS_Subset DEF RankOf
  <2>5. rank[y] \in Int /\ rank[z] \in Int
    BY <1>1, <1>2
  <2> QED
    BY <2>3, <2>4, <2>5
<1>4. ASSUME NEW y \in Z, NEW z \in Z, rank[y] = rank[z] PROVE y = z
  <2>1. rank[y] \in Int /\ rank[z] \in Int
    BY <1>1, <1>2
  <2>2. ~(first[y] < first[z]) /\ ~(first[z] < first[y])
    BY <1>3, <1>4, <2>1
  <2>3. first[y] = first[z]
    BY <2>2
  <2> QED
    BY <2>3
<1>5. IsFiniteSet(0..n - 1) /\ Cardinality(0..n - 1) = n
  BY <1>1, FS_Interval
<1>6. rank \in Injection(Z, 0..n - 1)
  BY <1>2, <1>4 DEF Injection, IsInjective
<1>7. rank \in Surjection(Z, 0..n - 1)
  BY <1>5, <1>6, FS_Injection
<1>8. \A k \in 0..n - 1 : \E z \in Z : rank[z] = k
  BY <1>7 DEF Surjection
<1> QED
  BY <1>2, <1>4, <1>8

\* The crowded zones of the carts, and where each of them begins.
CrowdedZones(carts) == {z \in ZonesOf(carts) : Crowded(carts, z)}
Begins(carts) == [z \in CrowdedZones(carts) |-> Min(InZone(carts, z))]
LabelOf(carts, z) == RankOf(Begins(carts), CrowdedZones(carts), z)

\* The crowded zones are numbered from zero without gaps, one number for each.
LEMMA ZonesAreNumbered ==
  ASSUME NEW carts \in Snapshots \cup Crowds
  PROVE  /\ IsFiniteSet(CrowdedZones(carts))
         /\ \A y, z \in CrowdedZones(carts) : LabelOf(carts, y) = LabelOf(carts, z) => y = z
         /\ {LabelOf(carts, z) : z \in CrowdedZones(carts)}
              = 0..Cardinality(CrowdedZones(carts)) - 1
         /\ \A z \in CrowdedZones(carts) : LabelOf(carts, z) # Noise
<1> DEFINE Z == CrowdedZones(carts)
           first == Begins(carts)
           zone == [i \in DOMAIN carts |-> carts[i].zone]
<1>1. IsFiniteSet(DOMAIN carts) /\ DOMAIN carts \subseteq Int
  BY CartsAre
<1>2. IsFiniteSet(Z)
  <2>1. zone \in Surjection(DOMAIN carts, ZonesOf(carts))
    BY DEF Surjection, ZonesOf
  <2>2. IsFiniteSet(ZonesOf(carts))
    <3> HIDE DEF zone
    <3> QED
      BY <1>1, <2>1, FS_Surjection
  <2>3. Z \in SUBSET ZonesOf(carts)
    BY DEF CrowdedZones
  <2> QED
    BY <2>2, <2>3, PartsCount
<1>3. ASSUME NEW z \in Z PROVE first[z] \in InZone(carts, z)
  <2>1. InZone(carts, z) \in SUBSET DOMAIN carts
    BY DEF InZone
  <2>2. IsFiniteSet(InZone(carts, z))
    BY <1>1, <2>1, PartsCount
  <2>3. InZone(carts, z) # {}
    BY DEF CrowdedZones, ZonesOf, InZone
  <2>4. Min(InZone(carts, z)) \in InZone(carts, z)
    BY <1>1, <2>1, <2>2, <2>3, LeastIn
  <2> QED
    BY <2>4 DEF Begins
<1>4. \A z \in Z : first[z] \in Int
  BY <1>1, <1>3 DEF InZone
<1>5. \A y, z \in Z : first[y] = first[z] => y = z
  BY <1>3 DEF InZone
<1>6. /\ \A y, z \in Z : RankOf(first, Z, y) = RankOf(first, Z, z) => y = z
      /\ {RankOf(first, Z, z) : z \in Z} = 0..Cardinality(Z) - 1
  <2> HIDE DEF Z, first
  <2> QED
    BY <1>2, <1>4, <1>5, Ranks
<1>7. \A z \in Z : LabelOf(carts, z) # Noise
  <2>1. \A z \in Z : RankOf(first, Z, z) \in 0..Cardinality(Z) - 1
    BY <1>6
  <2>2. \A k \in 0..Cardinality(Z) - 1 : k # -1
    BY <1>2, FS_CardinalityType
  <2> QED
    BY <2>1, <2>2 DEF LabelOf, Noise
<1> QED
  BY <1>2, <1>6, <1>7 DEF LabelOf

\* Each cart is labelled with the number of its zone, or as noise.
LEMMA LabelsAre ==
  ASSUME NEW carts \in Snapshots \cup Crowds
  PROVE  /\ DOMAIN SimpleGeohashClustering(carts) = DOMAIN carts
         /\ \A i \in DOMAIN carts : SimpleGeohashClustering(carts)[i] =
              IF carts[i].zone \in CrowdedZones(carts) THEN LabelOf(carts, carts[i].zone) ELSE Noise
         /\ \A i \in DOMAIN carts :
              carts[i].zone \in CrowdedZones(carts) <=> Crowded(carts, carts[i].zone)
         /\ \A i \in DOMAIN carts : i \in InZone(carts, carts[i].zone)
<1>1. \A i \in DOMAIN carts : carts[i].zone \in ZonesOf(carts)
  BY DEF ZonesOf
<1>2. ASSUME NEW i \in DOMAIN carts, Crowded(carts, carts[i].zone)
      PROVE  LabelOf(carts, carts[i].zone) =
               Cardinality({z \in ZonesOf(carts) : /\ Crowded(carts, z)
                                                   /\ Before(carts, z, carts[i].zone)})
  <2>1. carts[i].zone \in CrowdedZones(carts)
    BY <1>1, <1>2 DEF CrowdedZones
  <2>2. Earlier(Begins(carts), CrowdedZones(carts), carts[i].zone)
          = {z \in ZonesOf(carts) : Crowded(carts, z) /\ Before(carts, z, carts[i].zone)}
    BY <2>1 DEF Earlier, Begins, Before, CrowdedZones
  <2> QED
    BY <2>2 DEF LabelOf, RankOf
<1> QED
  BY <1>1, <1>2 DEF SimpleGeohashClustering, CrowdedZones, InZone

\* Two carts are in one cluster exactly when they are in one crowded zone, and the
\* clusters keep the demand of the carts in them.
LEMMA ZonesFound == QuestionInv => ZonesAgree
<1> SUFFICES ASSUME QuestionInv, asked.about = "zones" PROVE ZonesAgree
  BY DEF ZonesAgree
<1>1. PICK carts \in Crowds : asked.carts = carts
  BY KindsAsked DEF ZonesAsked
<1> DEFINE labels == SimpleGeohashClustering(carts)
           clusters == ClusterDemandZones(carts, labels)
           Z == CrowdedZones(carts)
           Big(i) == Cardinality(InZone(carts, carts[i].zone)) >= MinSamples
           Sums == SumFunction([l \in DOMAIN clusters |-> clusters[l].demand])
                     = SumFunctionOnSet(Demands(carts), {i \in DOMAIN carts : Big(i)})
           Shares == \A i, j \in DOMAIN carts :
                 (\E l \in DOMAIN clusters : {i, j} \subseteq clusters[l].carts)
                    <=> carts[i].zone = carts[j].zone /\ Big(i)
           Gapless == DOMAIN clusters = 0 .. Cardinality(DOMAIN clusters) - 1
<1>2. /\ IsFiniteSet(DOMAIN carts) /\ Cardinality(DOMAIN carts) = Len(carts) /\ Len(carts) \in Nat
      /\ Weighs(Demands(carts), DOMAIN carts)
  BY CartsAre
<1>3. MinSamples \in Nat \ {0}
  BY SamplesAssumption DEF SamplesAssumption
<1>4. \A i \in DOMAIN carts : Big(i) <=> carts[i].zone \in Z
  BY LabelsAre DEF Crowded
<1>5. CASE Len(carts) < MinSamples
  <2>1. clusters = <<>>
    BY <1>5 DEF ClusterDemandZones
  <2>2. DOMAIN clusters = {}
    BY <2>1
  <2>3. ASSUME NEW i \in DOMAIN carts PROVE ~Big(i)
    <3>1. InZone(carts, carts[i].zone) \in SUBSET DOMAIN carts
      BY DEF InZone
    <3>2. /\ Cardinality(InZone(carts, carts[i].zone)) <= Len(carts)
          /\ Cardinality(InZone(carts, carts[i].zone)) \in Nat
      BY <1>2, <3>1, PartsCount
    <3> QED
      BY <1>2, <1>3, <1>5, <3>2
  <2>4. Cardinality({}) = 0
    BY FS_EmptySet
  <2>5. Shares /\ Gapless
    BY <2>2, <2>3, <2>4
  <2>6. Sums
    <3>1. {i \in DOMAIN carts : Big(i)} = {}
      BY <2>3
    <3>2. DOMAIN [l \in DOMAIN clusters |-> clusters[l].demand] = {}
      BY <2>2
    <3>3. IsFiniteSet({}) /\ \A w : Weighs(w, {})
      BY FS_EmptySet DEF Weighs
    <3>4. \A w : SumFunctionOnSet(w, {}) = 0
      BY <3>3, SumPick
    <3> QED
      BY <3>1, <3>2, <3>4 DEF SumFunction
  <2> HIDE DEF clusters, Big
  <2> QED
    BY <1>1, <2>5, <2>6 DEF ZonesAgree, clusters, Big
<1>6. CASE ~(Len(carts) < MinSamples)
  <2>1. DOMAIN labels = DOMAIN carts
    BY LabelsAre
  <2>2. \A i \in DOMAIN carts :
          labels[i] = IF carts[i].zone \in Z THEN LabelOf(carts, carts[i].zone) ELSE Noise
    BY LabelsAre
  <2>3. /\ IsFiniteSet(Z)
        /\ \A y, z \in Z : LabelOf(carts, y) = LabelOf(carts, z) => y = z
        /\ {LabelOf(carts, z) : z \in Z} = 0..Cardinality(Z) - 1
        /\ \A z \in Z : LabelOf(carts, z) # Noise
    BY ZonesAreNumbered
  <2>4. \A z \in Z : \E i \in DOMAIN carts : carts[i].zone = z
    BY DEF CrowdedZones, ZonesOf
  <2> DEFINE D == {labels[i] : i \in DOMAIN labels} \ {Noise}
  <2>5. D = 0..Cardinality(Z) - 1
    <3>1. D = {LabelOf(carts, z) : z \in Z}
      <4> HIDE DEF labels, Z
      <4> QED
        BY <2>1, <2>2, <2>3, <2>4
    <3> QED
      BY <2>3, <3>1
  <2>6. /\ DOMAIN clusters = D
        /\ \A l \in D : clusters[l].carts = Members(labels, l)
        /\ \A l \in D : clusters[l].demand = SumFunctionOnSet(Demands(carts), Members(labels, l))
    BY <1>6 DEF ClusterDemandZones
  <2>7. Cardinality(Z) \in Nat
    BY <2>3, FS_CardinalityType
  <2>8. IsFiniteSet(D) /\ Cardinality(D) = Cardinality(Z)
    <3>1. /\ IsFiniteSet(0..Cardinality(Z) - 1)
          /\ Cardinality(0..Cardinality(Z) - 1) = Cardinality(Z)
      BY <2>7, FS_Interval
    <3> QED
      BY <2>5, <3>1
  <2>9. Gapless
    BY <2>5, <2>6, <2>8
  <2>10. ASSUME NEW i \in DOMAIN carts PROVE labels[i] \in D <=> carts[i].zone \in Z
    BY <2>1, <2>2, <2>3
  <2>11. ASSUME NEW i \in DOMAIN carts, NEW j \in DOMAIN carts
         PROVE  (\E l \in D : i \in Members(labels, l) /\ j \in Members(labels, l))
                  <=> carts[i].zone = carts[j].zone /\ carts[i].zone \in Z
    <3>1. \A l : /\ i \in Members(labels, l) <=> labels[i] = l
                 /\ j \in Members(labels, l) <=> labels[j] = l
      BY <2>1 DEF Members
    <3>2. (\E l \in D : i \in Members(labels, l) /\ j \in Members(labels, l))
             <=> labels[i] \in D /\ labels[i] = labels[j]
      BY <3>1
    <3>3. labels[i] \in D /\ labels[i] = labels[j]
            <=> carts[i].zone = carts[j].zone /\ carts[i].zone \in Z
      <4> HIDE DEF labels, Z, D
      <4> QED
        BY <2>2, <2>3, <2>10
    <3> QED
      BY <3>2, <3>3
  <2>12. Shares
    <3>1. ASSUME NEW i \in DOMAIN carts, NEW j \in DOMAIN carts
          PROVE  (\E l \in DOMAIN clusters : {i, j} \subseteq clusters[l].carts)
                   <=> (\E l \in D : i \in Members(labels, l) /\ j \in Members(labels, l))
      <4> HIDE DEF clusters, labels, D
      <4> QED
        BY <2>6
    <3> HIDE DEF clusters, labels, D, Z, Big
    <3> QED
      BY <1>4, <2>11, <3>1
  <2>13. Sums
    <3> DEFINE v == [l \in DOMAIN clusters |-> clusters[l].demand]
               w == Demands(carts)
    <3>1. \A l \in D : v[l] = SumFunctionOnSet(w, {x \in DOMAIN carts : labels[x] = l})
      <4>1. \A l \in D : Members(labels, l) = {x \in DOMAIN carts : labels[x] = l}
        BY <2>1 DEF Members
      <4> HIDE DEF clusters, labels, D
      <4> QED
        BY <2>6, <4>1
    <3>2. SumFunctionOnSet(v, D) = SumFunctionOnSet(w, {x \in DOMAIN carts : labels[x] \in D})
      <4> HIDE DEF v, w, D, labels
      <4>1. PICK S : S = DOMAIN carts
        OBVIOUS
      <4>2. IsFiniteSet(S) /\ Weighs(w, S) /\ IsFiniteSet(D)
        BY <1>2, <2>8, <4>1 DEF w
      <4>3. Gathers(v, w, S, labels, D)
        BY <3>1, <4>1 DEF Gathers
      <4>4. SumFunctionOnSet(v, D) = SumFunctionOnSet(w, Grouped(S, labels, D))
        BY <4>2, <4>3, SumGroups
      <4> QED
        BY <4>1, <4>4 DEF Grouped
    <3>3. {x \in DOMAIN carts : labels[x] \in D} = {i \in DOMAIN carts : Big(i)}
      <4> HIDE DEF labels, D, Z, Big
      <4> QED
        BY <1>4, <2>10
    <3>4. SumFunction(v) = SumFunctionOnSet(v, D)
      BY <2>6 DEF SumFunction
    <3> QED
      BY <3>2, <3>3, <3>4
  <2> HIDE DEF clusters, Big
  <2> QED
    BY <1>1, <2>9, <2>12, <2>13 DEF ZonesAgree, clusters, Big
<1> QED
  BY <1>2, <1>3, <1>5, <1>6

-----------------------------------------------------------------------------
(* Migrations.                                                             *)

\* An order in which n cells are enumerated, each once.
Enumerates(order, n, cells) ==
    /\ order \in [1..n -> cells]
    /\ \A i, j \in 1..n : order[i] = order[j] => i = j
    /\ \A c \in cells : \E i \in 1..n : order[i] = c

\* The cells of two moments are finitely many, and an order of them takes each once.
LEMMA OrdersAre ==
  ASSUME NEW before \in Snapshots, NEW after \in Snapshots, NEW cells,
         cells = {Cell(c) : c \in Range(before) \cup Range(after)},
         NEW order \in SetToSeqs(cells)
  PROVE  \E n \in Nat : Enumerates(order, n, cells)
<1> DEFINE Of(carts) == {Cell(c) : c \in Range(carts)}
<1>1. ASSUME NEW carts \in Snapshots PROVE IsFiniteSet(Of(carts))
  <2> DEFINE f == [i \in DOMAIN carts |-> Cell(carts[i])]
  <2>1. IsFiniteSet(DOMAIN carts)
    BY CartsAre
  <2>2. f \in Surjection(DOMAIN carts, Of(carts))
    BY DEF Surjection, Range
  <2> HIDE DEF f, Of
  <2> QED
    BY <2>1, <2>2, FS_Surjection
<1>2. cells = Of(before) \cup Of(after)
  OBVIOUS
<1>3. IsFiniteSet(cells)
  <2> HIDE DEF Of
  <2> QED
    BY <1>1, <1>2, FS_Union
<1>4. PICK n \in Nat : n = Cardinality(cells)
  BY <1>3, FS_CardinalityType
<1>5. order \in [1..n -> cells] /\ \A i, j \in 1..n : order[i] = order[j] => i = j
  BY <1>4 DEF SetToSeqs
<1>6. order \in Injection(1..n, cells)
  BY <1>5 DEF Injection, IsInjective
<1>7. Cardinality(1..n) = n
  BY FS_Interval
<1>8. order \in Surjection(1..n, cells)
  BY <1>3, <1>4, <1>6, <1>7, FS_Injection
<1>9. \A c \in cells : \E i \in 1..n : order[i] = c
  BY <1>8 DEF Surjection
<1> QED
  BY <1>5, <1>9 DEF Enumerates

\* The reverse takes the cells from the last to the first.
LEMMA ReverseIs ==
  ASSUME NEW n \in Nat, NEW cells, NEW order, Enumerates(order, n, cells)
  PROVE  /\ Reverse(order) \in [1..n -> cells]
         /\ \A i \in 1..n : Reverse(order)[i] = order[n - i + 1]
         /\ \A i \in 1..n : order[i] = Reverse(order)[n - i + 1]
<1>1. order \in [1..n -> cells]
  BY DEF Enumerates
<1>2. Len(order) = n
  <2>1. order \in Seq(cells) /\ DOMAIN order = 1..n
    BY <1>1, SeqDef
  <2> QED
    BY <2>1, LenProperties
<1>3. Reverse(order) = [i \in 1..n |-> order[n - i + 1]]
  BY <1>2 DEF Reverse
<1>4. \A i \in 1..n : n - i + 1 \in 1..n /\ n - (n - i + 1) + 1 = i
  OBVIOUS
<1> QED
  BY <1>1, <1>3, <1>4

\* Neighbours of which one lost and the other gained at least the threshold.
Meets(current, previous, a, b) ==
    /\ Adjacent(a, b)
    /\ Delta(current, previous, a) <= -Threshold
    /\ Delta(current, previous, b) >= Threshold

\* The migration from one cell to another.
MoveOf(current, previous, a, b) ==
    LET lost == -Delta(current, previous, a)
        gained == Delta(current, previous, b)
    IN  [from |-> a, to |-> b, amount |-> Smaller(lost, gained),
         confidence |-> (1000 * Smaller(lost, gained)) \div Greater(lost, gained)]

\* The change of demand in each cell is a number.
Measures(current, previous, cells) == \A c \in cells : Delta(current, previous, c) \in Int

\* Found in an order is what moves from a cell to one after it.
FoundIn(found, current, previous, n, order) ==
    \A m : m \in found <=>
             \E i, j \in 1..n : /\ i < j /\ Meets(current, previous, order[i], order[j])
                                /\ m = MoveOf(current, previous, order[i], order[j])

\* Migrations are found from a cell to those after it.
LEMMA Detected ==
  ASSUME NEW n \in Nat, NEW cells, NEW order \in [1..n -> cells], NEW current, NEW previous,
         Measures(current, previous, cells)
  PROVE  FoundIn(DetectDemandMigration(current, previous, Threshold, order),
                 current, previous, n, order)
<1> DEFINE Change(i) == Delta(current, previous, order[i])
           Amount(i, j) == Min({-Change(i), Change(j)})
           Moves == {p \in (DOMAIN order) \X (DOMAIN order) :
                       /\ p[1] < p[2]
                       /\ Change(p[1]) < 0 /\ Change(p[2]) > 0
                       /\ Adjacent(order[p[1]], order[p[2]])
                       /\ Amount(p[1], p[2]) >= Threshold}
           Move(p) == [from |-> order[p[1]], to |-> order[p[2]], amount |-> Amount(p[1], p[2]),
                       confidence |-> (1000 * Amount(p[1], p[2]))
                                         \div Max({-Change(p[1]), Change(p[2])})]
<1>1. DetectDemandMigration(current, previous, Threshold, order) = {Move(p) : p \in Moves}
  BY DEF DetectDemandMigration
<1>2. Threshold \in Nat \ {0}
  BY ThresholdAssumption DEF ThresholdAssumption
<1>3. ASSUME NEW i \in 1..n, NEW j \in 1..n
      PROVE  /\ Move(<<i, j>>) = MoveOf(current, previous, order[i], order[j])
             /\ Change(i) < 0 /\ Change(j) > 0 /\ Adjacent(order[i], order[j])
                  /\ Amount(i, j) >= Threshold
                <=> Meets(current, previous, order[i], order[j])
  <2>1. Move(<<i, j>>) = MoveOf(current, previous, order[i], order[j])
    BY DEF MoveOf, Smaller, Greater
  <2>2. PICK x \in Int, y \in Int : x = Change(i) /\ y = Change(j)
    BY <1>3 DEF Measures
  <2>3. -x \in Int /\ Smaller(-x, y) = IF -x < y THEN -x ELSE y
    <3>1. -x \in Int
      OBVIOUS
    <3> QED
      BY <3>1, OneOfTwo
  <2>4. Amount(i, j) = Smaller(-x, y)
    BY <2>2 DEF Smaller
  <2>5. Meets(current, previous, order[i], order[j])
          <=> Adjacent(order[i], order[j]) /\ x <= -Threshold /\ y >= Threshold
    BY <2>2 DEF Meets
  <2>6. x < 0 /\ y > 0 /\ Smaller(-x, y) >= Threshold <=> x <= -Threshold /\ y >= Threshold
    BY <1>2, <2>3
  <2> HIDE DEF Amount, Move
  <2>7. Change(i) < 0 /\ Change(j) > 0 /\ Adjacent(order[i], order[j]) /\ Amount(i, j) >= Threshold
                <=> Meets(current, previous, order[i], order[j])
    BY <2>2, <2>4, <2>5, <2>6
  <2> QED
    BY <2>1, <2>7
<1>4. Moves = {p \in (1..n) \X (1..n) :
                 p[1] < p[2] /\ Meets(current, previous, order[p[1]], order[p[2]])}
  <2> HIDE DEF Change, Amount, Move
  <2>1. Moves = {p \in (1..n) \X (1..n) :
                  /\ p[1] < p[2]
                  /\ Change(p[1]) < 0 /\ Change(p[2]) > 0
                  /\ Adjacent(order[p[1]], order[p[2]])
                  /\ Amount(p[1], p[2]) >= Threshold}
    OBVIOUS
  <2> QED
    BY <1>3, <2>1
<1>5. ASSUME NEW m
      PROVE  (\E p \in Moves : m = Move(p)) <=>
             \E i, j \in 1..n : /\ i < j /\ Meets(current, previous, order[i], order[j])
                                /\ m = MoveOf(current, previous, order[i], order[j])
  <2>1. \A p \in Moves : /\ p[1] \in 1..n /\ p[2] \in 1..n /\ p = <<p[1], p[2]>>
                         /\ p[1] < p[2] /\ Meets(current, previous, order[p[1]], order[p[2]])
    BY <1>4
  <2>2. \A i, j \in 1..n : i < j /\ Meets(current, previous, order[i], order[j])
                              => <<i, j>> \in Moves
    BY <1>4
  <2> HIDE DEF Moves, Move
  <2>3. ASSUME NEW i \in 1..n, NEW j \in 1..n
        PROVE  Move(<<i, j>>) = MoveOf(current, previous, order[i], order[j])
    BY <1>3
  <2>4. ASSUME NEW p \in Moves, m = Move(p)
        PROVE  \E i, j \in 1..n : /\ i < j /\ Meets(current, previous, order[i], order[j])
                                  /\ m = MoveOf(current, previous, order[i], order[j])
    <3>1. PICK i \in 1..n, j \in 1..n :
            p = <<i, j>> /\ i < j /\ Meets(current, previous, order[i], order[j])
      BY <2>1
    <3> QED
      BY <2>3, <2>4, <3>1
  <2>5. ASSUME NEW i \in 1..n, NEW j \in 1..n, i < j, Meets(current, previous, order[i], order[j]),
               m = MoveOf(current, previous, order[i], order[j])
        PROVE  \E p \in Moves : m = Move(p)
    BY <2>2, <2>3, <2>5
  <2> QED
    BY <2>4, <2>5
<1> HIDE DEF Moves, Move
<1> QED
  BY <1>1, <1>5 DEF FoundIn

\* All that moves between two cells, in whatever order they come.
AllFound(found, current, previous, cells) ==
    \A m : m \in found <=>
             \E a, b \in cells : /\ Meets(current, previous, a, b)
                                 /\ m = MoveOf(current, previous, a, b)

\* What one order misses the reverse finds.
LEMMA BothWays ==
  ASSUME NEW n \in Nat, NEW cells, NEW order, Enumerates(order, n, cells),
         NEW current, NEW previous, Measures(current, previous, cells),
         NEW found, FoundIn(found, current, previous, n, order),
         NEW missed, FoundIn(missed, current, previous, n, Reverse(order))
  PROVE  /\ AllFound(found \cup missed, current, previous, cells)
         /\ Pairs(found) \cup Pairs(missed) = Complementary(current, previous, cells)
<1> DEFINE M(a, b) == Meets(current, previous, a, b)
           Move(a, b) == MoveOf(current, previous, a, b)
           back == Reverse(order)
<1>1. /\ order \in [1..n -> cells] /\ back \in [1..n -> cells]
      /\ \A i \in 1..n : back[i] = order[n - i + 1]
      /\ \A i \in 1..n : order[i] = back[n - i + 1]
      /\ \A i, j \in 1..n : order[i] = order[j] => i = j
      /\ \A c \in cells : \E i \in 1..n : order[i] = c
  <2>1. /\ Reverse(order) \in [1..n -> cells]
        /\ \A i \in 1..n : Reverse(order)[i] = order[n - i + 1]
        /\ \A i \in 1..n : order[i] = Reverse(order)[n - i + 1]
    BY ReverseIs
  <2>2. /\ order \in [1..n -> cells]
        /\ \A i, j \in 1..n : order[i] = order[j] => i = j
        /\ \A c \in cells : \E i \in 1..n : order[i] = c
    BY DEF Enumerates
  <2> QED
    BY <2>1, <2>2
<1>2. \A a, b \in cells : M(a, b) => a # b
  BY ThresholdAssumption DEF Meets, Measures, ThresholdAssumption
<1>3. \A a, b : Move(a, b).from = a /\ Move(a, b).to = b
  BY DEF MoveOf
<1>4. /\ \A m : m \in found <=>
           \E i, j \in 1..n :
             i < j /\ M(order[i], order[j]) /\ m = Move(order[i], order[j])
      /\ \A m : m \in missed <=>
           \E i, j \in 1..n :
             i < j /\ M(back[i], back[j]) /\ m = Move(back[i], back[j])
  BY DEF FoundIn
<1> HIDE DEF M, Move, back
<1>5. ASSUME NEW m, m \in found \cup missed
      PROVE  \E a, b \in cells : M(a, b) /\ m = Move(a, b)
  BY <1>1, <1>4, <1>5
<1>6. ASSUME NEW a \in cells, NEW b \in cells, M(a, b)
      PROVE  Move(a, b) \in found \cup missed
  <2>1. PICK i \in 1..n, j \in 1..n : a = order[i] /\ b = order[j]
    BY <1>1
  <2>2. i # j
    BY <1>2, <1>6, <2>1
  <2>3. CASE i < j
    BY <1>4, <1>6, <2>1, <2>3
  <2>4. CASE j < i
    <3>1. /\ n - i + 1 \in 1..n /\ n - j + 1 \in 1..n /\ n - i + 1 < n - j + 1
      BY <2>4
    <3>2. a = back[n - i + 1] /\ b = back[n - j + 1]
      BY <1>1, <2>1
    <3>3. PICK k \in 1..n, l \in 1..n : k < l /\ a = back[k] /\ b = back[l]
      BY <3>1, <3>2
    <3> QED
      BY <1>4, <1>6, <3>3
  <2> QED
    BY <2>2, <2>3, <2>4
<1>7. AllFound(found \cup missed, current, previous, cells)
  BY <1>5, <1>6 DEF AllFound, M, Move
<1>8. Pairs(found) \cup Pairs(missed) = Complementary(current, previous, cells)
  <2>1. Pairs(found) \cup Pairs(missed) = {<<m.from, m.to>> : m \in found \cup missed}
    BY DEF Pairs
  <2>2. Complementary(current, previous, cells) = {p \in cells \X cells : M(p[1], p[2])}
    BY DEF Complementary, M, Meets
  <2>3. ASSUME NEW m \in found \cup missed
        PROVE  <<m.from, m.to>> \in {p \in cells \X cells : M(p[1], p[2])}
    <3>1. PICK a \in cells, b \in cells : M(a, b) /\ m = Move(a, b)
      BY <1>5
    <3>2. m.from = a /\ m.to = b
      BY <1>3, <3>1
    <3> QED
      BY <3>1, <3>2
  <2>4. ASSUME NEW p \in cells \X cells, M(p[1], p[2])
        PROVE  \E m \in found \cup missed : p = <<m.from, m.to>>
    <3>1. PICK a \in cells, b \in cells : p = <<a, b>> /\ M(a, b)
      BY <2>4
    <3>2. Move(a, b) \in found \cup missed /\ p = <<Move(a, b).from, Move(a, b).to>>
      BY <1>3, <1>6, <3>1
    <3> QED
      BY <3>2
  <2> QED
    BY <2>1, <2>2, <2>3, <2>4
<1> QED
  BY <1>7, <1>8

\* What the carts of a cell sell.
SoldIn(carts, cell) == SumFunctionOnSet(Velocities(carts), CartsIn(carts, cell))

\* A heatmap tells of each cell what its carts sell, and of a cell without a cart
\* that nothing is sold in it.
LEMMA HeatmapTells ==
  ASSUME NEW carts \in Snapshots, NEW previous, NEW cell
  PROVE  /\ SoldIn(carts, cell) \in Nat
         /\ In(GenerateHeatmap(carts, previous), cell) = SoldIn(carts, cell)
         /\ cell \in DOMAIN GenerateHeatmap(carts, previous) =>
              GenerateHeatmap(carts, previous)[cell].trend
                = Trend(cell, SoldIn(carts, cell), previous)
         /\ cell \in DOMAIN GenerateHeatmap(carts, previous)
              <=> \E i \in DOMAIN carts : Cell(carts[i]) = cell
         /\ cell \in DOMAIN Intensity(carts) => Intensity(carts)[cell] = SoldIn(carts, cell)
<1> DEFINE S == CartsIn(carts, cell)
           w == Velocities(carts)
           zero == [i \in DOMAIN carts |-> 0]
           heatmap == GenerateHeatmap(carts, previous)
<1>1. S \in SUBSET DOMAIN carts /\ (S # {} <=> \E i \in DOMAIN carts : Cell(carts[i]) = cell)
  BY DEF CartsIn
<1>2. /\ IsFiniteSet(S) /\ Weighs(w, S)
      /\ \A i \in S : w[i] \in Nat
  BY <1>1, CartsAre, PartsCount DEF Weighs
<1>3. SoldIn(carts, cell) \in Int /\ (S = {} => SoldIn(carts, cell) = 0)
  BY <1>2, SumPick DEF SoldIn
<1>4. 0 <= SoldIn(carts, cell)
  <2>1. Weighs(zero, S) /\ \A i \in S : zero[i] <= w[i] /\ zero[i] = 0
    BY <1>1, <1>2 DEF Weighs
  <2> HIDE DEF zero, w, S
  <2>2. SumFunctionOnSet(zero, S) <= SumFunctionOnSet(w, S)
    BY <1>2, <2>1, SumGrows
  <2>3. SumFunctionOnSet(zero, S) = SumFunctionOnSet(zero, {})
    BY <1>2, <2>1, SumZeros
  <2>4. SumFunctionOnSet(zero, {}) = 0
    <3>1. IsFiniteSet({}) /\ Weighs(zero, {})
      BY FS_EmptySet DEF Weighs
    <3> QED
      BY <3>1, SumPick
  <2> QED
    BY <1>3, <2>2, <2>3, <2>4 DEF SoldIn, w, S
<1>5. /\ DOMAIN Intensity(carts) = {Cell(carts[i]) : i \in DOMAIN carts}
      /\ cell \in DOMAIN Intensity(carts) => Intensity(carts)[cell] = SoldIn(carts, cell)
  BY DEF Intensity, SoldIn
<1>6. /\ DOMAIN heatmap = DOMAIN Intensity(carts)
      /\ cell \in DOMAIN heatmap => heatmap[cell].intensity = Intensity(carts)[cell]
      /\ cell \in DOMAIN heatmap =>
           heatmap[cell].trend = Trend(cell, Intensity(carts)[cell], previous)
  BY DEF GenerateHeatmap
<1>7. cell \in DOMAIN heatmap <=> \E i \in DOMAIN carts : Cell(carts[i]) = cell
  BY <1>5, <1>6
<1>8. In(heatmap, cell) = SoldIn(carts, cell)
  <2>1. CASE cell \in DOMAIN heatmap
    BY <1>5, <1>6, <2>1 DEF In
  <2>2. CASE cell \notin DOMAIN heatmap
    <3>1. SoldIn(carts, cell) = 0
      BY <1>1, <1>3, <1>7, <2>2
    <3> QED
      BY <2>2, <3>1 DEF In
  <2> QED
    BY <2>1, <2>2
<1> QED
  BY <1>3, <1>4, <1>5, <1>6, <1>7, <1>8

\* A cart that alone moves to a cell next door takes what it sells with it.
LEMMA MoverTakes ==
  ASSUME NEW before \in Snapshots, NEW after \in Snapshots, NEW i, MovedAlone(before, after, i)
  PROVE  /\ i \in DOMAIN before /\ i \in DOMAIN after /\ before[i].velocity \in Nat
         /\ Cell(before[i]) # Cell(after[i]) /\ Adjacent(Cell(before[i]), Cell(after[i]))
         /\ SoldIn(before, Cell(before[i]))
              = before[i].velocity + SoldIn(after, Cell(before[i]))
         /\ SoldIn(after, Cell(after[i]))
              = before[i].velocity + SoldIn(before, Cell(after[i]))
         /\ \A c : c # Cell(before[i]) /\ c # Cell(after[i]) => SoldIn(after, c) = SoldIn(before, c)
<1> DEFINE a == Cell(before[i])
           b == Cell(after[i])
           D == DOMAIN before
           u == Velocities(before)
           w == Velocities(after)
<1>1. /\ i \in D /\ after[i] # before[i]
      /\ after[i] = [before[i] EXCEPT !.cell = after[i].cell]
      /\ \A j \in D \ {i} : after[j] = before[j]
  BY DEF MovedAlone
<1>2. DOMAIN after = D
  BY CartsAre DEF MovedAlone
<1>3. /\ IsFiniteSet(D) /\ Weighs(u, D) /\ Weighs(w, D)
      /\ \A j \in D : /\ u[j] = before[j].velocity /\ before[j].velocity \in Nat
                      /\ w[j] = after[j].velocity
  BY <1>2, CartsAre
<1>4. before[i] = [zone |-> before[i].zone, cell |-> before[i].cell,
                   velocity |-> before[i].velocity, demand |-> before[i].demand]
  <2>1. before[i] \in Range(before)
    BY <1>1 DEF Range
  <2> QED
    BY <2>1, CartsAssumption DEF CartsAssumption
<1>5. /\ after[i].zone = before[i].zone /\ after[i].velocity = before[i].velocity
      /\ after[i].cell # before[i].cell
  BY <1>1, <1>4
<1>6. a # b /\ Adjacent(a, b)
  BY <1>5 DEF Cell, Adjacent, Zone
<1>7. \A j \in D : u[j] = w[j]
  BY <1>1, <1>3, <1>5
<1>8. /\ \A c : c # a /\ c # b => CartsIn(after, c) = CartsIn(before, c)
      /\ CartsIn(before, a) = CartsIn(after, a) \cup {i} /\ i \notin CartsIn(after, a)
      /\ CartsIn(after, b) = CartsIn(before, b) \cup {i} /\ i \notin CartsIn(before, b)
  <2>1. \A j \in D : j # i => Cell(after[j]) = Cell(before[j])
    BY <1>1
  <2> QED
    BY <1>1, <1>2, <1>6, <2>1 DEF CartsIn
<1>9. \A c : /\ CartsIn(after, c) \in SUBSET D /\ CartsIn(before, c) \in SUBSET D
  BY <1>2 DEF CartsIn
<1>10. \A T \in SUBSET D : IsFiniteSet(T) /\ Weighs(u, T) /\ Weighs(w, T)
  BY <1>3, PartsCount DEF Weighs
<1>11. ASSUME NEW T \in SUBSET D PROVE SumFunctionOnSet(u, T) = SumFunctionOnSet(w, T)
  <2> HIDE DEF u, w, D
  <2>1. IsFiniteSet(T) /\ Weighs(w, T) /\ \A x \in T : u[x] = w[x]
    BY <1>7, <1>10
  <2> QED
    BY <2>1, SumAlike
<1>12. ASSUME NEW T \in SUBSET D, i \notin T
       PROVE  SumFunctionOnSet(u, T \cup {i}) = u[i] + SumFunctionOnSet(u, T)
  <2> HIDE DEF u, w, D
  <2>1. IsFiniteSet(T) /\ Weighs(u, T \cup {i})
    BY <1>1, <1>10
  <2> QED
    BY <1>12, <2>1, SumInsert
<1>13. SumFunctionOnSet(u, CartsIn(before, a)) = u[i] + SumFunctionOnSet(w, CartsIn(after, a))
  <2>1. SumFunctionOnSet(u, CartsIn(after, a) \cup {i})
          = u[i] + SumFunctionOnSet(u, CartsIn(after, a))
    BY <1>8, <1>9, <1>12
  <2> QED
    BY <1>8, <1>9, <1>11, <2>1
<1>14. SumFunctionOnSet(w, CartsIn(after, b)) = u[i] + SumFunctionOnSet(u, CartsIn(before, b))
  <2>1. SumFunctionOnSet(u, CartsIn(before, b) \cup {i})
          = u[i] + SumFunctionOnSet(u, CartsIn(before, b))
    BY <1>8, <1>9, <1>12
  <2>2. SumFunctionOnSet(w, CartsIn(after, b)) = SumFunctionOnSet(u, CartsIn(after, b))
    BY <1>9, <1>11
  <2> QED
    BY <1>8, <2>1, <2>2
<1>15. ASSUME NEW c, c # a, c # b
       PROVE  SumFunctionOnSet(w, CartsIn(after, c)) = SumFunctionOnSet(u, CartsIn(before, c))
  BY <1>8, <1>9, <1>11, <1>15
<1>16. u[i] = before[i].velocity /\ before[i].velocity \in Nat
  BY <1>1, <1>3
<1> HIDE DEF u, w
<1> QED
  BY <1>1, <1>2, <1>6, <1>13, <1>14, <1>15, <1>16 DEF SoldIn, u, w

\* What is found of a cart that alone moves next door is its move, with all that
\* it sells, if that is enough.
LEMMA MoverFound ==
  ASSUME NEW before \in Snapshots, NEW after \in Snapshots, NEW i, MovedAlone(before, after, i),
         NEW cells, Cell(before[i]) \in cells, Cell(after[i]) \in cells,
         NEW previous, previous = GenerateHeatmap(before, <<>>),
         NEW current, current = GenerateHeatmap(after, Intensity(before)),
         NEW all, AllFound(all, current, previous, cells)
  PROVE  /\ all = IF before[i].velocity < Threshold THEN {}
                  ELSE {[from |-> Cell(before[i]), to |-> Cell(after[i]),
                         amount |-> before[i].velocity, confidence |-> 1000]}
         /\ Cell(before[i]) \in DOMAIN current => current[Cell(before[i])].trend # "rising"
         /\ current[Cell(after[i])].trend # "falling"
<1> DEFINE a == Cell(before[i])
           b == Cell(after[i])
<1>1. PICK v \in Nat : v = before[i].velocity
  BY MoverTakes
<1>2. /\ i \in DOMAIN before /\ i \in DOMAIN after
      /\ a # b /\ Adjacent(a, b)
      /\ SoldIn(before, a) = v + SoldIn(after, a)
      /\ SoldIn(after, b) = v + SoldIn(before, b)
      /\ \A c : c # a /\ c # b => SoldIn(after, c) = SoldIn(before, c)
  BY <1>1, MoverTakes
<1>3. ASSUME NEW c
      PROVE  /\ Delta(current, previous, c) = SoldIn(after, c) - SoldIn(before, c)
             /\ SoldIn(after, c) \in Nat /\ SoldIn(before, c) \in Nat
  BY HeatmapTells DEF Delta
<1>4. /\ Delta(current, previous, a) = -v /\ Delta(current, previous, b) = v
      /\ \A c : c # a /\ c # b => Delta(current, previous, c) = 0
  <2> HIDE DEF a, b
  <2>1. /\ SoldIn(after, a) \in Nat /\ SoldIn(before, a) \in Nat
        /\ SoldIn(after, b) \in Nat /\ SoldIn(before, b) \in Nat
    BY <1>3
  <2>2. Delta(current, previous, a) = -v /\ Delta(current, previous, b) = v
    BY <1>2, <1>3, <2>1
  <2>3. ASSUME NEW c, c # a, c # b PROVE Delta(current, previous, c) = 0
    BY <1>2, <1>3, <2>3
  <2> QED
    BY <2>2, <2>3
<1>5. Threshold \in Nat \ {0}
  BY ThresholdAssumption DEF ThresholdAssumption
<1>6. ASSUME NEW c, NEW d
      PROVE  Meets(current, previous, c, d) <=> c = a /\ d = b /\ ~(v < Threshold)
  <2> HIDE DEF a, b
  <2>1. /\ Delta(current, previous, c) <= -Threshold <=> c = a /\ ~(v < Threshold)
        /\ Delta(current, previous, d) >= Threshold <=> d = b /\ ~(v < Threshold)
    BY <1>2, <1>4, <1>5
  <2> QED
    BY <1>2, <2>1 DEF Meets
<1>7. ~(v < Threshold) =>
        MoveOf(current, previous, a, b) = [from |-> a, to |-> b, amount |-> v, confidence |-> 1000]
  <2>1. Smaller(v, v) = v /\ Greater(v, v) = v
    BY OneOfTwo
  <2>2. ~(v < Threshold) => (1000 * v) \div v = 1000
    BY <1>5
  <2>3. -(-v) = v
    OBVIOUS
  <2> HIDE DEF a, b
  <2> QED
    BY <1>4, <2>1, <2>2, <2>3 DEF MoveOf
<1>8. all = IF v < Threshold THEN {}
            ELSE {[from |-> a, to |-> b, amount |-> v, confidence |-> 1000]}
  <2>1. \A m : m \in all <=> \E c, d \in cells : /\ Meets(current, previous, c, d)
                                                 /\ m = MoveOf(current, previous, c, d)
    BY DEF AllFound
  <2>2. a \in cells /\ b \in cells
    OBVIOUS
  <2> HIDE DEF a, b
  <2>3. \A m : m \in all <=> ~(v < Threshold) /\ m = MoveOf(current, previous, a, b)
    BY <1>6, <2>1, <2>2
  <2> QED
    BY <1>7, <2>3
<1>9. a \in DOMAIN current => current[a].trend # "rising"
  <2> SUFFICES ASSUME a \in DOMAIN current PROVE current[a].trend # "rising"
    OBVIOUS
  <2>1. current[a].trend = Trend(a, SoldIn(after, a), Intensity(before))
    BY HeatmapTells
  <2>2. a \in DOMAIN Intensity(before) => Intensity(before)[a] = SoldIn(before, a)
    BY HeatmapTells
  <2>3. PICK x \in Nat : x = SoldIn(after, a)
    BY <1>3
  <2>4. ~(5 * x > 6 * (v + x))
    OBVIOUS
  <2> HIDE DEF a
  <2> QED
    BY <1>2, <2>1, <2>2, <2>3, <2>4 DEF Trend
<1>10. current[b].trend # "falling"
  <2>1. b \in DOMAIN current
    BY <1>2, HeatmapTells
  <2>2. current[b].trend = Trend(b, SoldIn(after, b), Intensity(before))
    BY <2>1, HeatmapTells
  <2>3. b \in DOMAIN Intensity(before) => Intensity(before)[b] = SoldIn(before, b)
    BY HeatmapTells
  <2>4. PICK x \in Nat : x = SoldIn(before, b)
    BY <1>3
  <2>5. ~(5 * (v + x) < 4 * x)
    OBVIOUS
  <2> HIDE DEF b
  <2> QED
    BY <1>2, <2>2, <2>3, <2>4, <2>5 DEF Trend
<1> QED
  BY <1>1, <1>8, <1>9, <1>10

\* Migrations are found only between neighbours of which one lost and the other
\* gained the threshold, and each in an order or in its reverse.
LEMMA MigrationsFound == QuestionInv => MigrationsAgree
<1> SUFFICES ASSUME QuestionInv, asked.about = "migrations" PROVE MigrationsAgree
  BY DEF MigrationsAgree
<1>1. PICK before \in Snapshots, after \in Snapshots :
        /\ asked.before = before /\ asked.after = after
        /\ asked.order \in SetToSeqs({Cell(c) : c \in Range(before) \cup Range(after)})
  <2>1. PICK before \in Snapshots, after \in Snapshots :
          \E order \in SetToSeqs({Cell(c) : c \in Range(before) \cup Range(after)}) :
            asked = [about |-> "migrations", before |-> before, after |-> after, order |-> order]
    BY KindsAsked DEF MigrationsAsked
  <2>2. PICK order \in SetToSeqs({Cell(c) : c \in Range(before) \cup Range(after)}) :
          asked = [about |-> "migrations", before |-> before, after |-> after, order |-> order]
    BY <2>1
  <2>3. asked.before = before /\ asked.after = after /\ asked.order = order
    BY <2>2
  <2> QED
    BY <2>3
<1>2. PICK cells : cells = {Cell(c) : c \in Range(before) \cup Range(after)}
  OBVIOUS
<1>3. PICK order \in SetToSeqs(cells) : order = asked.order
  BY <1>1, <1>2
<1>4. PICK n \in Nat : Enumerates(order, n, cells)
  BY <1>2, <1>3, OrdersAre
<1>5. PICK previous, current :
        /\ previous = GenerateHeatmap(before, <<>>)
        /\ current = GenerateHeatmap(after, Intensity(before))
  OBVIOUS
<1>6. Measures(current, previous, cells)
  <2>1. ASSUME NEW c PROVE Delta(current, previous, c) \in Int
    <3>1. /\ In(current, c) = SoldIn(after, c) /\ SoldIn(after, c) \in Nat
          /\ In(previous, c) = SoldIn(before, c) /\ SoldIn(before, c) \in Nat
      BY <1>5, HeatmapTells
    <3> QED
      BY <3>1 DEF Delta
  <2> QED
    BY <2>1 DEF Measures
<1>7. PICK found, missed :
        /\ found = DetectDemandMigration(current, previous, Threshold, order)
        /\ missed = DetectDemandMigration(current, previous, Threshold, Reverse(order))
  OBVIOUS
<1>8. FoundIn(found, current, previous, n, order)
  <2>1. order \in [1..n -> cells]
    BY <1>4 DEF Enumerates
  <2> QED
    BY <1>6, <1>7, <2>1, Detected
<1>9. FoundIn(missed, current, previous, n, Reverse(order))
  <2>1. Reverse(order) \in [1..n -> cells]
    BY <1>4, ReverseIs
  <2> QED
    BY <1>6, <1>7, <2>1, Detected
<1>10. /\ AllFound(found \cup missed, current, previous, cells)
       /\ Pairs(found) \cup Pairs(missed) = Complementary(current, previous, cells)
  BY <1>4, <1>6, <1>8, <1>9, BothWays
<1>11. Range(order) = cells
  BY <1>4 DEF Enumerates, Range
<1>12. ASSUME NEW i \in DOMAIN before, MovedAlone(before, after, i)
       PROVE  /\ found \cup missed =
                   IF before[i].velocity < Threshold THEN {}
                   ELSE {[from |-> Cell(before[i]), to |-> Cell(after[i]),
                          amount |-> before[i].velocity, confidence |-> 1000]}
              /\ Cell(before[i]) \in DOMAIN current => current[Cell(before[i])].trend # "rising"
              /\ current[Cell(after[i])].trend # "falling"
  <2>1. i \in DOMAIN after
    BY <1>12, MoverTakes
  <2>2. Cell(before[i]) \in cells /\ Cell(after[i]) \in cells
    BY <1>2, <2>1 DEF Range
  <2>3. PICK all : all = found \cup missed
    OBVIOUS
  <2>4. AllFound(all, current, previous, cells)
    BY <1>10, <2>3
  <2>5. MovedAlone(before, after, i)
    BY <1>12
  <2>6. /\ previous = GenerateHeatmap(before, <<>>)
        /\ current = GenerateHeatmap(after, Intensity(before))
    BY <1>5
  <2>7. all = IF before[i].velocity < Threshold THEN {}
              ELSE {[from |-> Cell(before[i]), to |-> Cell(after[i]),
                     amount |-> before[i].velocity, confidence |-> 1000]}
    BY <2>2, <2>4, <2>5, <2>6, MoverFound
  <2>8. /\ Cell(before[i]) \in DOMAIN current => current[Cell(before[i])].trend # "rising"
        /\ current[Cell(after[i])].trend # "falling"
    BY <2>2, <2>4, <2>5, <2>6, MoverFound
  <2> QED
    BY <2>3, <2>7, <2>8
<1> QED
  BY <1>1, <1>3, <1>5, <1>7, <1>10, <1>11, <1>12 DEF MigrationsAgree

\* What the demand swarm finds is there.
LEMMA SwarmKeeps == QuestionInv => SwarmAgrees
BY MigrationsFound, ZonesFound DEF SwarmAgrees
=============================================================================
