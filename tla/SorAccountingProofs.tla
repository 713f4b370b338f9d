------------------------- MODULE SorAccountingProofs -------------------------
(***************************************************************************)
(* Proofs about what the router adds up: executions, fills, what is still  *)
(* open at the venues, positions.  First come facts about the sums of the  *)
(* community modules, each by a minimal counterexample; the library's      *)
(* induction rules are not needed.                                         *)
(***************************************************************************)
EXTENDS SorGatewayProofs, FiniteSetTheorems, WellFoundedInduction

-----------------------------------------------------------------------------
(* Sums over finite sets.                                                  *)

(* g adds up f over the subsets of T: whichever element is added last. *)
AddsUp(g, f, T) ==
    /\ g \in [SUBSET T -> Int]
    /\ g[{}] = 0
    /\ \A U \in SUBSET T : \A x \in U : g[U] = f[x] + g[U \ {x}]

(* A nonempty set of finite subsets of T has a member none of whose proper  *)
(* subsets is in it.                                                        *)
LEMMA MinimalSet ==
  ASSUME NEW T, IsFiniteSet(T), NEW bad \in SUBSET (SUBSET T), bad # {}
  PROVE  \E U \in bad : \A V \in bad : ~(V \subseteq U /\ V # U)
<1>1. FiniteSubsetsOf(T) = SUBSET T
  BY FS_FiniteSubsetsOfFinite
<1>2. IsWellFoundedOn(StrictSubsetOrdering(T), SUBSET T)
  BY <1>1, FS_StrictSubsetOrderingWellFounded
<1>3. \E U \in bad : \A V \in bad : ~(<<V, U>> \in StrictSubsetOrdering(T))
  <2> DEFINE R == StrictSubsetOrdering(T)
             D == SUBSET T
  <2>1. IsWellFoundedOn(R, D) /\ bad \subseteq D
    BY <1>2
  <2> HIDE DEF R, D
  <2>2. \E x \in bad : \A y \in bad : ~ (<<y, x>> \in R)
    BY <2>1, WFMin
  <2>. QED
    BY <2>2 DEF R
<1>4. ASSUME NEW U \in bad, NEW V \in bad, V \subseteq U, V # U
      PROVE  <<V, U>> \in StrictSubsetOrdering(T)
  BY <1>4 DEF StrictSubsetOrdering
<1>. QED
  BY <1>3, <1>4

(* Every function on a finite set can be added up. *)
LEMMA SumExists ==
  ASSUME NEW T, IsFiniteSet(T), NEW f, \A x \in T : f[x] \in Int
  PROVE  \E g : AddsUp(g, f, T)
<1> DEFINE bad == {U \in SUBSET T : ~\E g : AddsUp(g, f, U)}
<1>1. SUFFICES ASSUME bad # {} PROVE FALSE
  OBVIOUS
<1>2. PICK U \in bad : \A V \in bad : ~(V \subseteq U /\ V # U)
  <2>1. bad \in SUBSET (SUBSET T)
    OBVIOUS
  <2> HIDE DEF bad
  <2>. QED
    BY <1>1, <2>1, MinimalSet
<1>3. CASE U = {}
  <2> DEFINE h == [V \in SUBSET U |-> 0]
  <2>1. AddsUp(h, f, U)
    BY <1>3 DEF AddsUp
  <2>. QED
    BY <2>1
<1>4. CASE U # {}
  <2>1. PICK x : x \in U
    BY <1>4
  <2> DEFINE W == U \ {x}
  <2>2. W \in SUBSET T /\ W \notin bad
    BY <2>1, <1>2
  <2>3. PICK g : AddsUp(g, f, W)
    BY <2>2
  <2> DEFINE h == [V \in SUBSET U |-> IF x \in V THEN f[x] + g[V \ {x}] ELSE g[V]]
  <2>4. f[x] \in Int
    BY <2>1
  <2>5. \A V \in SUBSET U : V \ {x} \in SUBSET W /\ (x \notin V => V \in SUBSET W)
    OBVIOUS
  <2>6. h \in [SUBSET U -> Int]
    BY <2>3, <2>4, <2>5 DEF AddsUp
  <2>7. h[{}] = 0
    BY <2>3 DEF AddsUp
  <2>8. ASSUME NEW V \in SUBSET U, NEW y \in V
        PROVE  h[V] = f[y] + h[V \ {y}]
    <3>0. V \ {y} \in SUBSET U /\ h[V \ {y}] = IF x \in V \ {y} THEN f[x] + g[(V \ {y}) \ {x}] ELSE g[V \ {y}]
      OBVIOUS
    <3>1. CASE y = x
      BY <3>0, <3>1
    <3>2. CASE y # x /\ x \in V
      <4>1. h[V] = f[x] + g[V \ {x}] /\ h[V \ {y}] = f[x] + g[(V \ {y}) \ {x}]
        BY <3>0, <3>2
      <4>2. (V \ {x}) \ {y} = (V \ {y}) \ {x} /\ y \in V \ {x} /\ V \ {x} \in SUBSET W
        BY <3>2, <2>5
      <4>3. g[V \ {x}] = f[y] + g[(V \ {y}) \ {x}]
        <5>1. g[V \ {x}] = f[y] + g[(V \ {x}) \ {y}]
          BY <4>2, <2>3 DEF AddsUp
        <5>. QED
          BY <5>1, <4>2
      <4>4. f[y] \in Int /\ g[(V \ {y}) \ {x}] \in Int
        BY <4>2, <2>3 DEF AddsUp
      <4> HIDE DEF h
      <4>. QED
        BY <4>1, <4>3, <4>4, <2>4
    <3>3. CASE x \notin V
      BY <3>0, <3>3, <2>3, <2>5 DEF AddsUp
    <3>. QED
      BY <3>1, <3>2, <3>3
  <2>9. AddsUp(h, f, U)
    <3> HIDE DEF h
    <3>. QED
      BY <2>6, <2>7, <2>8 DEF AddsUp
  <2>. QED
    BY <2>9
<1>. QED
  BY <1>3, <1>4

(* What a function adds up to is what the fold of the library computes. *)
LEMMA SumIsFold ==
  ASSUME NEW T, IsFiniteSet(T), NEW f, NEW g, AddsUp(g, f, T)
  PROVE  SumFunctionOnSet(f, T) = g[T]
<1> DEFINE Def(h) == h = [s \in SUBSET T |-> IF s = {} THEN 0
                             ELSE f[CHOOSE x \in s : TRUE] + h[s \ {CHOOSE x \in s : TRUE}]]
           iter == CHOOSE h : Def(h)
<1>1. SumFunctionOnSet(f, T) = iter[T]
  BY DEF SumFunctionOnSet, FoldFunctionOnSet, MapThenFoldSet
<1>2. Def(g)
  <2>1. ASSUME NEW s \in SUBSET T, s # {}
        PROVE  g[s] = f[CHOOSE x \in s : TRUE] + g[s \ {CHOOSE x \in s : TRUE}]
    <3>1. (CHOOSE x \in s : TRUE) \in s
      BY <2>1
    <3>. QED
      BY <3>1 DEF AddsUp
  <2>2. g \in [SUBSET T -> Int] /\ g[{}] = 0
    BY DEF AddsUp
  <2>. QED
    BY <2>1, <2>2
<1>3. Def(iter)
  <2> HIDE DEF Def
  <2>. QED
    BY <1>2
<1>4. /\ iter[{}] = 0
      /\ \A s \in SUBSET T : s # {} => iter[s] = f[CHOOSE x \in s : TRUE] + iter[s \ {CHOOSE x \in s : TRUE}]
  <2> HIDE DEF iter
  <2>. QED
    BY <1>3
<1> HIDE DEF Def, iter
<1> DEFINE bad == {U \in SUBSET T : iter[U] # g[U]}
<1>5. SUFFICES ASSUME bad # {} PROVE FALSE
  BY <1>1
<1>6. PICK U \in bad : \A V \in bad : ~(V \subseteq U /\ V # U)
  <2>1. bad \in SUBSET (SUBSET T)
    OBVIOUS
  <2> HIDE DEF bad
  <2>. QED
    BY <1>5, <2>1, MinimalSet
<1>7. U \in SUBSET T /\ iter[U] # g[U]
  OBVIOUS
<1>8. U # {}
  BY <1>7, <1>4 DEF AddsUp
<1>9. PICK x \in U : x = CHOOSE z \in U : TRUE
  BY <1>8
<1>10. iter[U] = f[x] + iter[U \ {x}]
  BY <1>4, <1>7, <1>8, <1>9
<1>11. g[U] = f[x] + g[U \ {x}]
  BY <1>7 DEF AddsUp
<1>12. U \ {x} \in SUBSET T /\ U \ {x} \notin bad
  BY <1>6, <1>7
<1>. QED
  BY <1>7, <1>10, <1>11, <1>12

-----------------------------------------------------------------------------
(* Facts about sums over finite sets.                                       *)

LEMMA SumEmpty == ASSUME NEW f PROVE SumFunctionOnSet(f, {}) = 0
<1>1. IsFiniteSet({})
  BY FS_EmptySet
<1>2. AddsUp([V \in SUBSET {} |-> 0], f, {})
  BY DEF AddsUp
<1>3. SumFunctionOnSet(f, {}) = [V \in SUBSET {} |-> 0][{}]
  BY <1>1, <1>2, SumIsFold
<1>. QED
  BY <1>3

LEMMA SumInt ==
  ASSUME NEW S, IsFiniteSet(S), NEW f, \A x \in S : f[x] \in Int
  PROVE  SumFunctionOnSet(f, S) \in Int
<1>1. PICK g : AddsUp(g, f, S)
  BY SumExists
<1>2. g[S] \in Int
  BY <1>1 DEF AddsUp
<1>. QED
  BY <1>1, <1>2, SumIsFold

(* One element is taken out of a sum. *)
LEMMA SumTake ==
  ASSUME NEW S, IsFiniteSet(S), NEW f, \A y \in S : f[y] \in Int, NEW x \in S
  PROVE  /\ SumFunctionOnSet(f, S) = f[x] + SumFunctionOnSet(f, S \ {x})
         /\ SumFunctionOnSet(f, S \ {x}) \in Int
<1> DEFINE W == S \ {x}
<1>1. PICK g : AddsUp(g, f, S)
  BY SumExists
<1>2. IsFiniteSet(W)
  BY FS_Difference
<1> DEFINE h == [U \in SUBSET W |-> g[U]]
<1>3. AddsUp(h, f, W)
  <2>1. h \in [SUBSET W -> Int] /\ h[{}] = 0
    BY <1>1 DEF AddsUp
  <2>2. ASSUME NEW U \in SUBSET W, NEW y \in U PROVE h[U] = f[y] + h[U \ {y}]
    <3>1. U \in SUBSET S /\ U \ {y} \in SUBSET W
      OBVIOUS
    <3>2. g[U] = f[y] + g[U \ {y}]
      BY <3>1, <1>1 DEF AddsUp
    <3>. QED
      BY <3>1, <3>2
  <2> HIDE DEF h, W
  <2>. QED
    BY <2>1, <2>2 DEF AddsUp
<1>4. SumFunctionOnSet(f, S) = g[S]
  BY <1>1, SumIsFold
<1>5. SumFunctionOnSet(f, W) = h[W]
  <2> HIDE DEF h, W
  <2>. QED
    BY <1>2, <1>3, SumIsFold
<1>6. g[S] = f[x] + g[W] /\ g[W] \in Int
  BY <1>1 DEF AddsUp
<1>. QED
  BY <1>4, <1>5, <1>6

(* One element is added to a sum. *)
LEMMA SumAdd ==
  ASSUME NEW S, IsFiniteSet(S), NEW f, NEW x, x \notin S, \A y \in S \cup {x} : f[y] \in Int
  PROVE  SumFunctionOnSet(f, S \cup {x}) = f[x] + SumFunctionOnSet(f, S)
<1> DEFINE W == S \cup {x}
<1>1. IsFiniteSet(W)
  BY FS_AddElement
<1>2. x \in W /\ W \ {x} = S
  OBVIOUS
<1>3. \A y \in W : f[y] \in Int
  OBVIOUS
<1> HIDE DEF W
<1>4. SumFunctionOnSet(f, W) = f[x] + SumFunctionOnSet(f, W \ {x})
  BY <1>1, <1>2, <1>3, SumTake
<1>. QED
  BY <1>2, <1>4 DEF W

(* Functions that agree on a set have one sum over it. *)
LEMMA SumSame ==
  ASSUME NEW S, IsFiniteSet(S), NEW f, NEW h, \A x \in S : f[x] \in Int /\ h[x] = f[x]
  PROVE  SumFunctionOnSet(h, S) = SumFunctionOnSet(f, S)
<1>1. PICK g : AddsUp(g, f, S)
  BY SumExists
<1>2. AddsUp(g, h, S)
  BY <1>1 DEF AddsUp
<1>. QED
  BY <1>1, <1>2, SumIsFold

(* One value changes, and the sum with it. *)
LEMMA SumChange ==
  ASSUME NEW S, IsFiniteSet(S), NEW f, NEW h, NEW x \in S,
         \A y \in S : f[y] \in Int, h[x] \in Int, \A y \in S : y # x => h[y] = f[y]
  PROVE  SumFunctionOnSet(h, S) = SumFunctionOnSet(f, S) - f[x] + h[x]
<1> DEFINE W == S \ {x}
<1>1. SumFunctionOnSet(f, S) = f[x] + SumFunctionOnSet(f, W) /\ SumFunctionOnSet(f, W) \in Int
  BY SumTake
<1>2. \A y \in S : h[y] \in Int
  OBVIOUS
<1>3. SumFunctionOnSet(h, S) = h[x] + SumFunctionOnSet(h, W)
  BY <1>2, SumTake
<1>4. IsFiniteSet(W) /\ \A y \in W : f[y] \in Int /\ h[y] = f[y]
  BY FS_Difference
<1> HIDE DEF W
<1>5. SumFunctionOnSet(h, W) = SumFunctionOnSet(f, W)
  BY <1>4, SumSame
<1>6. f[x] \in Int
  OBVIOUS
<1>. QED
  BY <1>1, <1>3, <1>5, <1>6

(* The sum of a sum of two functions. *)
LEMMA SumPlus ==
  ASSUME NEW S, IsFiniteSet(S), NEW f, NEW h, NEW k,
         \A x \in S : f[x] \in Int /\ h[x] \in Int /\ k[x] = f[x] + h[x]
  PROVE  SumFunctionOnSet(k, S) = SumFunctionOnSet(f, S) + SumFunctionOnSet(h, S)
<1>1. PICK g1 : AddsUp(g1, f, S)
  BY SumExists
<1>2. PICK g2 : AddsUp(g2, h, S)
  BY SumExists
<1> DEFINE g == [U \in SUBSET S |-> g1[U] + g2[U]]
<1>3. AddsUp(g, k, S)
  <2>1. g \in [SUBSET S -> Int] /\ g[{}] = 0
    BY <1>1, <1>2 DEF AddsUp
  <2>2. ASSUME NEW U \in SUBSET S, NEW x \in U PROVE g[U] = k[x] + g[U \ {x}]
    <3>1. g[U] = g1[U] + g2[U] /\ g[U \ {x}] = g1[U \ {x}] + g2[U \ {x}]
      OBVIOUS
    <3>2. g1[U] = f[x] + g1[U \ {x}] /\ g2[U] = h[x] + g2[U \ {x}]
      BY <1>1, <1>2 DEF AddsUp
    <3>3. g1[U \ {x}] \in Int /\ g2[U \ {x}] \in Int
      BY <1>1, <1>2 DEF AddsUp
    <3>4. f[x] \in Int /\ h[x] \in Int /\ k[x] = f[x] + h[x]
      OBVIOUS
    <3> HIDE DEF g
    <3>. QED
      BY <3>1, <3>2, <3>3, <3>4
  <2> HIDE DEF g
  <2>. QED
    BY <2>1, <2>2 DEF AddsUp
<1>4. /\ SumFunctionOnSet(f, S) = g1[S] /\ SumFunctionOnSet(h, S) = g2[S]
      /\ SumFunctionOnSet(k, S) = g[S]
  <2> HIDE DEF g
  <2>. QED
    BY <1>1, <1>2, <1>3, SumIsFold
<1>. QED
  BY <1>4

(* A sum of zeros, and one with a single value that may differ from zero. *)
LEMMA SumZero ==
  ASSUME NEW S, IsFiniteSet(S), NEW f, \A x \in S : f[x] = 0
  PROVE  SumFunctionOnSet(f, S) = 0
<1> DEFINE g == [U \in SUBSET S |-> 0]
<1>1. AddsUp(g, f, S)
  BY DEF AddsUp
<1>2. SumFunctionOnSet(f, S) = g[S]
  <2> HIDE DEF g
  <2>. QED
    BY <1>1, SumIsFold
<1>. QED
  BY <1>2

LEMMA SumOne ==
  ASSUME NEW S, IsFiniteSet(S), NEW f, NEW x \in S, f[x] \in Int, \A y \in S : y # x => f[y] = 0
  PROVE  SumFunctionOnSet(f, S) = f[x]
<1>1. \A y \in S : f[y] \in Int
  OBVIOUS
<1>2. IsFiniteSet(S \ {x}) /\ \A y \in S \ {x} : f[y] = 0
  BY FS_Difference
<1>3. SumFunctionOnSet(f, S \ {x}) = 0
  BY <1>2, SumZero
<1>4. SumFunctionOnSet(f, S) = f[x] + SumFunctionOnSet(f, S \ {x})
  BY <1>1, SumTake
<1>. QED
  BY <1>3, <1>4

(* A sum of numbers that are not negative is none, and bounds each. *)
LEMMA SumNat ==
  ASSUME NEW S, IsFiniteSet(S), NEW f, \A x \in S : f[x] \in Nat
  PROVE  SumFunctionOnSet(f, S) \in Nat
<1>1. PICK g : AddsUp(g, f, S)
  <2>1. \A x \in S : f[x] \in Int
    OBVIOUS
  <2>. QED
    BY <2>1, SumExists
<1> DEFINE bad == {U \in SUBSET S : g[U] \notin Nat}
<1>2. SUFFICES ASSUME bad # {} PROVE FALSE
  BY <1>1, SumIsFold
<1>3. PICK U \in bad : \A V \in bad : ~(V \subseteq U /\ V # U)
  <2>1. bad \in SUBSET (SUBSET S)
    OBVIOUS
  <2> HIDE DEF bad
  <2>. QED
    BY <1>2, <2>1, MinimalSet
<1>4. U # {}
  <2>1. g[U] \notin Nat /\ g[{}] \in Nat
    BY <1>1 DEF AddsUp
  <2>. QED
    BY <2>1
<1>5. PICK x : x \in U
  BY <1>4
<1>6. U \ {x} \notin bad /\ U \ {x} \in SUBSET S
  BY <1>3, <1>5
<1>7. g[U] = f[x] + g[U \ {x}]
  BY <1>1, <1>5 DEF AddsUp
<1>8. f[x] \in Nat
  BY <1>5
<1>. QED
  BY <1>6, <1>7, <1>8

LEMMA SumAtLeast ==
  ASSUME NEW S, IsFiniteSet(S), NEW f, \A y \in S : f[y] \in Nat, NEW x \in S
  PROVE  SumFunctionOnSet(f, S) >= f[x]
<1>1. \A y \in S : f[y] \in Int
  OBVIOUS
<1>2. SumFunctionOnSet(f, S) = f[x] + SumFunctionOnSet(f, S \ {x})
  BY <1>1, SumTake
<1>3. IsFiniteSet(S \ {x}) /\ \A y \in S \ {x} : f[y] \in Nat
  BY FS_Difference
<1>4. SumFunctionOnSet(f, S \ {x}) \in Nat
  BY <1>3, SumNat
<1>5. f[x] \in Nat
  OBVIOUS
<1>. QED
  BY <1>2, <1>4, <1>5

(* A nonempty set of natural numbers has a least element. *)
LEMMA LeastNumber ==
  ASSUME NEW bad \in SUBSET Nat, bad # {}
  PROVE  \E n \in bad : \A m \in bad : n <= m
<1> DEFINE R == OpToRel(<, Nat)
<1>1. IsWellFoundedOn(R, Nat)
  BY NatLessThanWellFounded
<1>2. \A m, n \in Nat : m < n => <<m, n>> \in R
  BY DEF OpToRel
<1> HIDE DEF R
<1>3. PICK n \in bad : \A m \in bad : ~(<<m, n>> \in R)
  BY <1>1, WFMin
<1>4. ASSUME NEW m \in bad PROVE n <= m
  <2>1. m \in Nat /\ n \in Nat
    OBVIOUS
  <2>2. ~(m < n)
    BY <2>1, <1>2, <1>3
  <2>. QED
    BY <2>1, <2>2
<1>. QED
  BY <1>4

(* The sum of the first n + 1 values is the first with the n that follow. *)
LEMMA SumShift ==
  ASSUME NEW N \in Nat, NEW f, NEW h, \A i \in 1 .. N + 1 : f[i] \in Int,
         \A i \in 1 .. N : h[i] = f[i + 1]
  PROVE  SumFunctionOnSet(f, 1 .. N + 1) = f[1] + SumFunctionOnSet(h, 1 .. N)
<1> DEFINE Holds(n) == SumFunctionOnSet(f, 1 .. n + 1) = f[1] + SumFunctionOnSet(h, 1 .. n)
           bad == {n \in 0 .. N : ~Holds(n)}
<1>1. SUFFICES ASSUME bad # {} PROVE FALSE
  OBVIOUS
<1>2. PICK n \in bad : \A m \in bad : n <= m
  <2>1. bad \in SUBSET Nat
    OBVIOUS
  <2> HIDE DEF bad
  <2>. QED
    BY <1>1, <2>1, LeastNumber
<1>3. n \in 0 .. N /\ ~Holds(n)
  OBVIOUS
<1>4. CASE n = 0
  <2>1. 1 .. n + 1 = {} \cup {1} /\ 1 .. n = {}
    BY <1>4
  <2>2. SumFunctionOnSet(f, {} \cup {1}) = f[1] + SumFunctionOnSet(f, {})
    <3>1. IsFiniteSet({})
      BY FS_EmptySet
    <3>2. \A y \in {} \cup {1} : f[y] \in Int
      OBVIOUS
    <3>. QED
      BY <3>1, <3>2, SumAdd
  <2>. QED
    BY <2>1, <2>2, SumEmpty, <1>3
<1>5. CASE n # 0
  <2>1. n - 1 \in 0 .. N /\ n \in 1 .. N
    BY <1>3, <1>5
  <2>2. n - 1 \notin bad
    BY <1>2, <2>1
  <2>3. Holds(n - 1)
    BY <2>1, <2>2
  <2>4. n - 1 + 1 = n
    BY <2>1
  <2>5. SumFunctionOnSet(f, 1 .. n) = f[1] + SumFunctionOnSet(h, 1 .. n - 1)
    BY <2>3, <2>4
  <2>6. 1 .. n + 1 = (1 .. n) \cup {n + 1} /\ 1 .. n = (1 .. n - 1) \cup {n}
    BY <2>1
  <2>7. SumFunctionOnSet(f, 1 .. n + 1) = f[n + 1] + SumFunctionOnSet(f, 1 .. n)
    <3>1. IsFiniteSet(1 .. n) /\ n + 1 \notin 1 .. n
      BY <2>1, FS_Interval
    <3>2. \A y \in (1 .. n) \cup {n + 1} : f[y] \in Int
      BY <2>1
    <3>. QED
      BY <3>1, <3>2, <2>6, SumAdd
  <2>8. SumFunctionOnSet(h, 1 .. n) = h[n] + SumFunctionOnSet(h, 1 .. n - 1)
    <3>1. IsFiniteSet(1 .. n - 1) /\ n \notin 1 .. n - 1
      BY <2>1, FS_Interval
    <3>2. \A y \in (1 .. n - 1) \cup {n} : h[y] \in Int
      BY <2>1
    <3>. QED
      BY <3>1, <3>2, <2>6, SumAdd
  <2>9. h[n] = f[n + 1] /\ f[n + 1] \in Int /\ f[1] \in Int
    BY <2>1
  <2>10. SumFunctionOnSet(h, 1 .. n - 1) \in Int
    <3>1. IsFiniteSet(1 .. n - 1)
      BY <2>1, FS_Interval
    <3>2. \A y \in 1 .. n - 1 : h[y] \in Int
      BY <2>1
    <3>. QED
      BY <3>1, <3>2, SumInt
  <2>11. Holds(n)
    BY <2>5, <2>7, <2>8, <2>9, <2>10
  <2>. QED
    BY <2>11, <1>3
<1>. QED
  BY <1>4, <1>5

-----------------------------------------------------------------------------
(* What the reports of a queue say of an order.                            *)

Share(c, r) == IF r.id = c THEN r.last ELSE 0

LEMMA InReportsSum ==
  ASSUME NEW c, NEW reps \in Seq(ReportShape)
  PROVE  /\ InReports(c, reps) = SumFunctionOnSet([i \in 1 .. Len(reps) |-> Share(c, reps[i])], 1 .. Len(reps))
         /\ \A i \in 1 .. Len(reps) : Share(c, reps[i]) \in Nat
         /\ IsFiniteSet(1 .. Len(reps))
<1>1. DOMAIN reps = 1 .. Len(reps) /\ Len(reps) \in Nat
  OBVIOUS
<1>2. \A i \in 1 .. Len(reps) : reps[i] \in ReportShape
  OBVIOUS
<1>3. \A i \in 1 .. Len(reps) : reps[i].last \in Nat
  BY <1>2 DEF ReportShape
<1>4. IsFiniteSet(1 .. Len(reps))
  BY <1>1, FS_Interval
<1>. QED
  BY <1>1, <1>3, <1>4 DEF InReports, SumFunction, Share

LEMMA InReportsNat ==
  ASSUME NEW c, NEW reps \in Seq(ReportShape)
  PROVE  InReports(c, reps) \in Nat
<1> DEFINE f == [i \in 1 .. Len(reps) |-> Share(c, reps[i])]
<1>1. /\ InReports(c, reps) = SumFunctionOnSet(f, 1 .. Len(reps))
      /\ \A i \in 1 .. Len(reps) : f[i] \in Nat
      /\ IsFiniteSet(1 .. Len(reps))
  BY InReportsSum
<1> HIDE DEF f
<1>. QED
  BY <1>1, SumNat

LEMMA InReportsEmpty == ASSUME NEW c PROVE InReports(c, << >>) = 0
<1>1. DOMAIN << >> = {}
  OBVIOUS
<1>. QED
  BY <1>1, SumEmpty DEF InReports, SumFunction

(* An order that no report is about. *)
LEMMA InReportsNone ==
  ASSUME NEW c, NEW reps \in Seq(ReportShape), \A i \in 1 .. Len(reps) : reps[i].id # c
  PROVE  InReports(c, reps) = 0
<1> DEFINE f == [i \in 1 .. Len(reps) |-> Share(c, reps[i])]
<1>1. InReports(c, reps) = SumFunctionOnSet(f, 1 .. Len(reps)) /\ IsFiniteSet(1 .. Len(reps))
  BY InReportsSum
<1>2. \A i \in 1 .. Len(reps) : f[i] = 0
  BY DEF Share
<1> HIDE DEF f
<1>. QED
  BY <1>1, <1>2, SumZero

LEMMA InReportsAtLeast ==
  ASSUME NEW c, NEW reps \in Seq(ReportShape), NEW i \in 1 .. Len(reps), reps[i].id = c
  PROVE  InReports(c, reps) >= reps[i].last
<1> DEFINE f == [j \in 1 .. Len(reps) |-> Share(c, reps[j])]
<1>1. /\ InReports(c, reps) = SumFunctionOnSet(f, 1 .. Len(reps))
      /\ \A j \in 1 .. Len(reps) : f[j] \in Nat
      /\ IsFiniteSet(1 .. Len(reps))
  BY InReportsSum
<1>2. f[i] = reps[i].last
  BY DEF Share
<1> HIDE DEF f
<1>3. SumFunctionOnSet(f, 1 .. Len(reps)) >= f[i]
  BY <1>1, SumAtLeast
<1>. QED
  BY <1>1, <1>2, <1>3

(* A report is pushed... *)
LEMMA InReportsAppend ==
  ASSUME NEW c, NEW reps \in Seq(ReportShape), NEW r \in ReportShape
  PROVE  InReports(c, Append(reps, r)) = InReports(c, reps) + Share(c, r)
<1>1. PICK more \in Seq(ReportShape) : more = Append(reps, r)
  <2>1. Append(reps, r) \in Seq(ReportShape)
    OBVIOUS
  <2>. QED
    BY <2>1
<1>2. PICK n \in Nat : n = Len(reps)
  OBVIOUS
<1>3. /\ Len(more) = n + 1
      /\ \A i \in 1 .. n : more[i] = reps[i]
      /\ more[n + 1] = r
  BY <1>1, <1>2
<1> DEFINE f == [i \in 1 .. Len(reps) |-> Share(c, reps[i])]
           h == [i \in 1 .. Len(more) |-> Share(c, more[i])]
<1>4. /\ InReports(c, reps) = SumFunctionOnSet(f, 1 .. n)
      /\ \A i \in 1 .. n : f[i] \in Nat
      /\ IsFiniteSet(1 .. n)
  BY <1>2, InReportsSum
<1>5. /\ InReports(c, more) = SumFunctionOnSet(h, 1 .. n + 1)
      /\ \A i \in 1 .. n + 1 : h[i] \in Nat
  BY <1>3, InReportsSum
<1>6. \A i \in 1 .. n : h[i] = f[i]
  BY <1>2, <1>3
<1>7. h[n + 1] = Share(c, r)
  BY <1>2, <1>3
<1> HIDE DEF f, h
<1>8. 1 .. n + 1 = (1 .. n) \cup {n + 1} /\ n + 1 \notin 1 .. n
  OBVIOUS
<1>9. SumFunctionOnSet(h, 1 .. n + 1) = h[n + 1] + SumFunctionOnSet(h, 1 .. n)
  <2>1. \A i \in (1 .. n) \cup {n + 1} : h[i] \in Int
    BY <1>5, <1>8
  <2>. QED
    BY <2>1, <1>4, <1>8, SumAdd
<1>10. SumFunctionOnSet(h, 1 .. n) = SumFunctionOnSet(f, 1 .. n)
  <2>1. \A i \in 1 .. n : f[i] \in Int /\ h[i] = f[i]
    BY <1>4, <1>6
  <2>. QED
    BY <2>1, <1>4, SumSame
<1>11. SumFunctionOnSet(f, 1 .. n) \in Nat /\ h[n + 1] \in Nat
  BY <1>4, <1>5, SumNat
<1>. QED
  BY <1>1, <1>4, <1>5, <1>7, <1>9, <1>10, <1>11

(* ...or popped. *)
LEMMA InReportsTail ==
  ASSUME NEW c, NEW reps \in Seq(ReportShape), reps # << >>
  PROVE  InReports(c, reps) = Share(c, Head(reps)) + InReports(c, Tail(reps))
<1>1. PICK rest \in Seq(ReportShape) : rest = Tail(reps)
  <2>1. Tail(reps) \in Seq(ReportShape)
    OBVIOUS
  <2>. QED
    BY <2>1
<1>2. PICK n \in Nat : n = Len(rest)
  OBVIOUS
<1>3. /\ Len(reps) = n + 1
      /\ \A i \in 1 .. n : rest[i] = reps[i + 1]
      /\ reps[1] = Head(reps)
  BY <1>1, <1>2
<1> DEFINE f == [i \in 1 .. Len(reps) |-> Share(c, reps[i])]
           h == [i \in 1 .. Len(rest) |-> Share(c, rest[i])]
<1>4. /\ InReports(c, reps) = SumFunctionOnSet(f, 1 .. n + 1)
      /\ \A i \in 1 .. n + 1 : f[i] \in Nat
  BY <1>3, InReportsSum
<1>5. InReports(c, rest) = SumFunctionOnSet(h, 1 .. n)
  BY <1>2, InReportsSum
<1>6. \A i \in 1 .. n : h[i] = f[i + 1]
  BY <1>2, <1>3
<1>7. f[1] = Share(c, Head(reps))
  BY <1>3
<1> HIDE DEF f, h
<1>8. SumFunctionOnSet(f, 1 .. n + 1) = f[1] + SumFunctionOnSet(h, 1 .. n)
  <2>1. \A i \in 1 .. n + 1 : f[i] \in Int
    BY <1>4
  <2>. QED
    BY <2>1, <1>6, SumShift
<1>. QED
  BY <1>1, <1>4, <1>5, <1>7, <1>8

-----------------------------------------------------------------------------
(* notify_execution: each report is queued or, once the queue is full, lost. *)

LEMMA MinOfTwo ==
  ASSUME NEW a \in Nat, NEW b \in Nat
  PROVE  /\ a <= b => Min({a, b}) = a
         /\ b <= a => Min({a, b}) = b
<1>1. \E x \in {a, b} : \A y \in {a, b} : x <= y
  <2>1. CASE a <= b
    BY <2>1
  <2>2. CASE b <= a
    BY <2>2
  <2>. QED
    BY <2>1, <2>2
<1> DEFINE m == Min({a, b})
<1>2. m \in {a, b} /\ \A y \in {a, b} : m <= y
  BY <1>1 DEF Min
<1> HIDE DEF m
<1>3. (m = a \/ m = b) /\ m <= a /\ m <= b
  BY <1>2
<1>. QED
  BY <1>3 DEF m

(* The parts of the short sequences that are pushed. *)
LEMMA Parts ==
  ASSUME NEW r, NEW s
  PROVE  /\ SubSeq(<<r>>, 1, 1) = <<r>> /\ SubSeq(<<r>>, 1, 0) = << >> /\ SubSeq(<<r>>, 2, 1) = << >>
         /\ SubSeq(<<r, s>>, 1, 2) = <<r, s>> /\ SubSeq(<<r, s>>, 1, 1) = <<r>>
         /\ SubSeq(<<r, s>>, 1, 0) = << >> /\ SubSeq(<<r, s>>, 2, 2) = <<s>>
         /\ SubSeq(<<r, s>>, 3, 2) = << >>
<1>0. PICK S : r \in S /\ s \in S
  <2>1. r \in {r, s} /\ s \in {r, s}
    OBVIOUS
  <2>. QED
    BY <2>1
<1>1. <<r>> \in Seq(S) /\ Len(<<r>>) = 1 /\ <<r, s>> \in Seq(S) /\ Len(<<r, s>>) = 2
  BY <1>0
<1>2. SubSeq(<<r>>, 1, 1) = <<r>> /\ SubSeq(<<r, s>>, 1, 2) = <<r, s>>
  BY <1>1, SubSeqFull
<1>3. /\ SubSeq(<<r>>, 1, 0) = << >> /\ SubSeq(<<r>>, 2, 1) = << >>
      /\ SubSeq(<<r, s>>, 1, 0) = << >> /\ SubSeq(<<r, s>>, 3, 2) = << >>
  BY SubSeqEmpty
<1>4. SubSeq(<<r, s>>, 1, 1) = <<r>>
  <2> DEFINE u == SubSeq(<<r, s>>, 1, 1)
  <2>1. \A i \in 1 .. 1 : <<r, s>>[i] \in S
    BY <1>0
  <2>2. u \in Seq(S) /\ Len(u) = (IF 1 <= 1 THEN 1 - 1 + 1 ELSE 0) /\ \A i \in 1 .. 1 - 1 + 1 : u[i] = <<r, s>>[1 + i - 1]
    BY <2>1, SubSeqProperties
  <2> HIDE DEF u
  <2>3. u \in Seq(S) /\ Len(u) = 1 /\ u[1] = r
    BY <2>2
  <2>4. \A i \in 1 .. Len(u) : u[i] = <<r>>[i]
    BY <2>3
  <2>5. u = <<r>>
    BY <2>3, <2>4, <1>1, SeqEqual
  <2>. QED
    BY <2>5 DEF u
<1>5. SubSeq(<<r, s>>, 2, 2) = <<s>>
  <2> DEFINE u == SubSeq(<<r, s>>, 2, 2)
  <2>1. \A i \in 2 .. 2 : <<r, s>>[i] \in S
    BY <1>0
  <2>2. u \in Seq(S) /\ Len(u) = (IF 2 <= 2 THEN 2 - 2 + 1 ELSE 0) /\ \A i \in 1 .. 2 - 2 + 1 : u[i] = <<r, s>>[2 + i - 1]
    BY <2>1, SubSeqProperties
  <2> HIDE DEF u
  <2>3. u \in Seq(S) /\ Len(u) = 1 /\ u[1] = s
    BY <2>2
  <2>4. \A i \in 1 .. Len(u) : u[i] = <<s>>[i]
    BY <2>3
  <2>5. <<s>> \in Seq(S) /\ Len(<<s>>) = 1
    BY <1>0
  <2>6. u = <<s>>
    BY <2>3, <2>4, <2>5, SeqEqual
  <2>. QED
    BY <2>6 DEF u
<1>. QED
  BY <1>2, <1>3, <1>4, <1>5

LEMMA NotifiedNone ==
  ASSUME reportQueue \in Seq(ReportShape), Len(reportQueue) <= ReportCapacity,
         lostReports \in Seq(ReportShape), Notify(<< >>)
  PROVE  reportQueue' = reportQueue /\ lostReports' = lostReports
<1>1. Len(reportQueue) \in Nat /\ ReportCapacity \in Nat
  BY ReportCapacityAssumption
<1>2. ReportCapacity - Len(reportQueue) \in Nat /\ Len(<< >>) = 0
  BY <1>1
<1>3. Min({Len(<< >>), ReportCapacity - Len(reportQueue)}) = 0
  BY <1>2, MinOfTwo
<1>4. /\ reportQueue' = reportQueue \o SubSeq(<< >>, 1, 0)
      /\ lostReports' = lostReports \o SubSeq(<< >>, 0 + 1, 0)
  BY <1>2, <1>3 DEF Notify
<1>5. SubSeq(<< >>, 1, 0) = << >> /\ SubSeq(<< >>, 0 + 1, 0) = << >>
  OBVIOUS
<1>. QED
  BY <1>4, <1>5

LEMMA NotifiedOne ==
  ASSUME reportQueue \in Seq(ReportShape), Len(reportQueue) <= ReportCapacity,
         lostReports \in Seq(ReportShape), NEW r \in ReportShape, Notify(<<r>>)
  PROVE  \/ reportQueue' = Append(reportQueue, r) /\ lostReports' = lostReports
         \/ reportQueue' = reportQueue /\ lostReports' = Append(lostReports, r)
<1>1. Len(reportQueue) \in Nat /\ ReportCapacity \in Nat
  BY ReportCapacityAssumption
<1>2. PICK free \in Nat : free = ReportCapacity - Len(reportQueue)
  <2>1. ReportCapacity - Len(reportQueue) \in Nat
    BY <1>1
  <2>. QED
    BY <2>1
<1>3. Len(<<r>>) = 1
  OBVIOUS
<1>4. CASE free >= 1
  <2>1. Min({1, free}) = 1
    BY <1>4, MinOfTwo
  <2>2. reportQueue' = reportQueue \o SubSeq(<<r>>, 1, 1) /\ lostReports' = lostReports \o SubSeq(<<r>>, 1 + 1, 1)
    BY <1>2, <1>3, <2>1 DEF Notify
  <2>3. SubSeq(<<r>>, 1, 1) = <<r>> /\ SubSeq(<<r>>, 2, 1) = << >>
    BY Parts
  <2>4. reportQueue \o <<r>> = Append(reportQueue, r) /\ lostReports \o << >> = lostReports
    OBVIOUS
  <2>. QED
    BY <2>2, <2>3, <2>4
<1>5. CASE free = 0
  <2>1. Min({1, free}) = 0
    BY <1>5, MinOfTwo
  <2>2. reportQueue' = reportQueue \o SubSeq(<<r>>, 1, 0) /\ lostReports' = lostReports \o SubSeq(<<r>>, 0 + 1, 1)
    BY <1>2, <1>3, <2>1 DEF Notify
  <2>3. SubSeq(<<r>>, 1, 0) = << >> /\ SubSeq(<<r>>, 1, 1) = <<r>>
    BY Parts
  <2>4. lostReports \o <<r>> = Append(lostReports, r) /\ reportQueue \o << >> = reportQueue
    OBVIOUS
  <2>. QED
    BY <2>2, <2>3, <2>4
<1>. QED
  BY <1>4, <1>5

LEMMA NotifiedTwo ==
  ASSUME reportQueue \in Seq(ReportShape), Len(reportQueue) <= ReportCapacity,
         lostReports \in Seq(ReportShape), NEW r \in ReportShape, NEW s \in ReportShape,
         Notify(<<r, s>>)
  PROVE  \/ reportQueue' = Append(Append(reportQueue, r), s) /\ lostReports' = lostReports
         \/ reportQueue' = Append(reportQueue, r) /\ lostReports' = Append(lostReports, s)
         \/ reportQueue' = reportQueue /\ lostReports' = Append(Append(lostReports, r), s)
<1>1. Len(reportQueue) \in Nat /\ ReportCapacity \in Nat
  BY ReportCapacityAssumption
<1>2. PICK free \in Nat : free = ReportCapacity - Len(reportQueue)
  <2>1. ReportCapacity - Len(reportQueue) \in Nat
    BY <1>1
  <2>. QED
    BY <2>1
<1>3. Len(<<r, s>>) = 2
  OBVIOUS
<1>4. CASE free >= 2
  <2>1. Min({2, free}) = 2
    BY <1>4, MinOfTwo
  <2>2. /\ reportQueue' = reportQueue \o SubSeq(<<r, s>>, 1, 2)
        /\ lostReports' = lostReports \o SubSeq(<<r, s>>, 2 + 1, 2)
    BY <1>2, <1>3, <2>1 DEF Notify
  <2>3. SubSeq(<<r, s>>, 1, 2) = <<r, s>> /\ SubSeq(<<r, s>>, 3, 2) = << >>
    BY Parts
  <2>4. reportQueue \o <<r, s>> = Append(Append(reportQueue, r), s) /\ lostReports \o << >> = lostReports
    OBVIOUS
  <2>. QED
    BY <2>2, <2>3, <2>4
<1>5. CASE free = 1
  <2>1. Min({2, free}) = 1
    BY <1>5, MinOfTwo
  <2>2. /\ reportQueue' = reportQueue \o SubSeq(<<r, s>>, 1, 1)
        /\ lostReports' = lostReports \o SubSeq(<<r, s>>, 1 + 1, 2)
    BY <1>2, <1>3, <2>1 DEF Notify
  <2>3. SubSeq(<<r, s>>, 1, 1) = <<r>> /\ SubSeq(<<r, s>>, 2, 2) = <<s>>
    BY Parts
  <2>4. reportQueue \o <<r>> = Append(reportQueue, r) /\ lostReports \o <<s>> = Append(lostReports, s)
    OBVIOUS
  <2>. QED
    BY <2>2, <2>3, <2>4
<1>6. CASE free = 0
  <2>1. Min({2, free}) = 0
    BY <1>6, MinOfTwo
  <2>2. /\ reportQueue' = reportQueue \o SubSeq(<<r, s>>, 1, 0)
        /\ lostReports' = lostReports \o SubSeq(<<r, s>>, 0 + 1, 2)
    BY <1>2, <1>3, <2>1 DEF Notify
  <2>3. SubSeq(<<r, s>>, 1, 0) = << >> /\ SubSeq(<<r, s>>, 1, 2) = <<r, s>>
    BY Parts
  <2>4. lostReports \o <<r, s>> = Append(Append(lostReports, r), s) /\ reportQueue \o << >> = reportQueue
    OBVIOUS
  <2>. QED
    BY <2>2, <2>3, <2>4
<1>. QED
  BY <1>4, <1>5, <1>6

LEMMA Negative == ASSUME NEW n \in Int PROVE -n \in Int /\ -n = 0 - n
  OBVIOUS

(* One value grows, and the sum with it if it is summed. *)
Bumps(f, h, S, x, n) ==
    /\ IsFiniteSet(S) /\ n \in Int
    /\ \A y \in S : f[y] \in Int /\ h[y] = f[y] + (IF y = x THEN n ELSE 0)

LEMMA SumBump ==
  ASSUME NEW S, NEW f, NEW h, NEW x, NEW n, Bumps(f, h, S, x, n)
  PROVE  SumFunctionOnSet(h, S) = SumFunctionOnSet(f, S) + (IF x \in S THEN n ELSE 0)
<1> USE DEF Bumps
<1>0. SumFunctionOnSet(f, S) \in Int
  BY SumInt
<1>1. CASE x \in S
  <2>1. \A y \in S : f[y] \in Int
    OBVIOUS
  <2>2. h[x] = f[x] + n /\ f[x] \in Int
    BY <1>1
  <2>3. \A y \in S : y # x => h[y] = f[y]
    OBVIOUS
  <2>4. h[x] \in Int
    BY <2>2
  <2>5. SumFunctionOnSet(h, S) = SumFunctionOnSet(f, S) - f[x] + h[x]
    BY <1>1, <2>1, <2>3, <2>4, SumChange
  <2>. QED
    BY <1>0, <1>1, <2>2, <2>5
<1>2. CASE x \notin S
  <2>1. \A y \in S : f[y] \in Int /\ h[y] = f[y]
    BY <1>2
  <2>2. SumFunctionOnSet(h, S) = SumFunctionOnSet(f, S)
    BY <2>1, SumSame
  <2>. QED
    BY <1>0, <1>2, <2>2
<1>. QED
  BY <1>1, <1>2

-----------------------------------------------------------------------------
(* The accounts of the router.                                             *)

AccountShapes ==
    /\ executed \in [OrderIds -> Nat]
    /\ fills \in [OrderIds -> Nat]
    /\ carried \in [OrderIds -> Nat]
    /\ clientQty \in [OrderIds -> Nat]
    /\ lostReports \in Seq(ReportShape)

LostOfChildren == \A i \in 1 .. Len(lostReports) : Child(lostReports[i].id)

\* Only children execute and are filled.
ChildrenTrade == \A c \in OrderIds : ~Child(c) => executed[c] = 0 /\ fills[c] = 0

Clients == \A p \in OrderIds : clientQty[p] > 0 => ~Child(p) /\ p < nextId

\* The callbacks of a report are pending while the execution thread runs them.
Callbacks ==
    /\ pc["exec"] # "deferred" => deferred = Nothing
    /\ deferred.id \in OrderIds => Child(deferred.id)

\* An order that waits for the risk check shows nothing as filled.
FreshJobs ==
    /\ \A i \in 1 .. Len(orderQueue) : orderQueue[i].order.filled = 0
    /\ \A t \in Threads : pc[t] = "admit" => job[t].order.filled = 0

\* Of every order that is no child: what its children executed is accounted for.
Balanced(p) ==
    ExecutedOf(p) = carried[p] + orders[p].filled + SumFunction([c \in Children(p) |-> Unseen(c)])
Balance == \A p \in OrderIds : ~Child(p) => Balanced(p)

Recorded(c) ==
    executed[c] = fills[c] + Unseen(c) + (IF deferred.id = c THEN deferred.fill ELSE 0)
Signed == [c \in OrderIds |-> IF orders[c].side = "Buy" THEN fills[c] ELSE -fills[c]]

Accounting ==
    /\ AccountShapes
    /\ LostOfChildren
    /\ ChildrenTrade
    /\ Clients
    /\ Callbacks
    /\ FreshJobs
    /\ Balance
    /\ \A c \in OrderIds : Recorded(c)
    /\ position.net = SumFunctionOnSet(Signed, OrderIds)

LEMMA AccountingFacts ==
  ASSUME IInv, Accounting
  PROVE  /\ reportQueue \in Seq(ReportShape) /\ Len(reportQueue) <= ReportCapacity
         /\ lostReports \in Seq(ReportShape)
         /\ IsFiniteSet(OrderIds) /\ \A p : IsFiniteSet(Children(p))
         /\ \A c : Unseen(c) \in Nat
<1>1. reportQueue \in Seq(ReportShape) /\ Len(reportQueue) <= ReportCapacity
  BY DEF IInv, VenueShapes
<1>2. lostReports \in Seq(ReportShape)
  BY DEF Accounting, AccountShapes
<1>3. IsFiniteSet(OrderIds)
  BY FiniteAssumption
<1>4. ASSUME NEW p PROVE IsFiniteSet(Children(p))
  <2>1. Children(p) \subseteq OrderIds
    BY DEF Children
  <2>. QED
    BY <1>3, <2>1, FS_Subset
<1>5. ASSUME NEW c PROVE Unseen(c) \in Nat
  <2>1. InReports(c, reportQueue) \in Nat /\ InReports(c, lostReports) \in Nat
    BY <1>1, <1>2, InReportsNat
  <2>. QED
    BY <2>1 DEF Unseen
<1>. QED
  BY <1>1, <1>2, <1>3, <1>4, <1>5

(* An order without a report in either place. *)
LEMMA UnseenNone ==
  ASSUME IInv, Accounting, NEW c \in OrderIds, ~Child(c)
  PROVE  Unseen(c) = 0
<1>1. \A i \in 1 .. Len(reportQueue) : reportQueue[i].id # c
  BY DEF IInv, VenuesSeeChildren
<1>2. \A i \in 1 .. Len(lostReports) : lostReports[i].id # c
  BY DEF Accounting, LostOfChildren
<1>3. InReports(c, reportQueue) = 0 /\ InReports(c, lostReports) = 0
  BY <1>1, <1>2, AccountingFacts, InReportsNone
<1>. QED
  BY <1>3 DEF Unseen

LEMMA InitAccounting == Init => Accounting
<1> SUFFICES ASSUME Init PROVE Accounting
  OBVIOUS
<1>1. /\ executed = [id \in OrderIds |-> 0] /\ fills = [id \in OrderIds |-> 0]
      /\ carried = [id \in OrderIds |-> 0] /\ clientQty = [id \in OrderIds |-> 0]
      /\ lostReports = << >> /\ reportQueue = << >> /\ deferred = Nothing /\ orderQueue = << >>
      /\ pc = [t \in Threads |-> "loop"] /\ parentOf = [id \in OrderIds |-> INVALID_ORDER_ID]
      /\ orders = [id \in OrderIds |-> Untracked] /\ position.net = 0
  BY DEF Init, ExchangeInit, HandlerInit, RiskInit
<1>2. AccountShapes /\ LostOfChildren /\ ChildrenTrade /\ Clients
  BY <1>1 DEF AccountShapes, LostOfChildren, ChildrenTrade, Clients
<1>3. Callbacks
  BY <1>1, Ids DEF Callbacks, Nothing
<1>4. FreshJobs
  BY <1>1 DEF FreshJobs
<1>5. \A c : Unseen(c) = 0
  BY <1>1, InReportsEmpty DEF Unseen
<1>6. \A p \in OrderIds : Children(p) = {}
  BY <1>1, Ids DEF Children
<1>7. Balance
  <2> SUFFICES ASSUME NEW p \in OrderIds PROVE Balanced(p)
    BY DEF Balance
  <2>1. ExecutedOf(p) = 0
    BY <1>6, SumEmpty DEF ExecutedOf
  <2>2. SumFunction([c \in Children(p) |-> Unseen(c)]) = 0
    BY <1>6, SumEmpty DEF SumFunction
  <2>3. carried[p] = 0 /\ orders[p].filled = 0
    BY <1>1 DEF Untracked
  <2>. QED
    BY <2>1, <2>2, <2>3 DEF Balanced
<1>8. \A c \in OrderIds : Recorded(c)
  <2>1. ASSUME NEW c \in OrderIds PROVE Recorded(c)
    <3>1. executed[c] = 0 /\ fills[c] = 0 /\ Unseen(c) = 0 /\ deferred.fill = 0
      BY <1>1, <1>5 DEF Nothing
    <3>. QED
      BY <3>1 DEF Recorded
  <2>. QED
    BY <2>1
<1>9. SumFunctionOnSet(Signed, OrderIds) = 0
  <2>1. ASSUME NEW c \in OrderIds PROVE Signed[c] = 0
    <3>1. fills[c] = 0 /\ -fills[c] = 0
      <4>1. fills[c] = 0
        BY <1>1
      <4>0. fills[c] \in Int
        BY <4>1
      <4>2. -fills[c] = 0 - fills[c]
        BY <4>0, Negative
      <4>. QED
        BY <4>1, <4>2
    <3>2. Signed[c] = IF orders[c].side = "Buy" THEN fills[c] ELSE -fills[c]
      BY DEF Signed
    <3>. QED
      BY <3>1, <3>2
  <2>. QED
    BY <2>1, FiniteAssumption, SumZero
<1>. QED
  BY <1>1, <1>2, <1>3, <1>4, <1>7, <1>8, <1>9 DEF Accounting

-----------------------------------------------------------------------------
(* Steps that leave the accounts alone, and the venues' steps.             *)

(* A step that changes neither reports nor orders nor fills. *)
LEMMA AccountsStill ==
  ASSUME IInv, Accounting,
         UNCHANGED <<executed, fills, carried, lostReports, reportQueue, parentOf, orders, deferred>>,
         position'.net = position.net
  PROVE  /\ LostOfChildren' /\ ChildrenTrade' /\ Balance' /\ (\A c \in OrderIds : Recorded(c))'
         /\ position'.net = SumFunctionOnSet(Signed, OrderIds)'
<1>1. LostOfChildren'
  BY DEF Accounting, LostOfChildren, Child
<1>2. ChildrenTrade'
  BY DEF Accounting, ChildrenTrade, Child
<1>3. Signed' = Signed
  BY DEF Signed
<1>4. ASSUME NEW c \in OrderIds PROVE Recorded(c)' = Recorded(c)
  BY DEF Recorded, Unseen, InReports
<1>5. ASSUME NEW p \in OrderIds PROVE Balanced(p)' = Balanced(p)
  BY DEF Balanced, ExecutedOf, Unseen, InReports, Children
<1>6. Balance'
  BY <1>5 DEF Accounting, Balance, Child
<1>7. (\A c \in OrderIds : Recorded(c))'
  BY <1>4 DEF Accounting
<1>8. position'.net = SumFunctionOnSet(Signed', OrderIds)
  BY <1>3 DEF Accounting
<1>. QED
  BY <1>1, <1>2, <1>6, <1>7, <1>8

(* A venue executes n for the child id and reports it. *)
LEMMA BookedStep ==
  ASSUME IInv, Accounting, NEW id \in OrderIds, Child(id), NEW n \in Nat,
         executed' = [executed EXCEPT ![id] = @ + n],
         \A c \in OrderIds : Unseen(c)' = Unseen(c) + (IF c = id THEN n ELSE 0),
         lostReports' \in Seq(ReportShape),
         \A i \in 1 .. Len(lostReports') : Child(lostReports'[i].id),
         UNCHANGED <<fills, carried, clientQty, parentOf, orders, deferred, position, nextId, orderQueue, job>>,
         \A t \in Threads : pc'[t] = "admit" => pc[t] = "admit",
         pc'["exec"] # "deferred" => pc["exec"] # "deferred"
  PROVE  Accounting'
<1>0. executed \in [OrderIds -> Nat]
  BY DEF Accounting, AccountShapes
<1>1. executed' \in [OrderIds -> Nat] /\ \A c \in OrderIds : executed'[c] = executed[c] + (IF c = id THEN n ELSE 0)
  BY <1>0
<1>2. AccountShapes'
  BY <1>1 DEF Accounting, AccountShapes
<1>3. LostOfChildren'
  BY DEF LostOfChildren, Child
<1>4. ChildrenTrade'
  <2>1. ASSUME NEW c \in OrderIds, ~Child(c)' PROVE executed'[c] = 0 /\ fills'[c] = 0
    <3>1. ~Child(c) /\ c # id
      BY <2>1 DEF Child
    <3>2. executed[c] = 0 /\ fills[c] = 0
      BY <3>1 DEF Accounting, ChildrenTrade
    <3>. QED
      BY <1>1, <3>1, <3>2
  <2>. QED
    BY <2>1 DEF ChildrenTrade
<1>5. Clients' /\ Callbacks' /\ FreshJobs'
  BY DEF Accounting, Clients, Callbacks, FreshJobs, Child
<1>6. ASSUME NEW c \in OrderIds PROVE Recorded(c)'
  <2>1. Recorded(c) /\ Unseen(c) \in Nat /\ fills[c] \in Nat /\ executed[c] \in Nat
    BY AccountingFacts DEF Accounting, AccountShapes
  <2>2. (IF deferred.id = c THEN deferred.fill ELSE 0) \in Nat
    BY DEF IInv, ThreadShapes, DeferShape
  <2>3. /\ executed'[c] = executed[c] + (IF c = id THEN n ELSE 0)
        /\ Unseen(c)' = Unseen(c) + (IF c = id THEN n ELSE 0)
    BY <1>1
  <2>4. executed'[c] = fills[c] + Unseen(c)' + (IF deferred.id = c THEN deferred.fill ELSE 0)
    <3>1. PICK d \in Nat : d = IF deferred.id = c THEN deferred.fill ELSE 0
      BY <2>2
    <3>2. executed[c] = fills[c] + Unseen(c) + d
      BY <2>1, <3>1 DEF Recorded
    <3>. QED
      BY <2>1, <2>3, <3>1, <3>2
  <2>. QED
    BY <2>4 DEF Recorded
<1>7. ASSUME NEW p \in OrderIds, ~Child(p)' PROVE Balanced(p)'
  <2>1. Balanced(p) /\ Children(p)' = Children(p)
    BY <1>7 DEF Accounting, Balance, Child, Children
  <2> DEFINE S == Children(p)
             f == [c \in S |-> Unseen(c)]
             h == [c \in S |-> Unseen(c)']
             k == IF id \in S THEN n ELSE 0
  <2>2. IsFiniteSet(S) /\ S \subseteq OrderIds
    BY AccountingFacts DEF Children
  <2>3. SumFunctionOnSet(executed', S) = SumFunctionOnSet(executed, S) + k
    <3>1. Bumps(executed, executed', S, id, n)
      BY <1>0, <1>1, <2>2 DEF Bumps
    <3> HIDE DEF S
    <3>. QED
      BY <3>1, SumBump DEF k
  <2>4. SumFunctionOnSet(h, S) = SumFunctionOnSet(f, S) + k
    <3>1. Bumps(f, h, S, id, n)
      BY <2>2, AccountingFacts DEF Bumps
    <3> HIDE DEF S, f, h
    <3>. QED
      BY <3>1, SumBump DEF k
  <2>5. SumFunctionOnSet(f, S) \in Int /\ k \in Int
    <3>1. \A y \in S : f[y] \in Int
      BY <2>2, AccountingFacts
    <3> HIDE DEF f, S
    <3>. QED
      BY <3>1, <2>2, SumInt
  <2>6. SumFunctionOnSet(executed, S) = carried[p] + orders[p].filled + SumFunctionOnSet(f, S)
    BY <2>1 DEF Balanced, ExecutedOf, SumFunction
  <2>7. carried[p] \in Int /\ orders[p].filled \in Int
    BY DEF Accounting, AccountShapes, IInv, RouterShapes, OrderShape
  <2>8. ExecutedOf(p)' = SumFunctionOnSet(executed', S)
    BY <2>1 DEF ExecutedOf
  <2>9. SumFunction([c \in Children(p) |-> Unseen(c)])' = SumFunctionOnSet(h, S)
    BY <2>1 DEF SumFunction
  <2>10. carried'[p] = carried[p] /\ orders'[p].filled = orders[p].filled
    OBVIOUS
  <2>11. SumFunctionOnSet(executed', S) = carried[p] + orders[p].filled + SumFunctionOnSet(h, S)
    <3> HIDE DEF S, f, h, k
    <3>. QED
      BY <2>3, <2>4, <2>5, <2>6, <2>7
  <2>. QED
    BY <2>8, <2>9, <2>10, <2>11 DEF Balanced
<1>8. Balance' /\ (\A c \in OrderIds : Recorded(c))'
  BY <1>6, <1>7 DEF Balance
<1>9. position'.net = SumFunctionOnSet(Signed, OrderIds)'
  BY DEF Accounting, Signed
<1>. QED
  BY <1>2, <1>3, <1>4, <1>5, <1>8, <1>9 DEF Accounting

-----------------------------------------------------------------------------
(* What process_matching does with the order it visits.                    *)

Entry(v, id)    == activeOrders[v][id]
Leaves(v, id)   == /\ activeOrders' = [activeOrders EXCEPT ![v][id] = Absent]
                   /\ pendingQueue' = [pendingQueue EXCEPT ![v] = Tail(@)]
Stays(v, id, n) == /\ activeOrders' = [activeOrders EXCEPT ![v][id].filled = n]
                   /\ pendingQueue' = [pendingQueue EXCEPT ![v] = Append(Tail(@), id)]
Executes(id, n) == executed' = [executed EXCEPT ![id] = @ + n]

EndsUnfilled(v, id, r) ==
    /\ r.state = "Canceled" \/ (r.state = "Rejected" /\ (VenueRejects \/ Entry(v, id).tif = "FOK"))
    /\ r.last = 0
    /\ Leaves(v, id) /\ Notify(<<r>>) /\ Executes(id, 0)

EndsFilled(v, id, n, r) ==
    /\ r.state = "Filled" /\ r.last = n /\ n > 0
    /\ Entry(v, id).filled + n = Entry(v, id).quantity
    /\ Leaves(v, id) /\ Notify(<<r>>) /\ Executes(id, n)

EndsInPart(v, id, n, r, s) ==
    /\ r.state = "PartiallyFilled" /\ r.last = n /\ n > 0
    /\ s.state = "Canceled" /\ s.last = 0
    /\ Entry(v, id).filled + n < Entry(v, id).quantity
    /\ Entry(v, id).tif = "IOC"
    /\ Leaves(v, id) /\ Notify(<<r, s>>) /\ Executes(id, n)

StaysInPart(v, id, n, r) ==
    /\ r.state = "PartiallyFilled" /\ r.last = n /\ n > 0
    /\ Entry(v, id).filled + n < Entry(v, id).quantity
    /\ Entry(v, id).tif = "GTC"
    /\ Stays(v, id, Entry(v, id).filled + n) /\ Notify(<<r>>) /\ Executes(id, n)

StaysMissed(v, id) ==
    /\ Entry(v, id).tif = "GTC"
    /\ Stays(v, id, Entry(v, id).filled) /\ Notify(<< >>) /\ Executes(id, 0)

Outcome(v, id) ==
    \/ \E r \in ReportShape : r.id = id /\ EndsUnfilled(v, id, r)
    \/ \E n \in Nat, r \in ReportShape : r.id = id /\ EndsFilled(v, id, n, r)
    \/ \E n \in Nat, r, s \in ReportShape : r.id = id /\ s.id = id /\ EndsInPart(v, id, n, r, s)
    \/ \E n \in Nat, r \in ReportShape : r.id = id /\ StaysInPart(v, id, n, r)
    \/ StaysMissed(v, id)

LEMMA Outcomes ==
  ASSUME IInv, executed \in [OrderIds -> Nat], NEW v \in Venues, VenueStep(v)
  PROVE  /\ UNCHANGED <<handlerVars, riskVars, gatewayVars, threadVars, connected>>
         /\ \/ UNCHANGED <<activeOrders, pendingQueue, reportQueue, lostReports, executed>>
            \/ \E id \in OrderIds : /\ batch[v] > 0 /\ id = Head(pendingQueue[v]) /\ Child(id)
                                    /\ Entry(v, id) \in BookShape
                                    /\ Outcome(v, id)
<1>u. UNCHANGED <<handlerVars, riskVars, gatewayVars, threadVars>>
  BY DEF VenueStep
<1>1. CASE MatchBegin(v)
  BY <1>1, <1>u DEF MatchBegin
<1>2. CASE batch[v] > 0
  <2>1. PICK id \in OrderIds : id = Head(pendingQueue[v])
    BY <1>2, Front
  <2>2. Child(id) /\ Entry(v, id) \in BookShape
    BY <1>2, <2>1, Front DEF Entry
  <2>3. PICK k \in Nat, m \in Nat : k = Entry(v, id).filled /\ m = Entry(v, id).quantity
    BY <2>2 DEF BookShape
  <2>0. executed = [executed EXCEPT ![id] = @ + 0]
    OBVIOUS
  <2>4. /\ CancelAck(id, k) \in ReportShape /\ Reject(id, k) \in ReportShape
        /\ CancelAck(id, k).id = id /\ CancelAck(id, k).state = "Canceled" /\ CancelAck(id, k).last = 0
        /\ Reject(id, k).id = id /\ Reject(id, k).state = "Rejected" /\ Reject(id, k).last = 0
    BY DEF CancelAck, Reject, Report, ReportShape
  <2>5. CASE MatchCanceled(v)
    <3>1. /\ Leave(v, id, <<CancelAck(id, k)>>) /\ executed' = executed /\ connected' = connected
      BY <2>1, <2>3, <2>5 DEF MatchCanceled, Visit, Entry
    <3>2. PICK r \in ReportShape : r = CancelAck(id, k)
      BY <2>4
    <3>3. EndsUnfilled(v, id, r)
      BY <3>1, <3>2, <2>0, <2>4 DEF EndsUnfilled, Leave, Leaves, Executes
    <3>. QED
      BY <1>2, <1>u, <2>1, <2>2, <2>4, <3>1, <3>2, <3>3 DEF Outcome
  <2>6. CASE MatchRejected(v)
    <3>1. /\ Leave(v, id, <<Reject(id, k)>>) /\ executed' = executed /\ connected' = connected /\ VenueRejects
      BY <2>1, <2>3, <2>6 DEF MatchRejected, Visit, Entry
    <3>2. PICK r \in ReportShape : r = Reject(id, k)
      BY <2>4
    <3>3. EndsUnfilled(v, id, r)
      BY <3>1, <3>2, <2>0, <2>4 DEF EndsUnfilled, Leave, Leaves, Executes
    <3>. QED
      BY <1>2, <1>u, <2>1, <2>2, <2>4, <3>1, <3>2, <3>3 DEF Outcome
  <2>7. CASE MatchMissed(v)
    <3>1. /\ executed' = executed /\ connected' = connected
          /\ \/ Entry(v, id).tif = "FOK" /\ Leave(v, id, <<Reject(id, k)>>)
             \/ Entry(v, id).tif = "IOC" /\ Leave(v, id, <<CancelAck(id, k)>>)
             \/ Entry(v, id).tif = "GTC" /\ Requeue(v, id, k, << >>)
      BY <2>1, <2>3, <2>7 DEF MatchMissed, Visit, Entry
    <3>2. CASE Entry(v, id).tif = "FOK" /\ Leave(v, id, <<Reject(id, k)>>)
      <4>1. PICK r \in ReportShape : r = Reject(id, k)
        BY <2>4
      <4>2. EndsUnfilled(v, id, r)
        BY <3>1, <3>2, <4>1, <2>0, <2>4 DEF EndsUnfilled, Leave, Leaves, Executes
      <4>. QED
        BY <1>2, <1>u, <2>1, <2>2, <2>4, <3>1, <4>1, <4>2 DEF Outcome
    <3>3. CASE Entry(v, id).tif = "IOC" /\ Leave(v, id, <<CancelAck(id, k)>>)
      <4>1. PICK r \in ReportShape : r = CancelAck(id, k)
        BY <2>4
      <4>2. EndsUnfilled(v, id, r)
        BY <3>1, <3>3, <4>1, <2>0, <2>4 DEF EndsUnfilled, Leave, Leaves, Executes
      <4>. QED
        BY <1>2, <1>u, <2>1, <2>2, <2>4, <3>1, <4>1, <4>2 DEF Outcome
    <3>4. CASE Entry(v, id).tif = "GTC" /\ Requeue(v, id, k, << >>)
      <4>1. StaysMissed(v, id)
        BY <3>1, <3>4, <2>0, <2>3 DEF StaysMissed, Requeue, Stays, Executes
      <4>. QED
        BY <1>2, <1>u, <2>1, <2>2, <3>1, <4>1 DEF Outcome
    <3>. QED
      BY <3>1, <3>2, <3>3, <3>4
  <2>8. ASSUME NEW n \in 1 .. Max(Quantities), MatchFilled(v, n)
        PROVE  connected' = connected /\ Outcome(v, id)
    <3>0. n \in Nat /\ n > 0
      OBVIOUS
    <3>1. /\ executed' = [executed EXCEPT ![id] = @ + n] /\ connected' = connected
          /\ \/ k + n = m /\ Leave(v, id, <<Fill(id, n, k + n, m)>>)
             \/ /\ k + n < m /\ Entry(v, id).tif = "IOC"
                /\ Leave(v, id, <<Fill(id, n, k + n, m), CancelAck(id, k + n)>>)
             \/ k + n < m /\ Entry(v, id).tif = "GTC" /\ Requeue(v, id, k + n, <<Fill(id, n, k + n, m)>>)
      BY <2>1, <2>3, <2>8 DEF MatchFilled, Visit, Entry
    <3>2. PICK w \in Nat : w = k + n
      BY <3>0
    <3>3. PICK r : r = Fill(id, n, w, m)
      OBVIOUS
    <3>4. PICK s : s = CancelAck(id, w)
      OBVIOUS
    <3>5. /\ r \in ReportShape /\ r.id = id /\ r.last = n
          /\ r.state = IF w = m THEN "Filled" ELSE "PartiallyFilled"
      BY <3>0, <3>3 DEF Fill, Report, ReportShape
    <3>6. s \in ReportShape /\ s.id = id /\ s.last = 0 /\ s.state = "Canceled"
      BY <3>4 DEF CancelAck, Report, ReportShape
    <3>7. \/ w = m /\ Leave(v, id, <<r>>)
          \/ w < m /\ Entry(v, id).tif = "IOC" /\ Leave(v, id, <<r, s>>)
          \/ w < m /\ Entry(v, id).tif = "GTC" /\ Requeue(v, id, w, <<r>>)
      BY <3>1, <3>2, <3>3, <3>4
    <3>8. Entry(v, id).filled + n = w /\ Entry(v, id).quantity = m
      BY <2>3, <3>2
    <3>9. CASE w = m /\ Leave(v, id, <<r>>)
      <4>1. EndsFilled(v, id, n, r)
        BY <3>0, <3>1, <3>5, <3>8, <3>9 DEF EndsFilled, Leave, Leaves, Executes
      <4>. QED
        BY <3>0, <3>1, <3>5, <4>1 DEF Outcome
    <3>10. CASE w < m /\ Entry(v, id).tif = "IOC" /\ Leave(v, id, <<r, s>>)
      <4>1. EndsInPart(v, id, n, r, s)
        BY <3>0, <3>1, <3>5, <3>6, <3>8, <3>10 DEF EndsInPart, Leave, Leaves, Executes
      <4>. QED
        BY <3>0, <3>1, <3>5, <3>6, <4>1 DEF Outcome
    <3>11. CASE w < m /\ Entry(v, id).tif = "GTC" /\ Requeue(v, id, w, <<r>>)
      <4>0. Stays(v, id, w) /\ Notify(<<r>>) /\ Executes(id, n)
        BY <3>1, <3>11 DEF Requeue, Stays, Executes
      <4>1. StaysInPart(v, id, n, r)
        BY <3>0, <3>5, <3>8, <3>11, <4>0 DEF StaysInPart
      <4>. QED
        BY <3>0, <3>1, <3>5, <4>1 DEF Outcome
    <3>. QED
      BY <3>7, <3>9, <3>10, <3>11
  <2>. QED
    BY <1>1, <1>2, <1>u, <2>1, <2>2, <2>5, <2>6, <2>7, <2>8 DEF VenueStep, ProcessMatching
<1>3. CASE ~(batch[v] > 0)
  <2>1. ~Visit(v)
    BY <1>3 DEF Visit
  <2>2. MatchBegin(v)
    BY <2>1 DEF VenueStep, ProcessMatching, MatchCanceled, MatchRejected, MatchMissed, MatchFilled
  <2>. QED
    BY <1>1, <2>2
<1>. QED
  BY <1>2, <1>3

(* A report that is pushed is unseen, in the queue or among the lost ones. *)
LEMMA UnseenNotified ==
  ASSUME IInv, Accounting, NEW r \in ReportShape, Child(r.id), Notify(<<r>>)
  PROVE  /\ \A c \in OrderIds : Unseen(c)' = Unseen(c) + Share(c, r)
         /\ lostReports' \in Seq(ReportShape)
         /\ \A i \in 1 .. Len(lostReports') : Child(lostReports'[i].id)
<1>0. /\ reportQueue \in Seq(ReportShape) /\ Len(reportQueue) <= ReportCapacity
      /\ lostReports \in Seq(ReportShape)
  BY AccountingFacts
<1>1. \A c : InReports(c, reportQueue) \in Nat /\ InReports(c, lostReports) \in Nat
  BY <1>0, InReportsNat
<1>2. \A c : Share(c, r) \in Nat
  BY DEF Share, ReportShape
<1>3. \A i \in 1 .. Len(lostReports) : Child(lostReports[i].id)
  BY DEF Accounting, LostOfChildren
<1>4. CASE reportQueue' = Append(reportQueue, r) /\ lostReports' = lostReports
  <2>1. ASSUME NEW c \in OrderIds PROVE Unseen(c)' = Unseen(c) + Share(c, r)
    <3>1. InReports(c, Append(reportQueue, r)) = InReports(c, reportQueue) + Share(c, r)
      BY <1>0, InReportsAppend
    <3>2. Unseen(c)' = InReports(c, Append(reportQueue, r)) + InReports(c, lostReports)
      BY <1>4 DEF Unseen, InReports
    <3>. QED
      BY <1>1, <1>2, <3>1, <3>2 DEF Unseen
  <2>. QED
    BY <1>0, <1>3, <1>4, <2>1
<1>5. CASE reportQueue' = reportQueue /\ lostReports' = Append(lostReports, r)
  <2>1. ASSUME NEW c \in OrderIds PROVE Unseen(c)' = Unseen(c) + Share(c, r)
    <3>1. InReports(c, Append(lostReports, r)) = InReports(c, lostReports) + Share(c, r)
      BY <1>0, InReportsAppend
    <3>2. Unseen(c)' = InReports(c, reportQueue) + InReports(c, Append(lostReports, r))
      BY <1>5 DEF Unseen, InReports
    <3>. QED
      BY <1>1, <1>2, <3>1, <3>2 DEF Unseen
  <2>2. /\ lostReports' \in Seq(ReportShape) /\ Len(lostReports') = Len(lostReports) + 1
        /\ \A i \in 1 .. Len(lostReports) : lostReports'[i] = lostReports[i]
        /\ lostReports'[Len(lostReports) + 1] = r
    BY <1>0, <1>5
  <2>3. ASSUME NEW i \in 1 .. Len(lostReports') PROVE Child(lostReports'[i].id)
    <3>1. i \in 1 .. Len(lostReports) \/ i = Len(lostReports) + 1
      BY <1>0, <2>2
    <3>. QED
      BY <3>1, <2>2, <1>3
  <2>. QED
    BY <2>1, <2>2, <2>3
<1>. QED
  BY <1>0, <1>4, <1>5, NotifiedOne

LEMMA UnseenNotifiedTwo ==
  ASSUME IInv, Accounting, NEW r \in ReportShape, Child(r.id), NEW s \in ReportShape, Child(s.id),
         Notify(<<r, s>>)
  PROVE  /\ \A c \in OrderIds : Unseen(c)' = Unseen(c) + Share(c, r) + Share(c, s)
         /\ lostReports' \in Seq(ReportShape)
         /\ \A i \in 1 .. Len(lostReports') : Child(lostReports'[i].id)
<1>0. /\ reportQueue \in Seq(ReportShape) /\ Len(reportQueue) <= ReportCapacity
      /\ lostReports \in Seq(ReportShape)
  BY AccountingFacts
<1>1. \A c : InReports(c, reportQueue) \in Nat /\ InReports(c, lostReports) \in Nat
  BY <1>0, InReportsNat
<1>2. \A c : Share(c, r) \in Nat /\ Share(c, s) \in Nat
  BY DEF Share, ReportShape
<1>3. \A i \in 1 .. Len(lostReports) : Child(lostReports[i].id)
  BY DEF Accounting, LostOfChildren
<1>4. /\ Append(reportQueue, r) \in Seq(ReportShape) /\ Append(lostReports, r) \in Seq(ReportShape)
  BY <1>0
<1>5. ASSUME NEW c
      PROVE  /\ InReports(c, Append(reportQueue, r)) = InReports(c, reportQueue) + Share(c, r)
             /\ InReports(c, Append(Append(reportQueue, r), s))
                  = InReports(c, Append(reportQueue, r)) + Share(c, s)
             /\ InReports(c, Append(lostReports, r)) = InReports(c, lostReports) + Share(c, r)
             /\ InReports(c, Append(lostReports, s)) = InReports(c, lostReports) + Share(c, s)
             /\ InReports(c, Append(Append(lostReports, r), s))
                  = InReports(c, Append(lostReports, r)) + Share(c, s)
  BY <1>0, <1>4, InReportsAppend
<1>6. CASE reportQueue' = Append(Append(reportQueue, r), s) /\ lostReports' = lostReports
  <2>1. ASSUME NEW c \in OrderIds PROVE Unseen(c)' = Unseen(c) + Share(c, r) + Share(c, s)
    <3>2. Unseen(c)' = InReports(c, Append(Append(reportQueue, r), s)) + InReports(c, lostReports)
      BY <1>6 DEF Unseen, InReports
    <3>. QED
      BY <1>1, <1>2, <1>5, <3>2 DEF Unseen
  <2>. QED
    BY <1>0, <1>3, <1>6, <2>1
<1>7. CASE reportQueue' = Append(reportQueue, r) /\ lostReports' = Append(lostReports, s)
  <2>1. ASSUME NEW c \in OrderIds PROVE Unseen(c)' = Unseen(c) + Share(c, r) + Share(c, s)
    <3>2. Unseen(c)' = InReports(c, Append(reportQueue, r)) + InReports(c, Append(lostReports, s))
      BY <1>7 DEF Unseen, InReports
    <3>. QED
      BY <1>1, <1>2, <1>5, <3>2 DEF Unseen
  <2>2. /\ lostReports' \in Seq(ReportShape) /\ Len(lostReports') = Len(lostReports) + 1
        /\ \A i \in 1 .. Len(lostReports) : lostReports'[i] = lostReports[i]
        /\ lostReports'[Len(lostReports) + 1] = s
    BY <1>0, <1>7
  <2>3. ASSUME NEW i \in 1 .. Len(lostReports') PROVE Child(lostReports'[i].id)
    <3>1. i \in 1 .. Len(lostReports) \/ i = Len(lostReports) + 1
      BY <1>0, <2>2
    <3>. QED
      BY <3>1, <2>2, <1>3
  <2>. QED
    BY <2>1, <2>2, <2>3
<1>8. CASE reportQueue' = reportQueue /\ lostReports' = Append(Append(lostReports, r), s)
  <2>1. ASSUME NEW c \in OrderIds PROVE Unseen(c)' = Unseen(c) + Share(c, r) + Share(c, s)
    <3>2. Unseen(c)' = InReports(c, reportQueue) + InReports(c, Append(Append(lostReports, r), s))
      BY <1>8 DEF Unseen, InReports
    <3>. QED
      BY <1>1, <1>2, <1>5, <3>2 DEF Unseen
  <2>2. /\ lostReports' \in Seq(ReportShape) /\ Len(lostReports') = Len(lostReports) + 2
        /\ \A i \in 1 .. Len(lostReports) : lostReports'[i] = lostReports[i]
        /\ lostReports'[Len(lostReports) + 1] = r /\ lostReports'[Len(lostReports) + 2] = s
    BY <1>0, <1>8
  <2>3. ASSUME NEW i \in 1 .. Len(lostReports') PROVE Child(lostReports'[i].id)
    <3>1. i \in 1 .. Len(lostReports) \/ i = Len(lostReports) + 1 \/ i = Len(lostReports) + 2
      BY <1>0, <2>2
    <3>. QED
      BY <3>1, <2>2, <1>3
  <2>. QED
    BY <2>1, <2>2, <2>3
<1>. QED
  BY <1>0, <1>6, <1>7, <1>8, NotifiedTwo

LEMMA UnseenSame ==
  ASSUME reportQueue' = reportQueue, lostReports' = lostReports, NEW c
  PROVE  Unseen(c)' = Unseen(c)
  BY DEF Unseen, InReports

(* A venue's report of n for the child id, and its further report. *)
LEMMA VenueAccounting ==
  ASSUME IInv, Accounting, NEW v \in Venues, VenueStep(v)
  PROVE  Accounting'
<1>0. executed \in [OrderIds -> Nat]
  BY DEF Accounting, AccountShapes
<1>1. UNCHANGED <<handlerVars, riskVars, gatewayVars, threadVars>>
  BY <1>0, Outcomes
<1>2. UNCHANGED <<fills, carried, clientQty, parentOf, orders, deferred, position, nextId, orderQueue, job, pc>>
  BY <1>1 DEF handlerVars, riskVars, gatewayVars, threadVars
<1>3. CASE UNCHANGED <<activeOrders, pendingQueue, reportQueue, lostReports, executed>>
  <2>1. AccountShapes' /\ Clients' /\ Callbacks' /\ FreshJobs'
    BY <1>2, <1>3 DEF Accounting, AccountShapes, Clients, Callbacks, FreshJobs, Child
  <2>2. /\ LostOfChildren' /\ ChildrenTrade' /\ Balance' /\ (\A c \in OrderIds : Recorded(c))'
        /\ position'.net = SumFunctionOnSet(Signed, OrderIds)'
    BY <1>2, <1>3, AccountsStill
  <2>. QED
    BY <2>1, <2>2 DEF Accounting
<1>4. ASSUME NEW id \in OrderIds, Child(id), Entry(v, id) \in BookShape, Outcome(v, id) PROVE Accounting'
  <2>1. ASSUME NEW n \in Nat, Executes(id, n), NEW r \in ReportShape, r.id = id, r.last = n, Notify(<<r>>)
        PROVE  Accounting'
    <3>1. /\ \A c \in OrderIds : Unseen(c)' = Unseen(c) + Share(c, r)
          /\ lostReports' \in Seq(ReportShape)
          /\ \A i \in 1 .. Len(lostReports') : Child(lostReports'[i].id)
      BY <1>4, <2>1, UnseenNotified
    <3>2. \A c \in OrderIds : Unseen(c)' = Unseen(c) + (IF c = id THEN n ELSE 0)
      BY <2>1, <3>1 DEF Share
    <3>. QED
      BY <1>2, <1>4, <2>1, <3>1, <3>2, BookedStep DEF Executes
  <2>2. ASSUME NEW n \in Nat, Executes(id, n), NEW r \in ReportShape, r.id = id, r.last = n,
               NEW s \in ReportShape, s.id = id, s.last = 0, Notify(<<r, s>>)
        PROVE  Accounting'
    <3>1. /\ \A c \in OrderIds : Unseen(c)' = Unseen(c) + Share(c, r) + Share(c, s)
          /\ lostReports' \in Seq(ReportShape)
          /\ \A i \in 1 .. Len(lostReports') : Child(lostReports'[i].id)
      BY <1>4, <2>2, UnseenNotifiedTwo
    <3>2. ASSUME NEW c \in OrderIds PROVE Unseen(c)' = Unseen(c) + (IF c = id THEN n ELSE 0)
      <4>1. Unseen(c) \in Nat
        BY AccountingFacts
      <4>. QED
        BY <2>2, <3>1, <4>1 DEF Share
    <3>. QED
      BY <1>2, <1>4, <2>2, <3>1, <3>2, BookedStep DEF Executes
  <2>3. CASE \E r \in ReportShape : r.id = id /\ EndsUnfilled(v, id, r)
    BY <2>1, <2>3 DEF EndsUnfilled
  <2>4. CASE \E n \in Nat, r \in ReportShape : r.id = id /\ EndsFilled(v, id, n, r)
    BY <2>1, <2>4 DEF EndsFilled
  <2>5. CASE \E n \in Nat, r, s \in ReportShape : r.id = id /\ s.id = id /\ EndsInPart(v, id, n, r, s)
    BY <2>2, <2>5 DEF EndsInPart
  <2>6. CASE \E n \in Nat, r \in ReportShape : r.id = id /\ StaysInPart(v, id, n, r)
    BY <2>1, <2>6 DEF StaysInPart
  <2>7. CASE StaysMissed(v, id)
    <3>1. reportQueue' = reportQueue /\ lostReports' = lostReports
      BY <2>7, AccountingFacts, NotifiedNone DEF StaysMissed
    <3>2. executed' = [executed EXCEPT ![id] = @ + 0]
      BY <2>7 DEF StaysMissed, Executes
    <3>3. \A c \in OrderIds : Unseen(c)' = Unseen(c) + (IF c = id THEN 0 ELSE 0)
      BY <3>1, UnseenSame, AccountingFacts
    <3>4. lostReports' \in Seq(ReportShape) /\ \A i \in 1 .. Len(lostReports') : Child(lostReports'[i].id)
      BY <3>1 DEF Accounting, AccountShapes, LostOfChildren
    <3>5. 0 \in Nat
      OBVIOUS
    <3>. QED
      BY <1>2, <1>4, <3>2, <3>3, <3>4, <3>5, BookedStep
  <2>. QED
    BY <1>4, <2>3, <2>4, <2>5, <2>6, <2>7 DEF Outcome
<1>. QED
  BY <1>0, <1>3, <1>4, Outcomes


-----------------------------------------------------------------------------
(* The router's steps.                                                     *)

(* Steps that move no quantity: clients and operators, the loops, the       *)
(* cancels, the routing decision and the orders that are refused.           *)
LEMMA StillAccounting ==
  ASSUME IInv, Accounting,
         UNCHANGED <<executed, fills, carried, lostReports, reportQueue, parentOf, orders, deferred,
                     clientQty, nextId>>,
         position'.net = position.net,
         pc'["exec"] = "deferred" \/ pc["exec"] # "deferred",
         FreshJobs'
  PROVE  Accounting'
<1>1. AccountShapes' /\ Clients'
  BY DEF Accounting, AccountShapes, Clients, Child
<1>2. Callbacks'
  BY DEF Accounting, Callbacks, Child
<1>3. /\ LostOfChildren' /\ ChildrenTrade' /\ Balance' /\ (\A c \in OrderIds : Recorded(c))'
      /\ position'.net = SumFunctionOnSet(Signed, OrderIds)'
  BY AccountsStill
<1>. QED
  BY <1>1, <1>2, <1>3 DEF Accounting

(* A thread that goes elsewhere than to the risk check takes no new order. *)
LEMMA OthersFresh ==
  ASSUME IInv, Accounting, NEW t \in Threads, NEW to, to # "admit", pc' = [pc EXCEPT ![t] = to],
         job' = job, orderQueue' = orderQueue
  PROVE  FreshJobs'
<1>1. \A z \in Threads : pc'[z] = "admit" => pc[z] = "admit"
  BY DEF IInv, ThreadShapes
<1>. QED
  BY <1>1 DEF Accounting, FreshJobs

LEMMA LoopAccounting ==
  ASSUME IInv, Accounting, NEW t \in Threads, Loop(t)
  PROVE  Accounting'
<1>1. PICK to : to # "admit" /\ to # "deferred" /\ pc' = [pc EXCEPT ![t] = to]
  <2>1. (IF running THEN Drain(t) ELSE "exited") \notin {"admit", "deferred"}
    BY DEF Drain
  <2>. QED
    BY <2>1 DEF Loop, GoTo
<1>2. /\ UNCHANGED <<executed, fills, carried, lostReports, reportQueue, parentOf, orders, deferred,
                     clientQty, nextId, position, job, orderQueue>>
      /\ pc[t] = "loop"
  BY DEF Loop, exchangeVars, handlerVars, riskVars, gatewayVars
<1>3. pc'["exec"] = "deferred" \/ pc["exec"] # "deferred"
  BY <1>1, <1>2 DEF IInv, ThreadShapes
<1>4. FreshJobs'
  BY <1>1, <1>2, OthersFresh
<1>. QED
  BY <1>2, <1>3, <1>4, StillAccounting

LEMMA ClientAccounting ==
  ASSUME IInv, Accounting,
         (\E id \in OrderIds : CancelOrder(id)) \/ KillSwitch \/ Stop \/ StopDisconnect \/ UNCHANGED vars
  PROVE  Accounting'
<1>1. UNCHANGED <<executed, fills, carried, lostReports, reportQueue, parentOf, orders, deferred,
                  clientQty, nextId, position, job, orderQueue, pc>>
  <2>1. CASE \E id \in OrderIds : CancelOrder(id)
    BY <2>1 DEF CancelOrder, exchangeVars, handlerVars, riskVars, threadVars
  <2>2. CASE KillSwitch
    BY <2>2 DEF KillSwitch, ActivateKillSwitch, DeactivateKillSwitch, exchangeVars, handlerVars,
                gatewayVars, threadVars
  <2>3. CASE Stop
    BY <2>3 DEF Stop, exchangeVars, handlerVars, riskVars, threadVars
  <2>4. CASE StopDisconnect
    BY <2>4 DEF StopDisconnect, Disconnect, handlerVars, riskVars, gatewayVars, threadVars
  <2>5. CASE UNCHANGED vars
    BY <2>5 DEF vars, exchangeVars, handlerVars, riskVars, gatewayVars, threadVars
  <2>. QED
    BY <2>1, <2>2, <2>3, <2>4, <2>5
<1>2. FreshJobs'
  BY <1>1 DEF Accounting, FreshJobs
<1>. QED
  BY <1>1, <1>2, StillAccounting

LEMMA CancelsAccounting ==
  ASSUME IInv, Accounting, PopCancel \/ CancelChild
  PROVE  Accounting'
<1>1. UNCHANGED <<executed, fills, carried, lostReports, reportQueue, parentOf, orders, deferred,
                  clientQty, nextId, position, job, orderQueue>>
  <2>1. CASE PopCancel
    BY <2>1 DEF PopCancel, exchangeVars, handlerVars, riskVars
  <2>2. CASE CancelChild
    <3>1. UNCHANGED <<executed, lostReports, reportQueue>>
      BY <2>2 DEF CancelChild, CancelAtVenue, exchangeVars
    <3>. QED
      BY <2>2, <3>1 DEF CancelChild, handlerVars, riskVars, gatewayVars
  <2>. QED
    BY <2>1, <2>2
<1>2. "order" \in Threads /\ pc["order"] \in {"cancels", "cancelling"} /\ pc = [z \in Threads |-> pc[z]]
  <2>1. "order" \in Threads /\ pc["order"] \in {"cancels", "cancelling"}
    BY DEF PopCancel, CancelChild, Threads
  <2>2. pc = [z \in Threads |-> pc[z]]
    BY DEF IInv, ThreadShapes
  <2>. QED
    BY <2>1, <2>2
<1>3. PICK to : to # "admit" /\ pc' = [pc EXCEPT !["order"] = to]
  <2>1. CASE pc' = pc
    <3>1. pc' = [pc EXCEPT !["order"] = pc["order"]]
      BY <2>1, <1>2
    <3>. QED
      BY <3>1, <1>2
  <2>2. CASE pc' = [pc EXCEPT !["order"] = "cancelling"]
    BY <2>2
  <2>3. CASE pc' = [pc EXCEPT !["order"] = "loop"]
    BY <2>3
  <2>4. CASE pc' = [pc EXCEPT !["order"] = "cancels"]
    BY <2>4
  <2>. QED
    BY <2>1, <2>2, <2>3, <2>4 DEF PopCancel, CancelChild, GoTo
<1>4. FreshJobs'
  BY <1>1, <1>2, <1>3, OthersFresh
<1>5. pc'["exec"] = pc["exec"]
  BY <1>2, <1>3 DEF Threads
<1>. QED
  BY <1>1, <1>4, <1>5, StillAccounting

LEMMA RouteAccounting ==
  ASSUME IInv, Accounting, NEW t \in Threads, Route(t)
  PROVE  Accounting'
<1>1. /\ UNCHANGED <<executed, fills, carried, lostReports, reportQueue, parentOf, orders, deferred,
                     clientQty, nextId, position, job, orderQueue>>
      /\ pc[t] = "route"
  BY DEF Route, exchangeVars, handlerVars, riskVars
<1>2. PICK to : to # "admit" /\ pc' = [pc EXCEPT ![t] = to]
  <2>1. CASE pc' = [pc EXCEPT ![t] = "slice"]
    BY <2>1
  <2>2. CASE pc' = [pc EXCEPT ![t] = Drain(t)]
    <3>1. Drain(t) # "admit"
      BY DEF Drain
    <3>. QED
      BY <2>2, <3>1
  <2>. QED
    BY <2>1, <2>2 DEF Route, GoTo
<1>3. FreshJobs'
  BY <1>1, <1>2, OthersFresh
<1>4. pc'["exec"] = "deferred" \/ pc["exec"] # "deferred"
  BY <1>1, <1>2 DEF IInv, ThreadShapes, Threads
<1>. QED
  BY <1>1, <1>3, <1>4, StillAccounting

LEMMA PopOrderAccounting ==
  ASSUME IInv, Accounting, PopOrder
  PROVE  Accounting'
<1>1. UNCHANGED <<executed, fills, carried, lostReports, reportQueue, parentOf, orders, deferred,
                  clientQty, nextId, position>>
  BY DEF PopOrder, exchangeVars, handlerVars, riskVars
<1>0. /\ "order" \in Threads /\ orderQueue \in Seq([id : OrderIds, order : OrderShape])
      /\ job \in [Threads -> JobShape] /\ pc["order"] = "orders"
      /\ pc \in [Threads -> {"loop", "orders", "admit", "route", "slice", "send", "cancels", "cancelling",
                           "reports", "deferred", "exited"}]
  BY DEF PopOrder, Threads, IInv, RouterShapes, ThreadShapes
<1>q. FreshJobs
  BY DEF Accounting
<1>2. CASE orderQueue = << >>
  <2>1. UNCHANGED <<job, orderQueue>> /\ pc' = [pc EXCEPT !["order"] = "cancels"]
    BY <1>2 DEF PopOrder, GoTo
  <2>2. FreshJobs'
    BY <1>0, <2>1, OthersFresh
  <2>3. pc'["exec"] = pc["exec"]
    BY <1>0, <2>1 DEF Threads
  <2>. QED
    BY <1>1, <2>2, <2>3, StillAccounting
<1>3. CASE orderQueue # << >>
  <2>0. PICK j, rest : j = Head(orderQueue) /\ rest = Tail(orderQueue)
    OBVIOUS
  <2>1. /\ job' = [job EXCEPT !["order"] = j] /\ orderQueue' = rest
        /\ pc' = [pc EXCEPT !["order"] = "admit"]
    BY <1>3, <2>0 DEF PopOrder, GoTo
  <2>2. /\ rest \in Seq([id : OrderIds, order : OrderShape]) /\ Len(orderQueue) = Len(rest) + 1
        /\ \A i \in 1 .. Len(rest) : rest[i] = orderQueue[i + 1] /\ i + 1 \in 1 .. Len(orderQueue)
        /\ j = orderQueue[1] /\ 1 \in 1 .. Len(orderQueue)
    BY <1>0, <1>3, <2>0
  <2>3. j.order.filled = 0 /\ \A i \in 1 .. Len(rest) : rest[i].order.filled = 0
    BY <2>2, <1>q DEF FreshJobs
  <2>4. /\ job'["order"] = j /\ job'["exec"] = job["exec"]
        /\ pc'["exec"] = pc["exec"]
    BY <1>0, <2>1 DEF Threads
  <2>5. ASSUME NEW z \in Threads, pc'[z] = "admit" PROVE job'[z].order.filled = 0
    <3>1. CASE z = "order"
      BY <3>1, <2>3, <2>4
    <3>2. CASE z = "exec"
      BY <3>2, <2>4, <2>5, <1>q DEF FreshJobs, Threads
    <3>. QED
      BY <3>1, <3>2 DEF Threads
  <2>6. FreshJobs'
    BY <2>1, <2>3, <2>5 DEF FreshJobs
  <2>. QED
    BY <1>1, <2>4, <2>6, StillAccounting
<1>. QED
  BY <1>2, <1>3

LEMMA SubmitAccounting ==
  ASSUME IInv, Accounting, NEW side \in SideChoices, NEW quantity \in Quantities, NEW tif \in TifChoices,
         NEW strategy \in Strategies, SubmitOrder(side, quantity, tif, strategy)
  PROVE  Accounting'
<1>1. UNCHANGED <<executed, fills, carried, lostReports, reportQueue, parentOf, orders, deferred,
                  position, job, pc>>
  BY DEF SubmitOrder, exchangeVars, handlerVars, riskVars, threadVars
<1>2. /\ nextId \in OrderIds /\ nextId \in Nat /\ nextId' = nextId + 1
      /\ clientQty' = [clientQty EXCEPT ![nextId] = quantity]
      /\ quantity \in Nat
  BY GatewayAssumption DEF SubmitOrder, IInv, RouterShapes
<1>3. clientQty \in [OrderIds -> Nat]
  BY DEF Accounting, AccountShapes
<1>4. AccountShapes'
  <2>1. clientQty' \in [OrderIds -> Nat]
    BY <1>2, <1>3
  <2>. QED
    BY <1>1, <2>1 DEF Accounting, AccountShapes
<1>5. Clients'
  <2>1. ASSUME NEW p \in OrderIds, clientQty'[p] > 0 PROVE ~Child(p) /\ p < nextId + 1
    <3>0. p \in Nat
      BY Ids
    <3>1. CASE p = nextId
      <4>1. ~Tracked(p)
        BY <3>0, <3>1 DEF IInv, Family
      <4>2. ~Child(p)
        BY <4>1 DEF IInv, Family
      <4>. QED
        BY <3>0, <3>1, <4>2
    <3>2. CASE p # nextId
      <4>1. clientQty[p] > 0
        BY <1>2, <1>3, <2>1, <3>2
      <4>2. ~Child(p) /\ p < nextId
        BY <4>1 DEF Accounting, Clients
      <4>. QED
        BY <3>0, <4>2, <1>2
    <3>. QED
      BY <3>1, <3>2
  <2>. QED
    BY <1>1, <1>2, <2>1 DEF Clients, Child
<1>6. Callbacks'
  BY <1>1 DEF Accounting, Callbacks, Child
<1>7. FreshJobs'
  <2>0. PICK x : x = [id |-> nextId,
                      order |-> MakeOrder("New", side, quantity, tif, strategy, INVALID_ORDER_ID)]
    OBVIOUS
  <2>1. orderQueue' = Append(orderQueue, x)
    BY <2>0 DEF SubmitOrder
  <2>2. x.order.filled = 0
    BY <2>0 DEF MakeOrder
  <2>3. orderQueue \in Seq([id : OrderIds, order : OrderShape]) /\ FreshJobs
    BY DEF IInv, RouterShapes, Accounting
  <2>4. ASSUME NEW i \in 1 .. Len(orderQueue') PROVE orderQueue'[i].order.filled = 0
    <3>1. CASE i \in 1 .. Len(orderQueue)
      BY <3>1, <2>1, <2>3 DEF FreshJobs
    <3>2. CASE i \notin 1 .. Len(orderQueue)
      <4>1. i = Len(orderQueue) + 1
        BY <3>2, <2>1, <2>3
      <4>2. orderQueue'[i] = x
        BY <4>1, <2>1, <2>3
      <4>. QED
        BY <4>2, <2>2
    <3>. QED
      BY <3>1, <3>2
  <2>. QED
    BY <1>1, <2>3, <2>4 DEF FreshJobs
<1>8. /\ LostOfChildren' /\ ChildrenTrade' /\ Balance' /\ (\A c \in OrderIds : Recorded(c))'
      /\ position'.net = SumFunctionOnSet(Signed, OrderIds)'
  BY <1>1, AccountsStill
<1>. QED
  BY <1>4, <1>5, <1>6, <1>7, <1>8 DEF Accounting


(* What the children of an order executed and what is unseen of it. *)
LEMMA ChildrenStill ==
  ASSUME NEW p, UNCHANGED <<executed, reportQueue, lostReports>>, Children(p)' = Children(p)
  PROVE  /\ ExecutedOf(p)' = ExecutedOf(p)
         /\ SumFunction([c \in Children(p) |-> Unseen(c)])' = SumFunction([c \in Children(p) |-> Unseen(c)])
  BY DEF ExecutedOf, Unseen, InReports

(* The position follows the fills, whatever the side of an order without one. *)
LEMMA SignedStill ==
  ASSUME Accounting, fills' = fills, \A c \in OrderIds : fills[c] # 0 => orders'[c].side = orders[c].side
  PROVE  SumFunctionOnSet(Signed, OrderIds)' = SumFunctionOnSet(Signed, OrderIds)
<1>1. ASSUME NEW c \in OrderIds
      PROVE  (IF orders'[c].side = "Buy" THEN fills[c] ELSE -fills[c])
               = (IF orders[c].side = "Buy" THEN fills[c] ELSE -fills[c])
  <2>1. CASE fills[c] = 0
    <3>1. fills[c] \in Int
      BY <2>1
    <3>2. -fills[c] = 0 - fills[c]
      BY <3>1, Negative
    <3>3. -fills[c] = fills[c]
      BY <2>1, <3>2
    <3>. QED
      BY <3>3
  <2>2. CASE fills[c] # 0
    BY <2>2
  <2>. QED
    BY <2>1, <2>2
<1>2. Signed' = Signed
  BY <1>1 DEF Signed
<1>. QED
  BY <1>2

\* Thread t tracks order p as o.
Admits(t, p, o) ==
    /\ p = job[t].id /\ p \in OrderIds /\ ~Child(p) /\ p < nextId
    /\ job[t].order \in OrderShape /\ o = [job[t].order EXCEPT !.state = "PendingNew"]
    /\ t = "order" => ~Tracked(p)
    /\ t = "exec" => Open(p)
    /\ TRUE \in CheckOrder(job[t].order.side, job[t].order.quantity)
    /\ pc[t] = "admit" /\ pc' = [pc EXCEPT ![t] = "route"]
    /\ orders' = [orders EXCEPT ![p] = o]
    /\ carried' = [carried EXCEPT ![p] = @ + orders[p].filled]
    /\ UNCHANGED <<activeOrders, pendingQueue, batch, connected, reportQueue, lostReports, executed,
                   childrenOf, parentOf, position, nextId, orderQueue, cancelQueue, fills, clientQty, rejected,
                   completed, canceled, job, slices, sending, cancelList, deferred>>

\* Thread t gives up its order and returns to its queue.
GivesUp(t) ==
    /\ pc[t] \in {"admit", "route"} /\ pc' = [pc EXCEPT ![t] = Drain(t)]
    /\ rejected' = rejected \cup {job[t].id}
    /\ UNCHANGED <<activeOrders, pendingQueue, batch, connected, reportQueue, lostReports, executed,
                   orders, childrenOf, parentOf, position, nextId, orderQueue, cancelQueue, fills, clientQty,
                   carried, completed, canceled, job, slices, sending, cancelList, deferred>>

LEMMA AdmitEffect ==
  ASSUME IInv, NEW t \in Threads, Admit(t)
  PROVE  GivesUp(t) \/ \E p \in OrderIds, o \in OrderShape : Admits(t, p, o)
<1>c. UNCHANGED <<activeOrders, pendingQueue, batch, connected, reportQueue, lostReports, executed, position,
                  nextId, orderQueue, cancelQueue, fills, clientQty, completed, canceled,
                  job, slices, sending, cancelList, deferred>>
  BY DEF Admit, exchangeVars, riskVars
<1>0. pc[t] = "admit"
  BY DEF Admit
<1>1. CASE rejected' = rejected \cup {job[t].id} /\ GoTo(t, Drain(t)) /\ UNCHANGED <<handlerVars, carried>>
  BY <1>0, <1>1, <1>c DEF GivesUp, GoTo, handlerVars
<1>2. CASE /\ TRUE \in CheckOrder(job[t].order.side, job[t].order.quantity)
           /\ TrackOrder(job[t].id, [job[t].order EXCEPT !.state = Apply(@, "Submit")])
           /\ carried' = [carried EXCEPT ![job[t].id] = @ + orders[job[t].id].filled]
           /\ GoTo(t, "route") /\ UNCHANGED rejected
  <2>1. PICK p, o : p = job[t].id /\ o = [job[t].order EXCEPT !.state = "PendingNew"]
    OBVIOUS
  <2>2. /\ p \in OrderIds /\ ~Child(p) /\ p < nextId
        /\ job[t].order \in OrderShape /\ job[t].order.state = "New"
        /\ t = "order" => ~Tracked(p)
        /\ t = "exec" => Open(p)
    BY <1>0, <2>1, Candidate
  <2>3. o = [job[t].order EXCEPT !.state = Apply(@, "Submit")]
    BY <2>1, <2>2, Submission
  <2>4. o \in OrderShape
    <3>1. "PendingNew" \in OrderStates
      BY DEF OrderStates
    <3>. QED
      BY <3>1, <2>1, <2>2 DEF OrderShape
  <2>5. Admits(t, p, o)
    BY <1>0, <1>2, <1>c, <2>1, <2>2, <2>3 DEF Admits, GoTo, TrackOrder
  <2>. QED
    BY <2>2, <2>4, <2>5
<1>. QED
  BY <1>1, <1>2 DEF Admit

LEMMA GivesUpAccounting ==
  ASSUME IInv, Accounting, NEW t \in Threads, GivesUp(t)
  PROVE  Accounting'
<1>1. PICK to : to = Drain(t)
  OBVIOUS
<1>2. to # "admit" /\ pc' = [pc EXCEPT ![t] = to] /\ pc[t] # "deferred"
  BY <1>1 DEF GivesUp, Drain
<1>3. UNCHANGED <<executed, fills, carried, lostReports, reportQueue, parentOf, orders, deferred,
                  clientQty, nextId, position, job, orderQueue>>
  BY DEF GivesUp
<1>4. FreshJobs'
  BY <1>2, <1>3, OthersFresh
<1>5. pc'["exec"] = "deferred" \/ pc["exec"] # "deferred"
  BY <1>2 DEF IInv, ThreadShapes, Threads
<1>. QED
  BY <1>3, <1>4, <1>5, StillAccounting

LEMMA AdmitAccounting ==
  ASSUME IInv, Accounting, NEW t \in Threads, NEW p \in OrderIds, NEW o \in OrderShape, Admits(t, p, o)
  PROVE  Accounting'
<1>u. /\ UNCHANGED <<executed, fills, lostReports, reportQueue, parentOf, deferred, clientQty, nextId, position,
                     job, orderQueue>>
      /\ orders' = [orders EXCEPT ![p] = o] /\ pc' = [pc EXCEPT ![t] = "route"] /\ pc[t] = "admit"
      /\ carried' = [carried EXCEPT ![p] = @ + orders[p].filled]
  BY DEF Admits
<1>a. AccountShapes /\ FreshJobs /\ ChildrenTrade /\ ~Child(p) /\ orders \in [OrderIds -> OrderShape]
  BY DEF Accounting, Admits, IInv, RouterShapes
<1>f. orders[p].filled \in Nat /\ carried[p] \in Nat
  <2>1. orders[p] \in OrderShape
    BY <1>a
  <2>. QED
    BY <2>1, <1>a DEF OrderShape, AccountShapes
<1>o. o.filled = 0
  <2>1. job[t].order.filled = 0
    BY <1>a, <1>u DEF FreshJobs
  <2>. QED
    BY <2>1 DEF Admits, OrderShape
<1>n. /\ orders'[p] = o /\ \A x \in OrderIds : x # p => orders'[x] = orders[x]
      /\ carried'[p] = carried[p] + orders[p].filled
      /\ \A x \in OrderIds : x # p => carried'[x] = carried[x]
  BY <1>a, <1>u DEF AccountShapes
<1>1. AccountShapes'
  <2>1. carried' \in [OrderIds -> Nat]
    <3>1. carried[p] + orders[p].filled \in Nat
      BY <1>f
    <3>. QED
      BY <3>1, <1>a, <1>u DEF AccountShapes
  <2>. QED
    BY <2>1, <1>a, <1>u DEF AccountShapes
<1>2. LostOfChildren' /\ ChildrenTrade' /\ Clients'
  BY <1>u DEF Accounting, LostOfChildren, ChildrenTrade, Clients, Child
<1>3. FreshJobs'
  BY <1>u, OthersFresh
<1>4. Callbacks'
  <2>1. pc["exec"] = "deferred" => pc'["exec"] = "deferred"
    BY <1>u DEF IInv, ThreadShapes, Threads
  <2>. QED
    BY <2>1, <1>u DEF Accounting, Callbacks, Child
<1>5. Balance'
  <2>1. ASSUME NEW q \in OrderIds, ~Child(q) PROVE Balanced(q)'
    <3>1. /\ ExecutedOf(q)' = ExecutedOf(q)
          /\ SumFunction([c \in Children(q) |-> Unseen(c)])' = SumFunction([c \in Children(q) |-> Unseen(c)])
      <4>1. Children(q)' = Children(q)
        BY <1>u DEF Children
      <4>. QED
        BY <4>1, <1>u, ChildrenStill
    <3>2. Balanced(q)
      BY <2>1 DEF Accounting, Balance
    <3>3. carried'[q] + orders'[q].filled = carried[q] + orders[q].filled
      <4>1. CASE q = p
        BY <4>1, <1>n, <1>o, <1>f
      <4>2. CASE q # p
        BY <4>2, <1>n
      <4>. QED
        BY <4>1, <4>2
    <3>. QED
      BY <3>1, <3>2, <3>3 DEF Balanced
  <2>. QED
    BY <2>1, <1>u DEF Balance, Child
<1>6. (\A c \in OrderIds : Recorded(c))'
  BY <1>u, UnseenSame DEF Accounting, Recorded
<1>7. position'.net = SumFunctionOnSet(Signed, OrderIds)'
  <2>1. ASSUME NEW c \in OrderIds, fills[c] # 0 PROVE orders'[c].side = orders[c].side
    <3>1. c # p
      BY <2>1, <1>a DEF ChildrenTrade
    <3>. QED
      BY <3>1, <1>n
  <2>2. SumFunctionOnSet(Signed, OrderIds)' = SumFunctionOnSet(Signed, OrderIds)
    BY <2>1, <1>u, SignedStill
  <2>. QED
    BY <2>2, <1>u DEF Accounting
<1>. QED
  BY <1>1, <1>2, <1>3, <1>4, <1>5, <1>6, <1>7 DEF Accounting


\* Thread t tracks c as a child of p, for its next slice.
Hands(t, p, c, o, slice) ==
    /\ p = job[t].id /\ p \in OrderIds /\ ~Child(p) /\ Tracked(p) /\ p < c
    /\ c = nextId /\ ~Child(c) /\ ~Tracked(c) /\ p # c
    /\ slices[t] # << >> /\ slice = Head(slices[t])
    /\ o = [state |-> "PendingNew", side |-> job[t].order.side, quantity |-> slice.quantity, filled |-> 0,
            remaining |-> slice.quantity, tif |-> slice.tif, strategy |-> job[t].order.strategy,
            venue |-> slice.venue]
    /\ OnOrderAccepted(job[t].order.side, slice.quantity)
    /\ pc[t] = "slice" /\ pc' = [pc EXCEPT ![t] = "send"]
    /\ orders' = [orders EXCEPT ![c] = o]
    /\ childrenOf' = [childrenOf EXCEPT ![p] = Append(childrenOf[p], c)]
    /\ parentOf' = [parentOf EXCEPT ![c] = p]
    /\ nextId' = c + 1
    /\ sending' = [sending EXCEPT ![t] = c]
    /\ slices' = [slices EXCEPT ![t] = Tail(slices[t])]
    /\ UNCHANGED <<activeOrders, pendingQueue, batch, connected, reportQueue, lostReports, executed,
                   orderQueue, cancelQueue, fills, clientQty, carried, rejected,
                   completed, canceled, job, cancelList, deferred>>

LEMMA SliceEffect ==
  ASSUME IInv, NEW t \in Threads, Slice(t)
  PROVE  \E p, c \in OrderIds, o \in OrderShape, slice \in SliceShape : Hands(t, p, c, o, slice)
<1>0. pc[t] = "slice" /\ nextId \in OrderIds
  BY DEF Slice
<1>f. Family /\ Working /\ RouterShapes /\ ThreadShapes
  BY DEF IInv
<1>h. PICK slice : slice = Head(slices[t])
  OBVIOUS
<1>s. slice \in SliceShape /\ slices[t] # << >>
  <2>1. slices[t] \in Seq(SliceShape) /\ slices[t] # << >>
    BY <1>0, <1>f DEF ThreadShapes, Working
  <2>. QED
    BY <1>h, <2>1
<1>a. PICK c, p : c = nextId /\ p = job[t].id
  OBVIOUS
<1>b. PICK o : o = [state |-> "PendingNew", side |-> job[t].order.side, quantity |-> slice.quantity, filled |-> 0,
                    remaining |-> slice.quantity, tif |-> slice.tif, strategy |-> job[t].order.strategy,
                    venue |-> slice.venue]
  OBVIOUS
<1>m. o = MakeOrder(Apply("New", "Submit"), job[t].order.side, slice.quantity, slice.tif,
                    job[t].order.strategy, slice.venue)
  BY <1>b, Submission DEF MakeOrder
<1>o. o \in OrderShape
  <2>1. job[t].order \in OrderShape
    BY <1>f DEF ThreadShapes, JobShape
  <2>2. job[t].order.side \in Sides /\ job[t].order.strategy \in {"BestPrice", "LiquiditySweep"}
    BY <2>1 DEF OrderShape
  <2>3. slice.quantity \in Nat /\ slice.tif \in TimesInForce /\ slice.venue \in Venues
    BY <1>s DEF SliceShape
  <2>4. "PendingNew" \in OrderStates
    BY DEF OrderStates
  <2>. QED
    BY <1>b, <2>2, <2>3, <2>4 DEF OrderShape
<1>i. /\ c \in OrderIds /\ p \in OrderIds /\ p < c /\ p # c
      /\ ~Child(p) /\ Tracked(p) /\ ~Tracked(c) /\ ~Child(c)
  <2>1. c \in OrderIds /\ c \in Nat
    BY <1>0, <1>a, <1>f DEF RouterShapes
  <2>2. p \in OrderIds /\ ~Child(p) /\ Tracked(p) /\ p < c
    BY <1>0, <1>a, <1>f DEF Working
  <2>3. p \in Nat
    BY <2>2, IdNumber DEF AnyId
  <2>4. ~Tracked(c)
    BY <2>1, <1>a, <1>f DEF Family
  <2>5. ~Child(c)
    BY <2>1, <2>4, <1>f DEF Family
  <2>. QED
    BY <2>1, <2>2, <2>3, <2>4, <2>5
<1>u. /\ orders' = [orders EXCEPT ![c] = o]
      /\ childrenOf' = [childrenOf EXCEPT ![p] = Append(childrenOf[p], c)]
      /\ parentOf' = [parentOf EXCEPT ![c] = p]
      /\ nextId' = c + 1
      /\ sending' = [sending EXCEPT ![t] = c]
      /\ slices' = [slices EXCEPT ![t] = Tail(slices[t])]
      /\ pc' = [pc EXCEPT ![t] = "send"]
      /\ OnOrderAccepted(job[t].order.side, slice.quantity)
  BY <1>a, <1>h, <1>m DEF Slice, TrackChildOrder, GoTo
<1>v. UNCHANGED <<activeOrders, pendingQueue, batch, connected, reportQueue, lostReports, executed,
                  orderQueue, cancelQueue, fills, clientQty, carried, rejected,
                  completed, canceled, job, cancelList, deferred>>
  BY DEF Slice, exchangeVars
<1>1. Hands(t, p, c, o, slice)
  BY <1>0, <1>h, <1>s, <1>a, <1>b, <1>i, <1>u, <1>v DEF Hands
<1>. QED
  BY <1>1, <1>i, <1>o, <1>s

LEMMA SliceAccounting ==
  ASSUME IInv, Accounting, NEW t \in Threads, NEW p \in OrderIds, NEW c \in OrderIds, NEW o \in OrderShape,
         NEW slice, Hands(t, p, c, o, slice)
  PROVE  Accounting'
<1>u. /\ UNCHANGED <<executed, fills, lostReports, reportQueue, deferred, clientQty, carried, job, orderQueue>>
      /\ orders' = [orders EXCEPT ![c] = o] /\ pc' = [pc EXCEPT ![t] = "send"] /\ pc[t] = "slice"
      /\ parentOf' = [parentOf EXCEPT ![c] = p] /\ nextId' = c + 1 /\ c = nextId
      /\ p # c /\ ~Child(p) /\ ~Child(c)
  BY DEF Hands
<1>a. /\ AccountShapes /\ ChildrenTrade /\ Clients /\ Callbacks /\ LostOfChildren
      /\ orders \in [OrderIds -> OrderShape] /\ parentOf \in [OrderIds -> AnyId]
      /\ nextId \in Nat
  BY DEF Accounting, IInv, RouterShapes
<1>n. /\ \A x \in OrderIds : x # c => orders'[x] = orders[x] /\ parentOf'[x] = parentOf[x]
      /\ parentOf'[c] = p
  BY <1>a, <1>u
<1>k. \A x \in OrderIds : Child(x) => Child(x)'
  <2>1. \A x \in OrderIds : Child(x) => parentOf'[x] # INVALID_ORDER_ID
    BY <1>n, Ids DEF Child
  <2>. QED
    BY <2>1 DEF Child
<1>l. \A x \in OrderIds : ~Child(x)' => ~Child(x) /\ x # c
  <2>1. \A x \in OrderIds : ~Child(x)' => ~Child(x)
    BY <1>k
  <2>2. Child(c)'
    BY <1>n, Ids DEF Child
  <2>. QED
    BY <2>1, <2>2
<1>z. executed[c] = 0 /\ fills[c] = 0 /\ Unseen(c) = 0
  BY <1>u, <1>a, UnseenNone DEF ChildrenTrade
<1>w. \A x : Unseen(x)' = Unseen(x) /\ Unseen(x) \in Nat
  BY <1>u, UnseenSame, AccountingFacts
<1>1. AccountShapes'
  BY <1>a, <1>u DEF AccountShapes
<1>2. LostOfChildren'
  <2>0. \A i \in 1 .. Len(lostReports) : lostReports[i] \in ReportShape
    BY <1>a DEF AccountShapes
  <2>1. \A i \in 1 .. Len(lostReports) : lostReports[i].id \in OrderIds
    BY <2>0 DEF ReportShape
  <2>2. \A i \in 1 .. Len(lostReports) : Child(lostReports[i].id)'
    BY <2>1, <1>k, <1>a, <1>u DEF LostOfChildren, Child
  <2>. QED
    BY <2>2, <1>u DEF LostOfChildren, Child
<1>3. ChildrenTrade'
  BY <1>l, <1>a, <1>u DEF ChildrenTrade
<1>4. Clients'
  <2>1. ASSUME NEW q \in OrderIds, clientQty[q] > 0 PROVE ~Child(q)' /\ q < c + 1
    <3>1. ~Child(q) /\ q < c /\ q \in Nat
      BY <2>1, <1>a, <1>u, Ids DEF Clients
    <3>2. q # c
      BY <3>1, <1>u, <1>a
    <3>3. parentOf'[q] = parentOf[q]
      BY <3>2, <1>n
    <3>. QED
      BY <3>1, <3>3, <1>u, <1>a DEF Child
  <2>. QED
    BY <2>1, <1>u DEF Clients, Child
<1>5. FreshJobs'
  BY <1>u, OthersFresh
<1>6. Callbacks'
  <2>1. pc["exec"] = "deferred" => pc'["exec"] = "deferred"
    BY <1>u DEF IInv, ThreadShapes, Threads
  <2>2. deferred.id \in OrderIds => Child(deferred.id)'
    BY <1>a, <1>k, <1>u DEF Callbacks, Child
  <2>. QED
    BY <2>1, <2>2, <1>a, <1>u DEF Callbacks, Child
<1>7. ASSUME NEW q \in OrderIds, ~Child(q)' PROVE Balanced(q)'
  <2>0. ~Child(q) /\ q # c /\ Balanced(q) /\ q # INVALID_ORDER_ID
    BY <1>7, <1>l, Ids DEF Accounting, Balance
  <2>o. orders'[q] = orders[q] /\ carried'[q] = carried[q]
    BY <2>0, <1>n, <1>u
  <2>1. CASE q # p
    <3>1. Children(q)' = Children(q)
      BY <2>0, <2>1, <1>n, <1>u DEF Children, Child
    <3>2. /\ ExecutedOf(q)' = ExecutedOf(q)
          /\ SumFunction([x \in Children(q) |-> Unseen(x)])' = SumFunction([x \in Children(q) |-> Unseen(x)])
      BY <3>1, <1>u, ChildrenStill
    <3>. QED
      BY <2>0, <2>o, <3>2 DEF Balanced
  <2>2. CASE q = p
    <3> DEFINE S == Children(p)
               f == [x \in S |-> Unseen(x)]
               h == [x \in S \cup {c} |-> Unseen(x)]
    <3>1. Children(p)' = S \cup {c} /\ c \notin S /\ IsFiniteSet(S) /\ S \subseteq OrderIds
      <4>1. Children(p)' = S \cup {c}
        BY <1>n, <1>u DEF Children
      <4>2. c \notin S
        BY <1>u, Ids DEF Children, Child
      <4>. QED
        BY <4>1, <4>2, AccountingFacts DEF Children
    <3>2. SumFunctionOnSet(executed, S \cup {c}) = executed[c] + SumFunctionOnSet(executed, S)
      <4>1. \A y \in S \cup {c} : executed[y] \in Int
        BY <3>1, <1>a DEF AccountShapes
      <4> HIDE DEF S
      <4>. QED
        BY <4>1, <3>1, SumAdd
    <3>3. SumFunctionOnSet(h, S \cup {c}) = h[c] + SumFunctionOnSet(h, S)
      <4>1. \A y \in S \cup {c} : h[y] \in Int
        BY <1>w
      <4> HIDE DEF S, h
      <4>. QED
        BY <4>1, <3>1, SumAdd
    <3>4. SumFunctionOnSet(h, S) = SumFunctionOnSet(f, S)
      <4>1. \A y \in S : f[y] \in Int /\ h[y] = f[y]
        BY <1>w
      <4> HIDE DEF S, h, f
      <4>. QED
        BY <4>1, <3>1, SumSame
    <3>5. SumFunctionOnSet(executed, S) \in Int /\ SumFunctionOnSet(f, S) \in Int
      <4>1. \A y \in S : f[y] \in Int /\ executed[y] \in Int
        BY <3>1, <1>w, <1>a DEF AccountShapes
      <4> HIDE DEF S, f
      <4>. QED
        BY <4>1, <3>1, SumInt
    <3>6. h[c] = 0
      BY <1>z
    <3>7. SumFunctionOnSet(executed, S) = carried[p] + orders[p].filled + SumFunctionOnSet(f, S)
      BY <2>0, <2>2 DEF Balanced, ExecutedOf, SumFunction
    <3>8. ExecutedOf(p)' = SumFunctionOnSet(executed, S \cup {c})
      BY <3>1, <1>u DEF ExecutedOf
    <3>9. SumFunction([x \in Children(p) |-> Unseen(x)])' = SumFunctionOnSet(h, S \cup {c})
      BY <3>1, <1>w DEF SumFunction
    <3>10. ExecutedOf(p)' = carried[p] + orders[p].filled
                              + SumFunction([x \in Children(p) |-> Unseen(x)])'
      <4>1. ExecutedOf(p)' = SumFunctionOnSet(executed, S)
        <5> HIDE DEF S, f, h
        <5>. QED
          BY <3>2, <3>5, <3>8, <1>z
      <4>2. SumFunctionOnSet(h, S \cup {c}) = SumFunctionOnSet(f, S)
        <5> HIDE DEF S, f, h
        <5>. QED
          BY <3>3, <3>4, <3>5, <3>6
      <4>3. SumFunction([x \in Children(p) |-> Unseen(x)])' = SumFunctionOnSet(f, S)
        BY <3>9, <4>2
      <4>. QED
        BY <3>7, <4>1, <4>3
    <3>. QED
      BY <2>2, <2>o, <3>10 DEF Balanced
  <2>. QED
    BY <2>1, <2>2
<1>8. Balance'
  BY <1>7 DEF Balance
<1>9. (\A x \in OrderIds : Recorded(x))'
  BY <1>u, <1>w DEF Accounting, Recorded
<1>10. position'.net = SumFunctionOnSet(Signed, OrderIds)'
  <2>1. \A x \in OrderIds : fills[x] # 0 => orders'[x].side = orders[x].side
    BY <1>z, <1>n
  <2>2. SumFunctionOnSet(Signed, OrderIds)' = SumFunctionOnSet(Signed, OrderIds)
    BY <2>1, <1>u, SignedStill
  <2>3. position'.net = position.net
    <3>1. position \in PositionType
      BY DEF IInv, RouterShapes
    <3>2. \E a, b : \/ position' = [position EXCEPT !.open = a, !.pendingBuy = b]
                    \/ position' = [position EXCEPT !.open = a, !.pendingSell = b]
      BY DEF Hands, OnOrderAccepted
    <3>. QED
      BY <3>1, <3>2 DEF PositionType
  <2>. QED
    BY <2>2, <2>3 DEF Accounting
<1>. QED
  BY <1>1, <1>2, <1>3, <1>4, <1>5, <1>6, <1>8, <1>9, <1>10 DEF Accounting

\* Thread t sends child c to venue v.
Delivers(t, c, v) ==
    /\ c = sending[t] /\ c \in OrderIds /\ Child(c) /\ v = orders[c].venue /\ v \in Venues
    /\ batch[v] = 0 /\ ~OnBook(v, c)
    /\ pc[t] = "send" /\ pc' = [pc EXCEPT ![t] = IF slices[t] = << >> THEN Drain(t) ELSE "slice"]
    /\ activeOrders' = [activeOrders EXCEPT ![v][c] =
            [quantity |-> orders[c].quantity, filled |-> 0, tif |-> orders[c].tif, cancel |-> FALSE]]
    /\ pendingQueue' = [pendingQueue EXCEPT ![v] = Append(@, c)]
    /\ Notify(<<Report(c, "Accepted", 0, 0)>>)
    /\ sending' = [sending EXCEPT ![t] = INVALID_ORDER_ID]
    /\ UNCHANGED <<batch, connected, executed, orders, childrenOf, parentOf, position, nextId, orderQueue,
                   cancelQueue, fills, clientQty, carried, rejected, completed, canceled, job, slices,
                   cancelList, deferred>>

LEMMA SendEffect ==
  ASSUME IInv, NEW t \in Threads, Send(t)
  PROVE  \E c \in OrderIds, v \in Venues : Delivers(t, c, v)
<1>1. PICK c, v : c = sending[t] /\ v = orders[c].venue
  OBVIOUS
<1>0. pc[t] = "send"
  BY DEF Send
<1>2. c \in OrderIds /\ Child(c) /\ v \in Venues
  <2>1. c \in OrderIds /\ Child(c)
    BY <1>0, <1>1 DEF IInv, Working
  <2>. QED
    BY <2>1, <1>1 DEF IInv, Family
<1>3. SendAccepted(v, c, orders[c].quantity, orders[c].tif)
  BY <1>1 DEF Send
<1>4. /\ batch[v] = 0 /\ ~OnBook(v, c)
      /\ activeOrders' = [activeOrders EXCEPT ![v][c] =
            [quantity |-> orders[c].quantity, filled |-> 0, tif |-> orders[c].tif, cancel |-> FALSE]]
      /\ pendingQueue' = [pendingQueue EXCEPT ![v] = Append(@, c)]
      /\ Notify(<<Report(c, "Accepted", 0, 0)>>)
      /\ UNCHANGED <<batch, connected, executed>>
  BY <1>3 DEF SendAccepted
<1>5. /\ UNCHANGED <<orders, childrenOf, parentOf, position, nextId, orderQueue,
                     cancelQueue, fills, clientQty, carried, rejected, completed, canceled, job, slices,
                     cancelList, deferred>>
      /\ sending' = [sending EXCEPT ![t] = INVALID_ORDER_ID]
      /\ pc' = [pc EXCEPT ![t] = IF slices[t] = << >> THEN Drain(t) ELSE "slice"]
  BY DEF Send, GoTo, handlerVars, riskVars, gatewayVars
<1>6. Delivers(t, c, v)
  BY <1>0, <1>1, <1>2, <1>4, <1>5 DEF Delivers
<1>. QED
  BY <1>2, <1>6

LEMMA SendAccounting ==
  ASSUME IInv, Accounting, NEW t \in Threads, NEW c \in OrderIds, NEW v \in Venues, Delivers(t, c, v)
  PROVE  Accounting'
<1>1. PICK r \in ReportShape : r = Report(c, "Accepted", 0, 0)
  <2>1. Report(c, "Accepted", 0, 0) \in ReportShape
    BY DEF Report, ReportShape
  <2>. QED
    BY <2>1
<1>2. r.id = c /\ r.last = 0 /\ Child(c) /\ Notify(<<r>>)
  BY <1>1 DEF Report, Delivers
<1>3. /\ \A x \in OrderIds : Unseen(x)' = Unseen(x) + Share(x, r)
      /\ lostReports' \in Seq(ReportShape)
      /\ \A i \in 1 .. Len(lostReports') : Child(lostReports'[i].id)
  BY <1>2, UnseenNotified
<1>4. \A x \in OrderIds : Unseen(x)' = Unseen(x) + (IF x = c THEN 0 ELSE 0)
  BY <1>2, <1>3 DEF Share
<1>5. UNCHANGED <<fills, carried, clientQty, parentOf, orders, deferred, position, nextId, orderQueue, job>>
  BY DEF Delivers
<1>6. executed' = [executed EXCEPT ![c] = @ + 0]
  <2>1. executed \in [OrderIds -> Nat] /\ executed' = executed
    BY DEF Accounting, AccountShapes, Delivers
  <2>. QED
    BY <2>1
<1>7. /\ \A z \in Threads : pc'[z] = "admit" => pc[z] = "admit"
      /\ pc'["exec"] # "deferred" => pc["exec"] # "deferred"
  <2>1. PICK to : to = IF slices[t] = << >> THEN Drain(t) ELSE "slice"
    OBVIOUS
  <2>2. to # "admit" /\ pc' = [pc EXCEPT ![t] = to] /\ pc[t] = "send"
    BY <2>1 DEF Delivers, Drain
  <2>. QED
    BY <2>2 DEF IInv, ThreadShapes, Threads
<1>8. 0 \in Nat
  OBVIOUS
<1>. QED
  BY <1>2, <1>3, <1>4, <1>5, <1>6, <1>7, <1>8, BookedStep


(* What a report leaves alone in the order it is about... *)
LEMMA ReportedFields ==
  ASSUME NEW order \in OrderShape, NEW r \in ReportShape
  PROVE  LET after == AfterReport(order, r) IN
         /\ after.side = order.side /\ after.quantity = order.quantity /\ after.tif = order.tif
         /\ after.strategy = order.strategy
<1>1. PICK s, n, m : AfterReport(order, r) = [order EXCEPT !.state = s, !.filled = n, !.remaining = m]
  BY DEF AfterReport
<1>. QED
  BY <1>1 DEF OrderShape

(* ...and what it does to the parent of that order. *)
LEMMA ParentFields ==
  ASSUME NEW order \in OrderShape, NEW r \in ReportShape
  PROVE  LET after == AfterChildFill(order, r) IN
         /\ after.side = order.side /\ after.quantity = order.quantity /\ after.tif = order.tif
         /\ after.strategy = order.strategy
         /\ after.filled = order.filled + r.last
         /\ after.state = IF r.last > 0 /\ order.state \in {"New", "PendingNew", "Accepted"}
                          THEN "PartiallyFilled" ELSE order.state
<1>1. r.last \in Nat /\ order.filled \in Nat
  BY DEF ReportShape, OrderShape
<1>2. CASE r.last = 0
  BY <1>1, <1>2 DEF AfterChildFill
<1>3. CASE r.last # 0
  <2>1. PICK s, n, m : /\ n = order.filled + r.last
                       /\ s = IF order.state \in {"New", "PendingNew", "Accepted"} THEN "PartiallyFilled"
                              ELSE order.state
                       /\ m = order.quantity - (order.filled + r.last)
    OBVIOUS
  <2>2. AfterChildFill(order, r) = [order EXCEPT !.filled = n, !.remaining = m, !.state = s]
    BY <1>3, <2>1 DEF AfterChildFill, OrderShape
  <2>3. r.last > 0
    BY <1>1, <1>3
  <2>4. PICK a : a = AfterChildFill(order, r)
    OBVIOUS
  <2>5. /\ a.side = order.side /\ a.quantity = order.quantity /\ a.tif = order.tif
        /\ a.strategy = order.strategy /\ a.filled = n /\ a.state = s
    BY <2>2, <2>4 DEF OrderShape
  <2>. QED
    BY <2>1, <2>3, <2>4, <2>5
<1>. QED
  BY <1>2, <1>3

\* The execution thread applies report r to child c of p.
Fills(p, r)   == orders[p].filled + r.last
Closes(p, r)  == Fills(p, r) >= orders[p].quantity
SendsOn(c, p, r) ==
    /\ IsTerminal(AfterReport(orders[c], r).state) /\ AfterReport(orders[c], r).state # "Filled"
    /\ orders[p].state # "Filled" /\ ~Closes(p, r)
    /\ \A i \in 1 .. Len(childrenOf[p]) : childrenOf[p][i] # c => IsTerminal(orders[childrenOf[p][i]].state)

Handles(r, c, p) ==
    /\ r \in ReportShape /\ c = r.id /\ Child(c) /\ p = parentOf[c] /\ ~Child(p) /\ p # c
    /\ orders[p].state \in {"PendingNew", "PartiallyFilled", "Filled"} /\ Tracked(c)
    /\ reportQueue # << >> /\ r = Head(reportQueue) /\ reportQueue' = Tail(reportQueue)
    /\ pc["exec"] = "reports" /\ pc' = [pc EXCEPT !["exec"] = "deferred"]
    /\ \A x \in OrderIds : x \notin {c, p} => orders'[x] = orders[x]
    /\ orders' \in [OrderIds -> OrderShape]
    /\ orders'[c] = AfterReport(orders[c], r)
    /\ orders'[p].side = orders[p].side /\ orders'[p].quantity = orders[p].quantity
    /\ orders'[p].tif = orders[p].tif /\ orders'[p].strategy = orders[p].strategy
    /\ orders'[p].filled = Fills(p, r)
    /\ orders'[p].state = IF Closes(p, r) THEN "Filled"
                          ELSE IF r.last > 0 /\ orders[p].state = "PendingNew" THEN "PartiallyFilled"
                          ELSE orders[p].state
    /\ deferred' \in DeferShape /\ deferred'.id = c /\ deferred'.fill = r.last
    /\ deferred'.completion <=> Closes(p, r)
    /\ deferred'.reroute <=> SendsOn(c, p, r)
    /\ deferred'.reroute => orders'[p].remaining = orders[p].quantity - Fills(p, r)
    /\ UNCHANGED <<activeOrders, pendingQueue, batch, connected, lostReports, executed, childrenOf, parentOf,
                   position, nextId, orderQueue, cancelQueue, fills, clientQty, carried, rejected,
                   completed, canceled, job, slices, sending, cancelList>>

LEMMA ReportEffect ==
  ASSUME IInv, PopReport, reportQueue # << >>
  PROVE  \E r, c, p : c \in OrderIds /\ p \in OrderIds /\ Handles(r, c, p)
<1>0. PICK r, c, p : r = Head(reportQueue) /\ c = r.id /\ p = parentOf[c]
  OBVIOUS
<1>1. /\ r \in ReportShape /\ c \in OrderIds /\ Child(c) /\ Tracked(c) /\ p \in OrderIds /\ ~Child(p)
      /\ orders[p].state \in {"PendingNew", "PartiallyFilled", "Filled"} /\ p # c /\ p # INVALID_ORDER_ID
  <2>1. /\ r \in ReportShape /\ c \in OrderIds /\ Child(c) /\ Tracked(c) /\ p \in OrderIds /\ ~Child(p)
        /\ orders[p].state \in {"PendingNew", "PartiallyFilled", "Filled"}
    BY <1>0, ReportAtHead
  <2>. QED
    BY <2>1, Ids
<1>2. /\ OnExecutionReport(r) /\ deferred' = Deferred(r) /\ reportQueue' = Tail(reportQueue)
      /\ pc["exec"] = "reports" /\ pc' = [pc EXCEPT !["exec"] = "deferred"]
      /\ UNCHANGED <<activeOrders, pendingQueue, batch, connected, lostReports, executed,
                     position, nextId, orderQueue, cancelQueue, fills, clientQty, carried, rejected,
                     completed, canceled, job, slices, sending, cancelList>>
  BY <1>0 DEF PopReport, GoTo, riskVars, gatewayVars
<1>3. /\ orders' \in [OrderIds -> OrderShape]
      /\ \A x \in OrderIds : x \notin {c, p} => orders'[x] = orders[x]
      /\ UNCHANGED <<childrenOf, parentOf>>
      /\ deferred' \in DeferShape /\ deferred'.id = c
  BY <1>0, <1>2, ReportStep
<1>o. orders \in [OrderIds -> OrderShape] /\ orders[c] \in OrderShape /\ orders[p] \in OrderShape
  BY <1>1 DEF IInv, RouterShapes
<1> DEFINE needs == NeedsReroute(AfterChildFill(orders[p], r), AfterReport(orders[c], r), c, childrenOf[p])
           full  == AfterChildFill(orders[p], r).filled >= AfterChildFill(orders[p], r).quantity
<1>4. PICK child, parent, closed :
        /\ child = AfterReport(orders[c], r)
        /\ parent = AfterChildFill(orders[p], r)
        /\ closed = IF full THEN [parent EXCEPT !.state = "Filled", !.remaining = 0]
                    ELSE IF needs THEN [parent EXCEPT !.remaining = parent.quantity - parent.filled]
                         ELSE parent
  OBVIOUS
<1>5. orders' = [[orders EXCEPT ![c] = child] EXCEPT ![p] = closed]
  BY <1>0, <1>1, <1>2, <1>4 DEF OnExecutionReport
<1>6. orders'[c] = child /\ orders'[p] = closed
  BY <1>1, <1>o, <1>5
<1>7. parent \in OrderShape
  BY <1>1, <1>4, <1>o, FilledParent
<1>8. /\ parent.side = orders[p].side /\ parent.quantity = orders[p].quantity /\ parent.tif = orders[p].tif
      /\ parent.strategy = orders[p].strategy
      /\ parent.filled = Fills(p, r)
      /\ parent.state = IF r.last > 0 /\ orders[p].state \in {"New", "PendingNew", "Accepted"}
                        THEN "PartiallyFilled" ELSE orders[p].state
  BY <1>1, <1>4, <1>o, ParentFields DEF Fills
<1>9. full <=> Closes(p, r)
  BY <1>4, <1>8 DEF Closes
<1>n. parent.quantity \in Nat /\ parent.filled \in Nat
  BY <1>7 DEF OrderShape
<1>10. needs <=> SendsOn(c, p, r)
  <2>1. IsTerminal(parent.state) <=> orders[p].state = "Filled"
    BY <1>1, <1>8 DEF IsTerminal
  <2>2. (parent.quantity - parent.filled > 0) <=> ~Closes(p, r)
    BY <1>n, <1>8 DEF Closes
  <2>3. DOMAIN childrenOf[p] = 1 .. Len(childrenOf[p])
    BY <1>1 DEF IInv, RouterShapes
  <2>4. needs <=> /\ IsTerminal(child.state) /\ child.state # "Filled"
                  /\ ~IsTerminal(parent.state)
                  /\ parent.quantity - parent.filled > 0
                  /\ \A i \in 1 .. Len(childrenOf[p]) :
                        childrenOf[p][i] # c => IsTerminal(orders[childrenOf[p][i]].state)
    BY <1>4, <2>3 DEF NeedsReroute
  <2> HIDE DEF needs
  <2>. QED
    BY <2>1, <2>2, <2>4, <1>4 DEF SendsOn
<1>b. needs \in BOOLEAN /\ full \in BOOLEAN
  <2>1. needs \in BOOLEAN
    BY Zenon DEF NeedsReroute
  <2>2. full = TRUE \/ full = FALSE
    OBVIOUS
  <2>. QED
    BY <2>1, <2>2
<1>11. Deferred(r) = [id |-> c, fill |-> r.last, reroute |-> needs, completion |-> full]
  <2>1. Deferred(r) = [id |-> c, fill |-> r.last, reroute |-> p # INVALID_ORDER_ID /\ needs,
                       completion |-> IF p = INVALID_ORDER_ID THEN AfterReport(orders[c], r).state = "Filled"
                                      ELSE full]
    BY <1>0, <1>1 DEF Deferred
  <2> HIDE DEF needs, full
  <2>2. (p # INVALID_ORDER_ID /\ needs) = needs
    BY <1>1, <1>b
  <2>3. (IF p = INVALID_ORDER_ID THEN AfterReport(orders[c], r).state = "Filled" ELSE full) = full
    BY <1>1
  <2>. QED
    BY <2>1, <2>2, <2>3, Zenon
<1> HIDE DEF needs, full
<1>12. deferred'.fill = r.last /\ (deferred'.completion <=> Closes(p, r)) /\ (deferred'.reroute <=> SendsOn(c, p, r))
  <2>1. PICK n, f : n = needs /\ f = full
    OBVIOUS
  <2>2. deferred' = [id |-> c, fill |-> r.last, reroute |-> n, completion |-> f]
    BY <1>2, <1>11, <2>1
  <2>3. deferred'.fill = r.last /\ deferred'.reroute = n /\ deferred'.completion = f
    BY <2>2
  <2>. QED
    BY <2>1, <2>3, <1>9, <1>10
<1>13. /\ closed.side = orders[p].side /\ closed.quantity = orders[p].quantity
       /\ closed.tif = orders[p].tif /\ closed.strategy = orders[p].strategy
       /\ closed.filled = Fills(p, r)
       /\ closed.state = IF Closes(p, r) THEN "Filled"
                         ELSE IF r.last > 0 /\ orders[p].state = "PendingNew" THEN "PartiallyFilled"
                         ELSE orders[p].state
       /\ SendsOn(c, p, r) => closed.remaining = orders[p].quantity - Fills(p, r)
  <2>1. CASE full
    <3>1. closed = [parent EXCEPT !.state = "Filled", !.remaining = 0]
      BY <2>1, <1>4
    <3>2. /\ closed.side = parent.side /\ closed.quantity = parent.quantity
          /\ closed.tif = parent.tif /\ closed.strategy = parent.strategy
          /\ closed.filled = parent.filled /\ closed.state = "Filled"
      BY <3>1, <1>7 DEF OrderShape
    <3>3. ~SendsOn(c, p, r)
      BY <2>1, <1>9 DEF SendsOn
    <3>. QED
      BY <2>1, <3>2, <3>3, <1>8, <1>9
  <2>2. CASE ~full /\ needs
    <3>0. PICK m : m = parent.quantity - parent.filled
      OBVIOUS
    <3>1. closed = [parent EXCEPT !.remaining = m]
      BY <2>2, <3>0, <1>4
    <3>2. /\ closed.side = parent.side /\ closed.quantity = parent.quantity
          /\ closed.tif = parent.tif /\ closed.strategy = parent.strategy
          /\ closed.filled = parent.filled /\ closed.state = parent.state /\ closed.remaining = m
      BY <3>1, <1>7 DEF OrderShape
    <3>. QED
      BY <2>2, <3>0, <3>2, <1>1, <1>8, <1>9
  <2>3. CASE ~full /\ ~needs
    BY <2>3, <1>1, <1>4, <1>8, <1>9, <1>10
  <2>. QED
    BY <2>1, <2>2, <2>3
<1>14. Handles(r, c, p)
  BY <1>0, <1>1, <1>2, <1>3, <1>4, <1>6, <1>12, <1>13 DEF Handles
<1>. QED
  BY <1>1, <1>14


LEMMA ReportAccounting ==
  ASSUME IInv, Accounting, NEW r, NEW c \in OrderIds, NEW p \in OrderIds, Handles(r, c, p)
  PROVE  Accounting'
<1>u. /\ UNCHANGED <<executed, fills, lostReports, parentOf, clientQty, carried, nextId, position, job, orderQueue>>
      /\ pc' = [pc EXCEPT !["exec"] = "deferred"] /\ pc["exec"] = "reports"
      /\ p # c /\ p = parentOf[c] /\ Child(c) /\ ~Child(p) /\ r \in ReportShape /\ c = r.id
      /\ reportQueue # << >> /\ r = Head(reportQueue) /\ reportQueue' = Tail(reportQueue)
      /\ deferred'.id = c /\ deferred'.fill = r.last
      /\ \A x \in OrderIds : x \notin {c, p} => orders'[x] = orders[x]
      /\ orders'[p].filled = Fills(p, r) /\ orders'[p].side = orders[p].side
      /\ orders'[c] = AfterReport(orders[c], r)
  BY DEF Handles
<1>a. /\ AccountShapes /\ Callbacks /\ orders \in [OrderIds -> OrderShape] /\ r.last \in Nat
      /\ reportQueue \in Seq(ReportShape) /\ lostReports \in Seq(ReportShape)
  BY <1>u, AccountingFacts DEF Accounting, IInv, RouterShapes, ReportShape
<1>d. deferred.fill = 0
  BY <1>u, <1>a DEF Callbacks, Nothing
<1>s. \A x \in OrderIds : Unseen(x) = Unseen(x)' + Share(x, r) /\ Unseen(x)' \in Nat /\ Unseen(x) \in Nat
  <2>1. ASSUME NEW x \in OrderIds
        PROVE  Unseen(x) = Unseen(x)' + Share(x, r) /\ Unseen(x)' \in Nat /\ Unseen(x) \in Nat
    <3>1. InReports(x, reportQueue) = Share(x, r) + InReports(x, Tail(reportQueue))
      BY <1>u, <1>a, InReportsTail
    <3>2. Unseen(x)' = InReports(x, Tail(reportQueue)) + InReports(x, lostReports)
      BY <1>u DEF Unseen, InReports
    <3>3. Tail(reportQueue) \in Seq(ReportShape)
      BY <1>u, <1>a
    <3>4. InReports(x, Tail(reportQueue)) \in Nat /\ InReports(x, lostReports) \in Nat /\ Share(x, r) \in Nat
      BY <3>3, <1>a, InReportsNat DEF Share
    <3>. QED
      BY <3>1, <3>2, <3>4 DEF Unseen
  <2>. QED
    BY <2>1
<1>1. AccountShapes' /\ LostOfChildren' /\ ChildrenTrade' /\ Clients'
  BY <1>u DEF Accounting, AccountShapes, LostOfChildren, ChildrenTrade, Clients, Child
<1>2. Callbacks'
  <2>1. pc'["exec"] = "deferred"
    BY <1>u DEF IInv, ThreadShapes, Threads
  <2>. QED
    BY <2>1, <1>u DEF Callbacks, Child
<1>3. FreshJobs'
  <2>1. "exec" \in Threads
    BY DEF Threads
  <2>. QED
    BY <2>1, <1>u, OthersFresh
<1>4. ASSUME NEW q \in OrderIds, ~Child(q) PROVE Balanced(q)'
  <2> DEFINE S == Children(q)
             f == [x \in S |-> Unseen(x)]
             h == [x \in S |-> Unseen(x)']
             k == IF c \in S THEN r.last ELSE 0
  <2>1. Children(q)' = S /\ IsFiniteSet(S) /\ S \subseteq OrderIds
    BY <1>u, AccountingFacts DEF Children
  <2>2. SumFunctionOnSet(f, S) = SumFunctionOnSet(h, S) + k
    <3>1. Bumps(h, f, S, c, r.last)
      <4>1. \A y \in S : h[y] \in Int /\ f[y] = h[y] + (IF y = c THEN r.last ELSE 0)
        BY <2>1, <1>s, <1>u DEF Share
      <4>2. r.last \in Int
        BY <1>a
      <4> HIDE DEF S, f, h
      <4>. QED
        BY <4>1, <4>2, <2>1 DEF Bumps
    <3> HIDE DEF S, f, h
    <3>. QED
      BY <3>1, SumBump DEF k
  <2>3. SumFunctionOnSet(h, S) \in Int /\ k \in Nat
    <3>1. \A y \in S : h[y] \in Int
      BY <2>1, <1>s
    <3>2. SumFunctionOnSet(h, S) \in Int
      <4> HIDE DEF S, h
      <4>. QED
        BY <3>1, <2>1, SumInt
    <3>. QED
      BY <3>2, <1>a
  <2>4. orders'[q].filled = orders[q].filled + k /\ orders[q].filled \in Nat /\ carried[q] \in Nat
    <3>0. orders[q] \in OrderShape
      BY <1>a
    <3>1. orders[q].filled \in Nat /\ carried[q] \in Nat
      BY <3>0, <1>a DEF OrderShape, AccountShapes
    <3>2. q # c
      BY <1>4, <1>u
    <3>3. c \in S <=> q = p
      BY <1>u DEF Children
    <3>4. CASE q = p
      BY <3>1, <3>3, <3>4, <1>u DEF Fills
    <3>5. CASE q # p
      <4>1. orders'[q] = orders[q] /\ k = 0
        BY <3>2, <3>3, <3>5, <1>u
      <4>. QED
        BY <3>1, <4>1
    <3>. QED
      BY <3>4, <3>5
  <2>5. SumFunctionOnSet(executed, S) = carried[q] + orders[q].filled + SumFunctionOnSet(f, S)
    <3>1. Balanced(q)
      BY <1>4 DEF Accounting, Balance
    <3>. QED
      BY <3>1 DEF Balanced, ExecutedOf, SumFunction
  <2>6. SumFunctionOnSet(executed, S) = carried[q] + orders'[q].filled + SumFunctionOnSet(h, S)
    <3> HIDE DEF S, f, h, k
    <3>. QED
      BY <2>2, <2>3, <2>4, <2>5
  <2>7. ExecutedOf(q)' = SumFunctionOnSet(executed, S)
    BY <2>1, <1>u DEF ExecutedOf
  <2>8. SumFunction([x \in Children(q) |-> Unseen(x)])' = SumFunctionOnSet(h, S)
    BY <2>1 DEF SumFunction
  <2>. QED
    BY <2>6, <2>7, <2>8, <1>u DEF Balanced
<1>5. Balance'
  BY <1>4, <1>u DEF Balance, Child
<1>6. ASSUME NEW x \in OrderIds PROVE Recorded(x)'
  <2>1. executed[x] = fills[x] + Unseen(x)
    <3>1. Recorded(x) /\ fills[x] \in Nat
      BY DEF Accounting, AccountShapes
    <3>2. executed[x] = fills[x] + Unseen(x) + 0
      BY <3>1, <1>d DEF Recorded
    <3>. QED
      BY <3>1, <3>2, <1>s
  <2>2. Share(x, r) = IF deferred'.id = x THEN deferred'.fill ELSE 0
    BY <1>u DEF Share
  <2>3. fills[x] \in Nat /\ Share(x, r) \in Nat
    BY <1>a DEF AccountShapes, Share
  <2>4. executed[x] = fills[x] + Unseen(x)' + Share(x, r)
    BY <2>1, <2>3, <1>s
  <2>. QED
    BY <2>2, <2>4, <1>u DEF Recorded
<1>7. position'.net = SumFunctionOnSet(Signed, OrderIds)'
  <2>1. \A x \in OrderIds : fills[x] # 0 => orders'[x].side = orders[x].side
    <3>1. orders'[c].side = orders[c].side
      <4>1. orders[c] \in OrderShape
        BY <1>a
      <4>. QED
        BY <4>1, <1>u, ReportedFields
    <3>. QED
      BY <3>1, <1>u
  <2>2. SumFunctionOnSet(Signed, OrderIds)' = SumFunctionOnSet(Signed, OrderIds)
    BY <2>1, <1>u, SignedStill
  <2>. QED
    BY <2>2, <1>u DEF Accounting
<1>. QED
  BY <1>1, <1>2, <1>3, <1>5, <1>6, <1>7 DEF Accounting

LEMMA PopReportAccounting ==
  ASSUME IInv, Accounting, PopReport
  PROVE  Accounting'
<1>1. CASE reportQueue # << >>
  BY <1>1, ReportEffect, ReportAccounting
<1>2. CASE reportQueue = << >>
  <2>1. /\ UNCHANGED <<executed, fills, carried, lostReports, reportQueue, parentOf, orders, deferred,
                       clientQty, nextId, position, job, orderQueue>>
        /\ pc' = [pc EXCEPT !["exec"] = "loop"] /\ pc["exec"] = "reports" /\ "exec" \in Threads
    BY <1>2 DEF PopReport, GoTo, handlerVars, riskVars, gatewayVars, Threads
  <2>2. FreshJobs'
    BY <2>1, OthersFresh
  <2>. QED
    BY <2>1, <2>2, StillAccounting
<1>. QED
  BY <1>1, <1>2

\* What is left of m after n.
Reduced(m, n) == IF m >= n THEN m - n ELSE 0

LEMMA MaxReduced == ASSUME NEW m \in Nat, NEW n \in Nat PROVE Max({0, m - n}) = Reduced(m, n)
<1>1. PICK d \in Int : d = m - n
  OBVIOUS
<1>2. \E x \in {0, d} : \A y \in {0, d} : x >= y
  <2>1. CASE d >= 0
    BY <2>1
  <2>2. CASE ~(d >= 0)
    BY <2>2
  <2>. QED
    BY <2>1, <2>2
<1> DEFINE x == Max({0, d})
<1>3. x \in {0, d} /\ \A y \in {0, d} : x >= y
  BY <1>2 DEF Max
<1> HIDE DEF x
<1>4. (x = 0 \/ x = d) /\ x >= 0 /\ x >= d
  BY <1>3
<1>5. x = Reduced(m, n)
  BY <1>1, <1>4 DEF Reduced
<1>. QED
  BY <1>1, <1>5 DEF x

\* The execution thread runs the callbacks of a report about child c.
Runs(c) ==
    /\ c = deferred.id /\ Child(c) /\ pc["exec"] = "deferred"
    /\ fills' = [fills EXCEPT ![c] = @ + deferred.fill]
    /\ position' \in PositionType
    /\ orders[c].side = "Buy" =>
          /\ position'.net = position.net + deferred.fill
          /\ position'.pendingBuy = Reduced(position.pendingBuy, deferred.fill)
          /\ position'.pendingSell = position.pendingSell
    /\ orders[c].side # "Buy" =>
          /\ position'.net = position.net - deferred.fill
          /\ position'.pendingSell = Reduced(position.pendingSell, deferred.fill)
          /\ position'.pendingBuy = position.pendingBuy
    /\ deferred' = Nothing
    /\ \/ /\ deferred.reroute /\ job' = [job EXCEPT !["exec"] = RerouteJob(parentOf[c])]
          /\ pc' = [pc EXCEPT !["exec"] = "admit"]
       \/ ~deferred.reroute /\ job' = job /\ pc' = [pc EXCEPT !["exec"] = "reports"]
    /\ completed' = IF deferred.completion THEN [completed EXCEPT ![parentOf[c]] = @ + 1] ELSE completed
    /\ UNCHANGED <<activeOrders, pendingQueue, batch, connected, reportQueue, lostReports, executed,
                   orders, childrenOf, parentOf, nextId, orderQueue, cancelQueue, clientQty, carried, rejected,
                   canceled, slices, sending, cancelList>>

LEMMA RunEffect ==
  ASSUME IInv, Accounting, RunDeferred
  PROVE  \E c \in OrderIds : Runs(c)
<1>0. PICK c : c = deferred.id
  OBVIOUS
<1>1. c \in OrderIds /\ Child(c) /\ pc["exec"] = "deferred" /\ position \in PositionType
  BY <1>0 DEF RunDeferred, IInv, Working, RouterShapes, Accounting, Callbacks
<1>2. PICK n \in Nat : n = deferred.fill
  BY DEF IInv, ThreadShapes, DeferShape
<1>3. position.net \in Int /\ position.pendingBuy \in Nat /\ position.pendingSell \in Nat
  BY <1>1 DEF PositionType
<1>4. CASE n > 0
  <2>1. fills' = [fills EXCEPT ![c] = @ + n] /\ OnFill(orders[c].side, n)
    BY <1>0, <1>2, <1>4 DEF RunDeferred
  <2>2. position' \in PositionType
    <3>1. PICK side : side = orders[c].side
      OBVIOUS
    <3>2. OnFill(side, n)
      BY <2>1, <3>1
    <3>. QED
      BY <3>2, <1>1, FilledPosition
  <2>3. PICK a, b, d, e : /\ a = position.net + n /\ b = Max({0, position.pendingBuy - n})
                          /\ d = position.net - n /\ e = Max({0, position.pendingSell - n})
    OBVIOUS
  <2>4. /\ orders[c].side = "Buy" => position' = [position EXCEPT !.net = a, !.pendingBuy = b]
        /\ orders[c].side # "Buy" => position' = [position EXCEPT !.net = d, !.pendingSell = e]
    BY <1>1, <2>1, <2>3 DEF OnFill, PositionType
  <2>5. /\ orders[c].side = "Buy" =>
             position'.net = a /\ position'.pendingBuy = b /\ position'.pendingSell = position.pendingSell
        /\ orders[c].side # "Buy" =>
             position'.net = d /\ position'.pendingSell = e /\ position'.pendingBuy = position.pendingBuy
    BY <1>1, <2>4 DEF PositionType
  <2>6. b = Reduced(position.pendingBuy, n) /\ e = Reduced(position.pendingSell, n)
    BY <1>3, <2>3, MaxReduced
  <2>7. Runs(c)
    <3>1. UNCHANGED <<activeOrders, pendingQueue, batch, connected, reportQueue, lostReports, executed,
                   orders, childrenOf, parentOf, nextId, orderQueue, cancelQueue, clientQty, carried, rejected,
                   canceled, slices, sending, cancelList>>
      BY DEF RunDeferred, exchangeVars, handlerVars
    <3>2. /\ deferred' = Nothing
          /\ \/ /\ deferred.reroute /\ job' = [job EXCEPT !["exec"] = RerouteJob(parentOf[c])]
                /\ pc' = [pc EXCEPT !["exec"] = "admit"]
             \/ ~deferred.reroute /\ job' = job /\ pc' = [pc EXCEPT !["exec"] = "reports"]
          /\ completed' = IF deferred.completion THEN [completed EXCEPT ![parentOf[c]] = @ + 1] ELSE completed
      BY <1>0 DEF RunDeferred, GoTo
    <3>. QED
      BY <1>0, <1>1, <1>2, <2>1, <2>2, <2>3, <2>5, <2>6, <3>1, <3>2 DEF Runs
  <2>. QED
    BY <2>7, <1>1
<1>5. CASE n = 0
  <2>1. fills' = fills /\ position' = position
    BY <1>2, <1>5 DEF RunDeferred, riskVars
  <2>2. fills' = [fills EXCEPT ![c] = @ + n]
    BY <2>1, <1>1, <1>5 DEF Accounting, AccountShapes
  <2>3. /\ position.net + n = position.net /\ position.net - n = position.net
        /\ Reduced(position.pendingBuy, n) = position.pendingBuy
        /\ Reduced(position.pendingSell, n) = position.pendingSell
    BY <1>3, <1>5 DEF Reduced
  <2>7. Runs(c)
    <3>1. UNCHANGED <<activeOrders, pendingQueue, batch, connected, reportQueue, lostReports, executed,
                   orders, childrenOf, parentOf, nextId, orderQueue, cancelQueue, clientQty, carried, rejected,
                   canceled, slices, sending, cancelList>>
      BY DEF RunDeferred, exchangeVars, handlerVars
    <3>2. /\ deferred' = Nothing
          /\ \/ /\ deferred.reroute /\ job' = [job EXCEPT !["exec"] = RerouteJob(parentOf[c])]
                /\ pc' = [pc EXCEPT !["exec"] = "admit"]
             \/ ~deferred.reroute /\ job' = job /\ pc' = [pc EXCEPT !["exec"] = "reports"]
          /\ completed' = IF deferred.completion THEN [completed EXCEPT ![parentOf[c]] = @ + 1] ELSE completed
      BY <1>0 DEF RunDeferred, GoTo
    <3>. QED
      BY <1>0, <1>1, <1>2, <2>1, <2>2, <2>3, <3>1, <3>2 DEF Runs
  <2>. QED
    BY <2>7, <1>1
<1>. QED
  BY <1>4, <1>5

LEMMA RunAccounting ==
  ASSUME IInv, Accounting, NEW c \in OrderIds, Runs(c)
  PROVE  Accounting'
<1>n. PICK n \in Nat : n = deferred.fill
  BY DEF IInv, ThreadShapes, DeferShape
<1>u. /\ UNCHANGED <<executed, lostReports, reportQueue, parentOf, orders, clientQty, carried, nextId, orderQueue>>
      /\ c = deferred.id /\ Child(c) /\ deferred' = Nothing /\ pc["exec"] = "deferred"
      /\ fills' = [fills EXCEPT ![c] = @ + n]
  BY <1>n DEF Runs
<1>a. AccountShapes /\ ChildrenTrade /\ orders \in [OrderIds -> OrderShape]
  BY DEF Accounting, IInv, RouterShapes
<1>f. fills' \in [OrderIds -> Nat] /\ \A x \in OrderIds : fills'[x] = fills[x] + (IF x = c THEN n ELSE 0)
  BY <1>a, <1>u DEF AccountShapes
<1>w. \A x : Unseen(x)' = Unseen(x) /\ Unseen(x) \in Nat
  BY <1>u, UnseenSame, AccountingFacts
<1>1. AccountShapes'
  BY <1>a, <1>u, <1>f DEF AccountShapes
<1>2. LostOfChildren' /\ Clients'
  BY <1>u DEF Accounting, LostOfChildren, Clients, Child
<1>3. ChildrenTrade'
  <2>1. ASSUME NEW x \in OrderIds, ~Child(x) PROVE executed[x] = 0 /\ fills'[x] = 0
    <3>1. x # c /\ fills[x] = 0 /\ executed[x] = 0
      BY <2>1, <1>u, <1>a DEF ChildrenTrade
    <3>. QED
      BY <3>1, <1>f
  <2>. QED
    BY <2>1, <1>u DEF ChildrenTrade, Child
<1>4. Callbacks'
  BY <1>u, Ids DEF Callbacks, Nothing
<1>5. FreshJobs'
  <2>0. "exec" \in Threads /\ FreshJobs /\ job \in [Threads -> JobShape]
        /\ pc \in [Threads -> {"loop", "orders", "admit", "route", "slice", "send", "cancels", "cancelling",
                           "reports", "deferred", "exited"}]
    BY DEF Threads, Accounting, IInv, ThreadShapes
  <2>1. CASE job' = job /\ pc' = [pc EXCEPT !["exec"] = "reports"]
    BY <2>0, <2>1, <1>u, OthersFresh
  <2>2. CASE /\ job' = [job EXCEPT !["exec"] = RerouteJob(parentOf[c])]
             /\ pc' = [pc EXCEPT !["exec"] = "admit"]
    <3>1. parentOf[c] \in OrderIds
      BY <1>u, Ids DEF IInv, RouterShapes, Child
    <3>2. PICK j : j = RerouteJob(parentOf[c])
      OBVIOUS
    <3>3. j.order.filled = 0
      <4>1. PICK o \in OrderShape : o = orders[parentOf[c]]
        BY <3>1, <1>a
      <4>2. j.order = [o EXCEPT !.quantity = o.remaining, !.filled = 0, !.state = "New"]
        BY <3>2, <4>1 DEF RerouteJob
      <4>. QED
        BY <4>2 DEF OrderShape
    <3>4. ASSUME NEW z \in Threads, pc'[z] = "admit" PROVE job'[z].order.filled = 0
      <4>1. CASE z = "exec"
        BY <4>1, <3>2, <3>3, <2>0, <2>2
      <4>2. CASE z # "exec"
        <5>1. job'[z] = job[z] /\ pc[z] = "admit"
          BY <4>2, <3>4, <2>0, <2>2
        <5>. QED
          BY <5>1, <2>0 DEF FreshJobs
      <4>. QED
        BY <4>1, <4>2
    <3>. QED
      BY <3>4, <2>0, <1>u DEF FreshJobs
  <2>. QED
    BY <2>1, <2>2 DEF Runs
<1>6. Balance'
  <2>1. ASSUME NEW q \in OrderIds, ~Child(q) PROVE Balanced(q)'
    <3>1. Children(q)' = Children(q)
      BY <1>u DEF Children
    <3>2. /\ ExecutedOf(q)' = ExecutedOf(q)
          /\ SumFunction([x \in Children(q) |-> Unseen(x)])' = SumFunction([x \in Children(q) |-> Unseen(x)])
      BY <3>1, <1>u, ChildrenStill
    <3>3. Balanced(q)
      BY <2>1 DEF Accounting, Balance
    <3>. QED
      BY <3>2, <3>3, <1>u DEF Balanced
  <2>. QED
    BY <2>1, <1>u DEF Balance, Child
<1>7. ASSUME NEW x \in OrderIds PROVE Recorded(x)'
  <2>1. executed[x] = fills[x] + Unseen(x) + (IF c = x THEN n ELSE 0)
    BY <1>u, <1>n DEF Accounting, Recorded
  <2>2. fills[x] \in Nat /\ fills'[x] = fills[x] + (IF x = c THEN n ELSE 0)
    BY <1>f, <1>a DEF AccountShapes
  <2>3. (IF deferred'.id = x THEN deferred'.fill ELSE 0) = 0
    BY <1>u DEF Nothing
  <2>4. executed[x] = fills'[x] + Unseen(x)' + 0
    BY <2>1, <2>2, <1>w
  <2>. QED
    BY <2>3, <2>4, <1>u DEF Recorded
<1>8. position'.net = SumFunctionOnSet(Signed, OrderIds)'
  <2> DEFINE m == IF orders[c].side = "Buy" THEN n ELSE 0 - n
             f == Signed
             h == Signed'
  <2>1. position'.net = position.net + m /\ m \in Int /\ position.net \in Int
    <3>1. position.net \in Int
      BY DEF IInv, RouterShapes, PositionType
    <3>. QED
      BY <3>1, <1>n DEF Runs
  <2>2. ASSUME NEW y \in OrderIds PROVE f[y] \in Int /\ h[y] = f[y] + (IF y = c THEN m ELSE 0)
    <3>1. fills[y] \in Nat /\ fills'[y] \in Nat /\ fills'[y] = fills[y] + (IF y = c THEN n ELSE 0)
      BY <1>f, <1>a DEF AccountShapes
    <3>2. /\ -fills[y] \in Int /\ -fills[y] = 0 - fills[y]
          /\ -(fills'[y]) \in Int /\ -(fills'[y]) = 0 - fills'[y]
      BY <3>1, Negative
    <3>3. f[y] = IF orders[y].side = "Buy" THEN fills[y] ELSE 0 - fills[y]
      BY <3>2 DEF Signed
    <3>4. h[y] = IF orders[y].side = "Buy" THEN fills'[y] ELSE 0 - fills'[y]
      <4>1. h[y] = IF orders'[y].side = "Buy" THEN fills'[y] ELSE -(fills'[y])
        BY DEF Signed
      <4>. QED
        BY <3>2, <4>1, <1>u
    <3> HIDE DEF f, h
    <3>5. CASE y = c
      BY <3>1, <3>3, <3>4, <3>5
    <3>6. CASE y # c
      BY <3>1, <3>3, <3>4, <3>6
    <3>. QED
      BY <3>5, <3>6
  <2>3. SumFunctionOnSet(h, OrderIds) = SumFunctionOnSet(f, OrderIds) + m
    <3> HIDE DEF f, h, m
    <3>1. Bumps(f, h, OrderIds, c, m)
      BY <2>1, <2>2, FiniteAssumption DEF Bumps
    <3>. QED
      BY <3>1, SumBump
  <2>4. position.net = SumFunctionOnSet(f, OrderIds)
    BY DEF Accounting
  <2> HIDE DEF f, h, m
  <2>5. position'.net = SumFunctionOnSet(h, OrderIds)
    BY <2>1, <2>3, <2>4
  <2>. QED
    BY <2>5 DEF h
<1>. QED
  BY <1>1, <1>2, <1>3, <1>4, <1>5, <1>6, <1>7, <1>8 DEF Accounting

-----------------------------------------------------------------------------
(* The accounts of the router hold in every state.                         *)

LEMMA NextAccounting == IInv /\ Accounting /\ [Next]_vars => Accounting'
<1> SUFFICES ASSUME IInv, Accounting, [Next]_vars PROVE Accounting'
  OBVIOUS
<1>0. "order" \in Threads /\ "exec" \in Threads
  BY DEF Threads
<1>1. CASE \E side \in SideChoices, quantity \in Quantities, tif \in TifChoices, strategy \in Strategies :
              SubmitOrder(side, quantity, tif, strategy)
  BY <1>1, SubmitAccounting
<1>2. CASE (\E id \in OrderIds : CancelOrder(id)) \/ KillSwitch \/ Stop \/ StopDisconnect \/ UNCHANGED vars
  BY <1>2, ClientAccounting
<1>3. ASSUME NEW t \in Threads, ProcessSingleOrder(t) PROVE Accounting'
  <2>1. CASE Admit(t)
    BY <2>1, AdmitEffect, AdmitAccounting, GivesUpAccounting
  <2>2. CASE Route(t)
    BY <2>2, RouteAccounting
  <2>3. CASE Slice(t)
    BY <2>3, SliceEffect, SliceAccounting
  <2>4. CASE Send(t)
    BY <2>4, SendEffect, SendAccounting
  <2>. QED
    BY <1>3, <2>1, <2>2, <2>3, <2>4 DEF ProcessSingleOrder
<1>4. CASE OrderThread
  BY <1>0, <1>3, <1>4, LoopAccounting, PopOrderAccounting, CancelsAccounting DEF OrderThread
<1>5. CASE ExecThread
  BY <1>0, <1>3, <1>5, LoopAccounting, PopReportAccounting, RunEffect, RunAccounting DEF ExecThread
<1>6. CASE \E v \in Venues : VenueStep(v)
  BY <1>6, VenueAccounting
<1>. QED
  BY <1>1, <1>2, <1>4, <1>5, <1>6 DEF Next

THEOREM AccountingInvariant == Spec => []Accounting
<1>1. Init => Accounting
  BY InitAccounting
<1>2. IInv /\ Accounting /\ [Next]_vars => Accounting'
  BY NextAccounting
<1>. QED
  BY <1>1, <1>2, GatewayInvariant, PTL DEF Spec

(* What a client's order shows as filled, with what its reroutes carried    *)
(* away and the reports not yet handled or lost, is what the venues         *)
(* executed for it, however many threads, venues and reroutes took part.    *)
THEOREM FillsAddUp == Spec => []FillAccounting
<1>1. Accounting => FillAccounting
  <2> SUFFICES ASSUME Accounting, NEW p \in ClientOrders PROVE Balanced(p)
    BY DEF FillAccounting, Balanced
  <2>1. p \in OrderIds /\ clientQty[p] > 0
    BY DEF ClientOrders
  <2>. QED
    BY <2>1 DEF Accounting, Clients, Balance
<1>. QED
  BY <1>1, AccountingInvariant, PTL

(* Every execution the handler has seen reaches the fill manager and the    *)
(* position exactly once.                                                   *)
THEOREM FillsReachThePosition == Spec => []FillsRecorded
<1>1. Accounting => FillsRecorded
  <2> SUFFICES ASSUME Accounting PROVE FillsRecorded
    OBVIOUS
  <2>1. \A c \in OrderIds :
          executed[c] = fills[c] + Unseen(c) + (IF deferred.id = c THEN deferred.fill ELSE 0)
    BY DEF Accounting, Recorded
  <2>2. position.net = SumFunction([c \in OrderIds |-> IF orders[c].side = "Buy" THEN fills[c] ELSE -fills[c]])
    BY DEF Accounting, Signed, SumFunction
  <2>. QED
    BY <2>1, <2>2 DEF FillsRecorded
<1>. QED
  BY <1>1, AccountingInvariant, PTL
=============================================================================
