------------------------- MODULE Foundations_proofs -------------------------
(***************************************************************************)
(* What the proofs of several components rest on and the library does not  *)
(* have in a form these provers can use.                                   *)
(*                                                                         *)
(*   - Induction and recursion, with sets and functions in place of        *)
(*     operators: a predicate on S is the set P of the elements of S it    *)
(*     holds for, and the body of a recursive definition is a function     *)
(*     Body from candidates to what it computes with them.                 *)
(*   - Remainders.                                                         *)
(***************************************************************************)
EXTENDS FiniteSetTheorems, TLAPS

(* Well-founded induction.                                                 *)
LEMMA SetInduction ==
  ASSUME NEW S, NEW R, IsWellFoundedOn(R, S), NEW P,
         \A x \in S : SetLessThan(x, R, S) \subseteq P => x \in P
  PROVE  S \subseteq P
<1>1. SUFFICES ASSUME ~(S \subseteq P) PROVE FALSE
  OBVIOUS
<1> DEFINE bad == {x \in S : x \notin P}
<1>2. bad \subseteq S /\ bad # {}
  BY <1>1
<1>3. \E x \in bad : \A y \in bad : ~(<<y, x>> \in R)
  BY <1>2, WFMin
<1>4. PICK x \in bad : \A y \in bad : ~(<<y, x>> \in R)
  BY <1>3
<1>5. SetLessThan(x, R, S) \subseteq P
  BY <1>4 DEF SetLessThan
<1>6. QED
  BY <1>4, <1>5

(* Mathematical induction.                                                 *)
LEMMA NatInductionOnSets ==
  ASSUME NEW P, 0 \in P, \A n \in Nat : n \in P => n + 1 \in P
  PROVE  Nat \subseteq P
<1> DEFINE R == OpToRel(<, Nat)
<1>1. \A m, n \in Nat : m < n => <<m, n>> \in R
  <2>1. R = {ss \in Nat \X Nat : ss[1] < ss[2]}
    BY DEF OpToRel
  <2> HIDE DEF R
  <2>2. QED
    BY <2>1
<1>2. IsWellFoundedOn(R, Nat)
  BY NatLessThanWellFounded
<1> HIDE DEF R
<1>3. ASSUME NEW n \in Nat, SetLessThan(n, R, Nat) \subseteq P
      PROVE  n \in P
  <2>1. CASE n = 0
    BY <2>1
  <2>2. CASE n # 0
    <3>1. n - 1 \in Nat /\ n - 1 < n /\ (n - 1) + 1 = n
      BY <2>2
    <3>2. n - 1 \in SetLessThan(n, R, Nat)
      BY <1>1, <3>1 DEF SetLessThan
    <3>3. QED
      BY <1>3, <3>1, <3>2
  <2>3. QED
    BY <2>1, <2>2
<1>4. QED
  BY <1>2, <1>3, SetInduction

(* Induction over the elements of a finite set, one at a time.             *)
LEMMA FiniteInductionOnSets ==
  ASSUME NEW S, IsFiniteSet(S), NEW P,
         \A T : T \subseteq S /\ (\A x \in T : T \ {x} \in P) => T \in P
  PROVE  \A T : T \subseteq S => T \in P
<1> DEFINE R == StrictSubsetOrdering(S)
<1>1. IsWellFoundedOn(R, SUBSET S)
  BY FS_StrictSubsetOrderingWellFounded, FS_FiniteSubsetsOfFinite
<1>2. \A T \in SUBSET S : \A x \in T : <<T \ {x}, T>> \in R
  BY DEF StrictSubsetOrdering
<1> HIDE DEF R
<1>3. ASSUME NEW T \in SUBSET S, SetLessThan(T, R, SUBSET S) \subseteq P
      PROVE  T \in P
  <2>1. ASSUME NEW x \in T
        PROVE  T \ {x} \in P
    <3>1. T \ {x} \in SUBSET S
      OBVIOUS
    <3>2. T \ {x} \in SetLessThan(T, R, SUBSET S)
      BY <1>2, <3>1 DEF SetLessThan
    <3>3. QED
      BY <1>3, <3>2
  <2>2. QED
    BY <2>1
<1> DEFINE D == SUBSET S
<1>4. IsWellFoundedOn(R, D) /\ \A T \in D : SetLessThan(T, R, D) \subseteq P => T \in P
  BY <1>1, <1>3
<1> HIDE DEF D
<1>5. D \subseteq P
  BY <1>4, SetInduction
<1>6. QED
  BY <1>5 DEF D

-----------------------------------------------------------------------------
(***************************************************************************)
(* A definition by recursion on S, with values in V: what it gives an      *)
(* argument depends on what the candidate gives what is below it.          *)
(***************************************************************************)
Recursive(S, R, V, Body) ==
  /\ IsWellFoundedOn(R, S)
  /\ \A x, y, z \in S : <<x, y>> \in R /\ <<y, z>> \in R => <<x, z>> \in R
  /\ Body \in [[S -> V] -> [S -> V]]
  /\ \A g, h \in [S -> V] : \A x \in S :
       (\A y \in SetLessThan(x, R, S) : g[y] = h[y]) => Body[g][x] = Body[h][x]

(* The functions that satisfy the definition at an argument and below it.  *)
Approximations(x, S, R, V, Body) ==
  {g \in [S -> V] : \A y \in S : y = x \/ y \in SetLessThan(x, R, S) => g[y] = Body[g][y]}

(* They agree at the argument.                                             *)
LEMMA ApproximationsAgree ==
  ASSUME NEW S, NEW R, NEW V, NEW Body, Recursive(S, R, V, Body)
  PROVE  \A x \in S : \A g, h \in Approximations(x, S, R, V, Body) : g[x] = h[x]
<1> DEFINE A(x) == Approximations(x, S, R, V, Body)
           P == {x \in S : \A g, h \in A(x) : g[x] = h[x]}
<1>1. IsWellFoundedOn(R, S)
  BY DEF Recursive
<1>2. ASSUME NEW x \in S, SetLessThan(x, R, S) \subseteq P
      PROVE  x \in P
  <2>1. SUFFICES ASSUME NEW g \in A(x), NEW h \in A(x) PROVE g[x] = h[x]
    OBVIOUS
  <2>2. ASSUME NEW y \in SetLessThan(x, R, S)
        PROVE  g[y] = h[y]
    <3>1. y \in S /\ \A z \in S : <<z, y>> \in R => <<z, x>> \in R
      BY DEF Recursive, SetLessThan
    <3>2. g \in A(y) /\ h \in A(y)
      BY <3>1 DEF Approximations, SetLessThan
    <3>3. y \in P
      BY <1>2
    <3>4. QED
      BY <3>2, <3>3
  <2>3. g \in [S -> V] /\ h \in [S -> V] /\ g[x] = Body[g][x] /\ h[x] = Body[h][x]
    BY DEF Approximations
  <2>4. QED
    BY <2>2, <2>3 DEF Recursive
<1> HIDE DEF P
<1>3. S \subseteq P
  BY <1>1, <1>2, SetInduction
<1>4. QED
  BY <1>3 DEF P

(* An approximation at an argument is one at everything below it.          *)
LEMMA ApproximationsBelow ==
  ASSUME NEW S, NEW R, NEW V, NEW Body, Recursive(S, R, V, Body),
         NEW x \in S, NEW y \in SetLessThan(x, R, S), NEW g \in Approximations(x, S, R, V, Body)
  PROVE  g \in Approximations(y, S, R, V, Body)
<1>1. y \in S /\ \A z \in S : <<z, y>> \in R => <<z, x>> \in R
  BY DEF Recursive, SetLessThan
<1>2. QED
  BY <1>1 DEF Approximations, SetLessThan

(* There is one at every argument.                                         *)
LEMMA ApproximationsExist ==
  ASSUME NEW S, NEW R, NEW V, NEW Body, Recursive(S, R, V, Body), V # {}
  PROVE  \A x \in S : Approximations(x, S, R, V, Body) # {}
<1> DEFINE A(x) == Approximations(x, S, R, V, Body)
           P == {x \in S : A(x) # {}}
<1>1. IsWellFoundedOn(R, S)
  BY DEF Recursive
<1>2. ASSUME NEW x \in S, SetLessThan(x, R, S) \subseteq P
      PROVE  x \in P
  <2>1. PICK v \in V : TRUE
    OBVIOUS
  <2> DEFINE k(y) == CHOOSE g \in A(y) : TRUE
             low == [y \in S |-> IF y \in SetLessThan(x, R, S) THEN k(y)[y] ELSE v]
             top == [low EXCEPT ![x] = Body[low][x]]
  <2>2. \A y \in SetLessThan(x, R, S) : y \in S /\ k(y) \in A(y)
    BY <1>2 DEF SetLessThan
  <2>3. \A y \in SetLessThan(x, R, S) : k(y) \in [S -> V]
    BY <2>2 DEF Approximations
  <2> HIDE DEF k
  <2>4. low \in [S -> V]
    BY <2>1, <2>2, <2>3
  <2>5. \A y \in SetLessThan(x, R, S) : low[y] = k(y)[y]
    BY <2>2
  <2>6. x \notin SetLessThan(x, R, S)
    BY <1>1, WellFoundedIsIrreflexive DEF SetLessThan
  <2> HIDE DEF low
  <2>7. Body[low][x] \in V
    BY <2>4 DEF Recursive
  <2>8. /\ top \in [S -> V]
        /\ top[x] = Body[low][x]
        /\ \A y \in S : y # x => top[y] = low[y]
    BY <2>4, <2>7
  <2> HIDE DEF top
  <2>9. top[x] = Body[top][x]
    <3>1. \A y \in SetLessThan(x, R, S) : low[y] = top[y]
      BY <2>6, <2>8, <2>2
    <3>2. Body[low][x] = Body[top][x]
      BY <3>1, <2>4, <2>8 DEF Recursive
    <3>3. QED
      BY <3>2, <2>8
  <2>10. ASSUME NEW y \in SetLessThan(x, R, S)
         PROVE  top[y] = Body[top][y]
    <3>1. y \in S /\ y # x
      BY <2>2, <2>6
    <3>2. ASSUME NEW z \in SetLessThan(y, R, S)
          PROVE  k(y)[z] = top[z]
      <4>1. z \in SetLessThan(x, R, S) /\ z \in S /\ z # x
        BY <2>6, <3>1 DEF SetLessThan, Recursive
      <4>2. k(y) \in A(z) /\ k(z) \in A(z)
        BY <2>2, <3>1, <4>1, ApproximationsBelow
      <4>3. k(y)[z] = k(z)[z]
        BY <4>1, <4>2, ApproximationsAgree
      <4>4. QED
        BY <4>1, <4>3, <2>5, <2>8
    <3>3. Body[k(y)][y] = Body[top][y]
      BY <2>3, <2>8, <3>1, <3>2 DEF Recursive
    <3>4. k(y)[y] = Body[k(y)][y]
      BY <2>2, <3>1 DEF Approximations
    <3>5. QED
      BY <2>5, <2>8, <3>1, <3>3, <3>4
  <2>11. top \in A(x)
    BY <2>8, <2>9, <2>10 DEF Approximations
  <2>12. QED
    BY <2>11
<1> HIDE DEF P
<1>3. S \subseteq P
  BY <1>1, <1>2, SetInduction
<1>4. QED
  BY <1>3 DEF P

(* The definition defines a function.                                      *)
LEMMA RecursiveFunctionExists ==
  ASSUME NEW S, NEW R, NEW V, NEW Body, Recursive(S, R, V, Body), V # {}
  PROVE  \E g \in [S -> V] : \A x \in S : g[x] = Body[g][x]
<1> DEFINE A(x) == Approximations(x, S, R, V, Body)
           k(x) == CHOOSE g \in A(x) : TRUE
           g == [x \in S |-> k(x)[x]]
<1>1. \A x \in S : k(x) \in A(x)
  BY ApproximationsExist
<1> HIDE DEF k
<1>2. \A x \in S : k(x) \in [S -> V] /\ k(x)[x] = Body[k(x)][x]
  BY <1>1 DEF Approximations
<1>3. g \in [S -> V]
  BY <1>2
<1>4. ASSUME NEW x \in S
      PROVE  g[x] = Body[g][x]
  <2>1. ASSUME NEW y \in SetLessThan(x, R, S)
        PROVE  k(x)[y] = g[y]
    <3>1. y \in S
      BY DEF SetLessThan
    <3>2. k(x) \in A(y) /\ k(y) \in A(y)
      BY <1>1, <3>1, ApproximationsBelow
    <3>3. k(x)[y] = k(y)[y]
      BY <3>1, <3>2, ApproximationsAgree
    <3>4. QED
      BY <3>1, <3>3
  <2>2. g[x] = k(x)[x]
    OBVIOUS
  <2> HIDE DEF g
  <2>3. Body[k(x)][x] = Body[g][x]
    BY <1>2, <1>3, <2>1 DEF Recursive
  <2>4. QED
    BY <1>2, <2>2, <2>3
<1>5. QED
  BY <1>3, <1>4

(***************************************************************************)
(* The two orders the models recurse on: on the numbers, and on the        *)
(* subsets of a finite set.                                                *)
(***************************************************************************)
RecursiveOnNat(V, Body) ==
  /\ V # {}
  /\ Body \in [[Nat -> V] -> [Nat -> V]]
  /\ \A g, h \in [Nat -> V] : \A n \in Nat :
       (\A m \in Nat : m < n => g[m] = h[m]) => Body[g][n] = Body[h][n]

RecursiveOnSubsets(S, D, V, Body) ==
  /\ D = SUBSET S
  /\ V # {}
  /\ Body \in [[D -> V] -> [D -> V]]
  /\ \A g, h \in [D -> V] : \A T \in D :
       (\A U \in D : U \subseteq T /\ U # T => g[U] = h[U]) => Body[g][T] = Body[h][T]

(* A recursive function on the numbers exists.                             *)
COROLLARY RecursionOnNat ==
  ASSUME NEW V, NEW Body, RecursiveOnNat(V, Body)
  PROVE  \E g \in [Nat -> V] : \A n \in Nat : g[n] = Body[g][n]
<1> DEFINE R == OpToRel(<, Nat)
<1>1. \A m, n : <<m, n>> \in R <=> m \in Nat /\ n \in Nat /\ m < n
  <2>1. R = {ss \in Nat \X Nat : ss[1] < ss[2]}
    BY DEF OpToRel
  <2> HIDE DEF R
  <2>2. QED
    BY <2>1
<1>2. IsWellFoundedOn(R, Nat)
  BY NatLessThanWellFounded
<1> HIDE DEF R
<1>3. \A n \in Nat : \A m \in Nat : m < n => m \in SetLessThan(n, R, Nat)
  BY <1>1 DEF SetLessThan
<1>4. \A x, y, z \in Nat : <<x, y>> \in R /\ <<y, z>> \in R => <<x, z>> \in R
  BY <1>1
<1>5. ASSUME NEW g \in [Nat -> V], NEW h \in [Nat -> V], NEW n \in Nat,
             \A m \in SetLessThan(n, R, Nat) : g[m] = h[m]
      PROVE  Body[g][n] = Body[h][n]
  BY <1>3, <1>5 DEF RecursiveOnNat
<1>6. Recursive(Nat, R, V, Body)
  BY <1>2, <1>4, <1>5 DEF Recursive, RecursiveOnNat
<1>7. QED
  BY <1>6, RecursiveFunctionExists DEF RecursiveOnNat

(* A recursive function on the subsets of a finite set exists.             *)
COROLLARY RecursionOnSubsets ==
  ASSUME NEW S, IsFiniteSet(S), NEW D, NEW V, NEW Body, RecursiveOnSubsets(S, D, V, Body)
  PROVE  \E g \in [D -> V] : \A T \in D : g[T] = Body[g][T]
<1> DEFINE R == StrictSubsetOrdering(S)
<1>0. IsWellFoundedOn(R, D)
  BY FS_StrictSubsetOrderingWellFounded, FS_FiniteSubsetsOfFinite DEF RecursiveOnSubsets
<1>1. \A T, U \in D : <<T, U>> \in R <=> T \subseteq U /\ T # U
  BY DEF StrictSubsetOrdering, RecursiveOnSubsets
<1> HIDE DEF R
<1>2. \A T \in D : \A U \in D : U \subseteq T /\ U # T => U \in SetLessThan(T, R, D)
  BY <1>1 DEF SetLessThan
<1>3. ASSUME NEW x \in D, NEW y \in D, NEW z \in D, <<x, y>> \in R, <<y, z>> \in R
      PROVE  <<x, z>> \in R
  <2>1. x \subseteq y /\ x # y /\ y \subseteq z
    BY <1>1, <1>3
  <2>2. x \subseteq z
    BY <2>1
  <2>3. x # z
    <3>1. SUFFICES ASSUME x = z PROVE FALSE
      OBVIOUS
    <3>2. y \subseteq x
      BY <2>1, <3>1
    <3>3. QED
      BY <2>1, <3>2
  <2>4. QED
    BY <1>1, <2>2, <2>3
<1>4. ASSUME NEW g \in [D -> V], NEW h \in [D -> V], NEW T \in D,
             \A U \in SetLessThan(T, R, D) : g[U] = h[U]
      PROVE  Body[g][T] = Body[h][T]
  <2>1. \A U \in D : U \subseteq T /\ U # T => g[U] = h[U]
    BY <1>2, <1>4
  <2>2. QED
    BY <2>1, Zenon DEF RecursiveOnSubsets
<1>5. Recursive(D, R, V, Body)
  BY <1>0, <1>3, <1>4, Zenon DEF Recursive, RecursiveOnSubsets
<1>6. V # {}
  BY DEF RecursiveOnSubsets
<1>7. QED
  BY <1>5, <1>6, RecursiveFunctionExists

(***************************************************************************)
(* The same for a set whose elements are measured by numbers.              *)
(***************************************************************************)
Smaller(S, measure) == {ss \in S \X S : measure[ss[1]] < measure[ss[2]]}

(* A measure makes a well-founded order.                                   *)
LEMMA SmallerIsWellFounded ==
  ASSUME NEW S, NEW measure \in [S -> Nat]
  PROVE  /\ IsWellFoundedOn(Smaller(S, measure), S)
         /\ \A x, y : <<x, y>> \in Smaller(S, measure)
                     <=> x \in S /\ y \in S /\ measure[x] < measure[y]
<1> DEFINE R == OpToRel(<, Nat)
           below == Smaller(S, measure)
<1>1. \A m, n : <<m, n>> \in R <=> m \in Nat /\ n \in Nat /\ m < n
  <2>1. R = {ss \in Nat \X Nat : ss[1] < ss[2]}
    BY DEF OpToRel
  <2> HIDE DEF R
  <2>2. QED
    BY <2>1
<1>2. IsWellFoundedOn(R, Nat)
  BY NatLessThanWellFounded
<1>3. \A x, y : <<x, y>> \in below <=> x \in S /\ y \in S /\ measure[x] < measure[y]
  BY DEF Smaller
<1> HIDE DEF R, below
<1>4. SUFFICES ASSUME NEW f \in [Nat -> S], \A n \in Nat : <<f[n + 1], f[n]>> \in below
               PROVE  FALSE
  BY <1>3 DEF IsWellFoundedOn, below
<1> DEFINE g == [n \in Nat |-> measure[f[n]]]
<1>5. g \in [Nat -> Nat]
  OBVIOUS
<1>6. ASSUME NEW n \in Nat
      PROVE  g[n + 1] < g[n]
  <2>1. n + 1 \in Nat /\ <<f[n + 1], f[n]>> \in below
    BY <1>4
  <2>2. measure[f[n + 1]] < measure[f[n]]
    BY <1>3, <2>1
  <2>3. QED
    BY <2>1, <2>2
<1> HIDE DEF g
<1>7. \A n \in Nat : <<g[n + 1], g[n]>> \in R
  BY <1>1, <1>5, <1>6
<1>8. QED
  BY <1>2, <1>5, <1>7 DEF IsWellFoundedOn

(* Induction on a measure.                                                 *)
LEMMA MeasureInduction ==
  ASSUME NEW S, NEW measure \in [S -> Nat], NEW P,
         \A x \in S : (\A y \in S : measure[y] < measure[x] => y \in P) => x \in P
  PROVE  S \subseteq P
<1>1. \A x \in S : SetLessThan(x, Smaller(S, measure), S) \subseteq P => x \in P
  BY SmallerIsWellFounded DEF SetLessThan
<1>2. QED
  BY <1>1, SmallerIsWellFounded, SetInduction

RecursiveByMeasure(S, measure, V, Body) ==
  /\ V # {}
  /\ measure \in [S -> Nat]
  /\ Body \in [[S -> V] -> [S -> V]]
  /\ \A g, h \in [S -> V] : \A x \in S :
       (\A y \in S : measure[y] < measure[x] => g[y] = h[y]) => Body[g][x] = Body[h][x]

(* A recursive function exists when its argument gets smaller.             *)
COROLLARY RecursionByMeasure ==
  ASSUME NEW S, NEW measure, NEW V, NEW Body, RecursiveByMeasure(S, measure, V, Body)
  PROVE  \E g \in [S -> V] : \A x \in S : g[x] = Body[g][x]
<1> DEFINE R == Smaller(S, measure)
<1>0. measure \in [S -> Nat]
  BY DEF RecursiveByMeasure
<1>1. IsWellFoundedOn(R, S)
  BY <1>0, SmallerIsWellFounded
<1>2. \A x, y : <<x, y>> \in R <=> x \in S /\ y \in S /\ measure[x] < measure[y]
  BY <1>0, SmallerIsWellFounded
<1> HIDE DEF R
<1>3. \A x, y, z \in S : <<x, y>> \in R /\ <<y, z>> \in R => <<x, z>> \in R
  BY <1>0, <1>2
<1>4. ASSUME NEW g \in [S -> V], NEW h \in [S -> V], NEW x \in S,
             \A y \in SetLessThan(x, R, S) : g[y] = h[y]
      PROVE  Body[g][x] = Body[h][x]
  <2>1. \A y \in S : measure[y] < measure[x] => g[y] = h[y]
    BY <1>2, <1>4 DEF SetLessThan
  <2>2. QED
    BY <2>1, Zenon DEF RecursiveByMeasure
<1>5. Recursive(S, R, V, Body)
  BY <1>1, <1>3, <1>4, Zenon DEF Recursive, RecursiveByMeasure
<1>6. V # {}
  BY DEF RecursiveByMeasure
<1>7. QED
  BY <1>5, <1>6, RecursiveFunctionExists

-----------------------------------------------------------------------------
(***************************************************************************)
(* Remainders, for a positive modulus.                                     *)
(***************************************************************************)
LEMMA QuotientAndRemainder ==
  ASSUME NEW u \in Nat \ {0}, NEW x \in Int
  PROVE  /\ x \div u \in Int
         /\ x % u \in 0 .. u - 1
         /\ x = (u * (x \div u)) + (x % u)
OBVIOUS

(* The same, with names for the two.                                       *)
LEMMA Division ==
  ASSUME NEW u \in Nat \ {0}, NEW x \in Int
  PROVE  \E q \in Int : \E r \in 0 .. u - 1 : x = u * q + r /\ r = x % u
<1> DEFINE q == x \div u
           r == x % u
<1>1. q \in Int /\ r \in 0 .. u - 1 /\ x = (u * q) + r
  BY QuotientAndRemainder
<1>2. r = x % u
  OBVIOUS
<1> HIDE DEF q, r
<1>3. QED
  BY <1>1, <1>2

(* A multiple of u between -u and u is zero.                               *)
LEMMA NoSmallMultiple ==
  ASSUME NEW u \in Nat \ {0}, NEW d \in Int, u * d < u, u * d > -u
  PROVE  d = 0
<1>1. CASE d >= 1
  <2>1. u * d >= u
    BY <1>1
  <2>2. QED
    BY <2>1
<1>2. CASE d <= -1
  <2>1. u * d <= -u
    BY <1>2
  <2>2. QED
    BY <2>1
<1>3. QED
  BY <1>1, <1>2

(* The remainder is the only number below u at a multiple of u from x.     *)
LEMMA RemainderIsUnique ==
  ASSUME NEW u \in Nat \ {0}, NEW x \in Int, NEW q \in Int, NEW r \in 0 .. u - 1,
         x = u * q + r
  PROVE  x % u = r
<1>1. PICK p \in Int, s \in 0 .. u - 1 : x = u * p + s /\ s = x % u
  BY Division
<1>2. u * (q - p) = u * q - u * p
  OBVIOUS
<1>3. u * (q - p) = s - r
  BY <1>1, <1>2
<1>4. u * (q - p) < u /\ u * (q - p) > -u
  BY <1>1, <1>3
<1>5. q - p = 0
  BY <1>1, <1>4, NoSmallMultiple
<1>6. q = p
  BY <1>1, <1>5
<1>7. PICK m \in Int : m = u * p
  OBVIOUS
<1>8. x = m + s /\ x = m + r
  BY <1>1, <1>6, <1>7
<1>9. s = r
  BY <1>1, <1>7, <1>8
<1>10. QED
  BY <1>1, <1>9

(* Numbers have the same remainder when they are a multiple of u apart, and *)
(* only then.                                                              *)
LEMMA ShiftByMultiple ==
  ASSUME NEW u \in Nat \ {0}, NEW x \in Int, NEW y \in Int, NEW q \in Int, x = y + u * q
  PROVE  x % u = y % u
<1>1. PICK p \in Int, r \in 0 .. u - 1 : y = u * p + r /\ r = y % u
  BY Division
<1>2. u * (p + q) = u * p + u * q
  OBVIOUS
<1>3. x = u * (p + q) + r
  BY <1>1, <1>2
<1>4. p + q \in Int
  OBVIOUS
<1>5. QED
  BY <1>1, <1>3, <1>4, RemainderIsUnique

(* Numbers with the same remainder differ by a multiple.                   *)
LEMMA SameRemainder ==
  ASSUME NEW u \in Nat \ {0}, NEW x \in Int, NEW y \in Int, x % u = y % u
  PROVE  \E q \in Int : x = y + u * q
<1>1. PICK p \in Int, r \in 0 .. u - 1 : y = u * p + r /\ r = y % u
  BY Division
<1>2. PICK s \in Int, t \in 0 .. u - 1 : x = u * s + t /\ t = x % u
  BY Division
<1>3. u * (s - p) = u * s - u * p
  OBVIOUS
<1>4. x = y + u * (s - p)
  BY <1>1, <1>2, <1>3
<1>5. QED
  BY <1>4

(* A remainder stands for its number in sums, differences and products.    *)
LEMMA RemainderOfSum ==
  ASSUME NEW u \in Nat \ {0}, NEW x \in Int, NEW y \in Int
  PROVE  /\ ((x % u) + y) % u = (x + y) % u
         /\ (y + (x % u)) % u = (x + y) % u
         /\ ((x % u) - y) % u = (x - y) % u
         /\ (y - (x % u)) % u = (y - x) % u
<1>1. PICK p \in Int, r \in 0 .. u - 1 : x = u * p + r /\ r = x % u
  BY Division
<1>2. r \in Int /\ x = u * p + r
  BY <1>1
<1>3. (x + y) % u = (r + y) % u
  <2>1. PICK a \in Int, b \in Int : a = x + y /\ b = r + y
    BY <1>2
  <2>2. a = b + u * p
    BY <1>2, <2>1
  <2>3. a % u = b % u
    BY <2>2, ShiftByMultiple
  <2>4. QED
    BY <2>1, <2>3
<1>4. (x - y) % u = (r - y) % u
  <2>1. PICK a \in Int, b \in Int : a = x - y /\ b = r - y
    BY <1>2
  <2>2. a = b + u * p
    BY <1>2, <2>1
  <2>3. a % u = b % u
    BY <2>2, ShiftByMultiple
  <2>4. QED
    BY <2>1, <2>3
<1>5. (y - r) % u = (y - x) % u
  <2>1. PICK a \in Int, b \in Int : a = y - r /\ b = y - x
    BY <1>2
  <2>2. a = b + u * p
    BY <1>2, <2>1
  <2>3. a % u = b % u
    BY <2>2, ShiftByMultiple
  <2>4. QED
    BY <2>1, <2>3
<1>6. y + r = r + y
  BY <1>2
<1>7. QED
  BY <1>1, <1>3, <1>4, <1>5, <1>6

(* The same for products.                                                  *)
LEMMA RemainderOfProduct ==
  ASSUME NEW u \in Nat \ {0}, NEW x \in Int, NEW y \in Int
  PROVE  /\ ((x % u) * y) % u = (x * y) % u
         /\ (y * (x % u)) % u = (x * y) % u
<1>1. PICK p \in Int, r \in 0 .. u - 1 : x = u * p + r /\ r = x % u
  BY Division
<1>2. (u * p + r) * y = r * y + u * (p * y)
  OBVIOUS
<1>3. x * y = r * y + u * (p * y)
  BY <1>1, <1>2
<1>4. r * y \in Int /\ p * y \in Int /\ x * y \in Int
  OBVIOUS
<1>5. (x * y) % u = (r * y) % u
  BY <1>3, <1>4, ShiftByMultiple
<1>6. y * r = r * y
  OBVIOUS
<1>7. QED
  BY <1>1, <1>5, <1>6

(* Multiples add up to multiples.                                          *)
LEMMA MultiplesAdd ==
  ASSUME NEW u \in Nat \ {0}, NEW x \in Int, NEW y \in Int, x % u = 0, y % u = 0
  PROVE  (x + y) % u = 0 /\ (x - y) % u = 0
<1>1. ((x % u) + y) % u = (x + y) % u
  BY RemainderOfSum
<1>2. (x + y) % u = 0
  BY <1>1
<1>3. (x - (y % u)) % u = (x - y) % u
  BY RemainderOfSum
<1>4. (x - y) % u = 0
  BY <1>3
<1>5. QED
  BY <1>2, <1>4
=============================================================================
