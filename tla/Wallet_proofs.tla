--------------------------- MODULE Wallet_proofs ---------------------------
(***************************************************************************)
(* The cryptography of the SDK (sdk/src/crypto) for every prime order: its *)
(* cipher decrypts to what was encrypted, its proofs are accepted, and who *)
(* answers two challenges knows the secrets.                               *)
(***************************************************************************)
EXTENDS TwistedElGamal, RangeProof, SigmaProofs, Foundations_proofs, SequenceTheorems
-----------------------------------------------------------------------------
(***************************************************************************)
(* The group.  A point or scalar stands for a number when it is its        *)
(* remainder; an equation of points is shown on numbers they stand for.    *)
(***************************************************************************)
Stands(p, x) == x \in Int /\ p = x % Q

(* The order is a prime, so more than one.                                 *)
LEMMA Order == Q \in Nat \ {0} /\ Q > 1
BY RistrettoAssumption

(* A scalar is its own remainder.                                          *)
LEMMA Itself ==
  ASSUME NEW x \in Scalar
  PROVE  Stands(x, x) /\ x % Q = x
<1>1. x \in Int /\ 0 \in Int /\ x \in 0 .. Q - 1 /\ x = Q * 0 + x
  BY Order DEF Scalar
<1>2. x % Q = x
  BY <1>1, Order, RemainderIsUnique
<1>3. QED
  BY <1>1, <1>2 DEF Stands

(* What stands for a number is a scalar, and a point.                      *)
LEMMA InScalar ==
  ASSUME NEW p, NEW x, Stands(p, x)
  PROVE  p \in Scalar /\ p \in Point
BY Order, QuotientAndRemainder DEF Stands, Scalar, Point

(* Plus and Minus of the group.                                            *)
LEMMA Sums ==
  ASSUME NEW p, NEW x, NEW r, NEW y, Stands(p, x), Stands(r, y)
  PROVE  Stands(Plus(p, r), x + y) /\ Stands(Minus(p, r), x - y)
<1>1. x \in Int /\ y \in Int /\ p = x % Q /\ r = y % Q
  BY DEF Stands
<1>2. r \in Int
  BY <1>1, InScalar, Order DEF Scalar
<1>3. ((x % Q) + r) % Q = (x + r) % Q /\ ((x % Q) - r) % Q = (x - r) % Q
  BY <1>1, <1>2, Order, RemainderOfSum
<1>4. (x + (y % Q)) % Q = (y + x) % Q /\ (x - (y % Q)) % Q = (x - y) % Q
  BY <1>1, Order, RemainderOfSum
<1>5. y + x = x + y
  BY <1>1
<1>6. (p + r) % Q = (x + y) % Q /\ (p - r) % Q = (x - y) % Q
  BY <1>1, <1>3, <1>4, <1>5
<1>7. QED
  BY <1>1, <1>6 DEF Stands, Plus, Minus

(* Times of the group.                                                     *)
LEMMA Multiples ==
  ASSUME NEW p, NEW x, NEW r, NEW y, Stands(p, x), Stands(r, y)
  PROVE  Stands(Times(p, r), x * y)
<1>1. x \in Int /\ y \in Int /\ p = x % Q /\ r = y % Q
  BY DEF Stands
<1>2. r \in Int
  BY <1>1, InScalar, Order DEF Scalar
<1>3. ((x % Q) * r) % Q = (x * r) % Q
  BY <1>1, <1>2, Order, RemainderOfProduct
<1>4. (x * (y % Q)) % Q = (y * x) % Q
  BY <1>1, Order, RemainderOfProduct
<1>5. y * x = x * y
  BY <1>1
<1>6. (p * r) % Q = (x * y) % Q
  BY <1>1, <1>3, <1>4, <1>5
<1>7. QED
  BY <1>1, <1>6 DEF Stands, Times

(* multBaseG.                                                              *)
LEMMA BaseMultiples ==
  ASSUME NEW r, NEW y, Stands(r, y)
  PROVE  Stands(multBaseG(r), y)
<1>1. baseG \in Scalar
  BY Order DEF Scalar, baseG
<1>2. Stands(Times(baseG, r), baseG * y)
  BY <1>1, Itself, Multiples
<1>3. baseG * y = y
  BY DEF Stands, baseG
<1>4. QED
  BY <1>2, <1>3 DEF multBaseG

(* Equal numbers, equal points.                                            *)
LEMMA SamePoint ==
  ASSUME NEW p, NEW x, NEW r, NEW y, Stands(p, x), Stands(r, y), x = y
  PROVE  p = r
BY DEF Stands

(* Numbers that differ by a multiple of the order stand for the same.      *)
LEMMA ShiftedBy ==
  ASSUME NEW p, NEW x, Stands(p, x), NEW y \in Int, NEW k \in Int, y = x + Q * k
  PROVE  Stands(p, y)
<1>1. y % Q = x % Q
  BY Order, ShiftByMultiple DEF Stands
<1>2. QED
  BY <1>1 DEF Stands

(* Two numbers for one point.                                              *)
LEMMA TwoNumbers ==
  ASSUME NEW p, NEW x, NEW y, Stands(p, x), Stands(p, y)
  PROVE  \E k \in Int : x = y + Q * k
<1>1. x \in Int /\ y \in Int /\ x % Q = y % Q
  BY DEF Stands
<1>2. QED
  BY <1>1, Order, SameRemainder

-----------------------------------------------------------------------------
(***************************************************************************)
(* invMod.  The algorithm ends because the second of its numbers falls;    *)
(* each of the first two is, up to the order, a times its coefficient, and *)
(* what divides both does not change.                                      *)
(***************************************************************************)
Divides(d, x) == \E k \in Int : x = d * k

Coprime(x, y) == \A d \in Nat : Divides(d, x) /\ Divides(d, y) => d = 1

EuclidStates == Nat \X Nat \X Int \X Int

EuclidStep(t) == <<t[2], t[1] - (t[1] \div t[2]) * t[2], t[4], t[3] - (t[1] \div t[2]) * t[4]>>

EuclidBody ==
  [g \in [EuclidStates -> Int] |->
    [t \in EuclidStates |-> IF t[2] = 0 THEN t[3] ELSE g[EuclidStep(t)]]]

(* The second number of a state falls, and stays a number.                 *)
LEMMA EuclidStepFalls ==
  ASSUME NEW t \in EuclidStates, t[2] # 0
  PROVE  /\ EuclidStep(t) \in EuclidStates
         /\ EuclidStep(t)[2] < t[2]
<1>1. PICK x \in Nat, y \in Nat : x = t[1] /\ y = t[2]
  BY DEF EuclidStates
<1>2. PICK u \in Int, v \in Int : u = t[3] /\ v = t[4]
  BY DEF EuclidStates
<1>3. PICK q \in Int : q = x \div y
  BY <1>1
<1>0. y \in Nat \ {0}
  BY <1>1
<1>4. x % y \in 0 .. y - 1 /\ x = (y * q) + (x % y)
  BY <1>0, <1>3, QuotientAndRemainder
<1>5. PICK z \in Int : z = x - q * y
  OBVIOUS
<1>6. z \in 0 .. y - 1
  BY <1>4, <1>5
<1>7. PICK w \in Int : w = u - q * v
  OBVIOUS
<1>8. EuclidStep(t) = <<y, z, v, w>>
  BY <1>1, <1>2, <1>3, <1>5, <1>7 DEF EuclidStep
<1>9. QED
  BY <1>1, <1>6, <1>8 DEF EuclidStates

(* The loop of invMod, as the recursive function says it.                  *)
LEMMA EuclidEquation ==
  ASSUME NEW t \in EuclidStates
  PROVE  /\ Euclid[t] \in Int
         /\ Euclid[t] = IF t[2] = 0 THEN t[3] ELSE Euclid[EuclidStep(t)]
<1> DEFINE S == EuclidStates
           measure == [s \in S |-> s[2]]
           B == EuclidBody
           F == Euclid
<1>1. measure \in [S -> Nat]
  BY DEF EuclidStates
<1>2. ASSUME NEW g \in [S -> Int]
      PROVE  B[g] = [s \in S |-> IF s[2] = 0 THEN s[3] ELSE g[EuclidStep(s)]]
  BY DEF EuclidBody
<1>3. ASSUME NEW g \in [S -> Int]
      PROVE  B[g] \in [S -> Int]
  <2>1. ASSUME NEW s \in S
        PROVE  (IF s[2] = 0 THEN s[3] ELSE g[EuclidStep(s)]) \in Int
    <3>1. CASE s[2] = 0
      BY <3>1 DEF EuclidStates
    <3>2. CASE s[2] # 0
      <4>1. EuclidStep(s) \in S
        BY <3>2, EuclidStepFalls
      <4>2. QED
        BY <3>2, <4>1
    <3>3. QED
      BY <3>1, <3>2
  <2>2. [s \in S |-> IF s[2] = 0 THEN s[3] ELSE g[EuclidStep(s)]] \in [S -> Int]
    BY <2>1
  <2>3. QED
    BY <1>2, <2>2, Zenon
<1>4. B \in [[S -> Int] -> [S -> Int]]
  BY <1>3 DEF EuclidBody
<1>0. \A s \in S : s[2] # 0 => EuclidStep(s) \in S /\ measure[EuclidStep(s)] < measure[s]
  BY EuclidStepFalls
<1> HIDE DEF S, measure, B
<1>5. ASSUME NEW g \in [S -> Int], NEW h \in [S -> Int], NEW s \in S,
             \A r \in S : measure[r] < measure[s] => g[r] = h[r]
      PROVE  B[g][s] = B[h][s]
  <2>0. /\ B[g][s] = IF s[2] = 0 THEN s[3] ELSE g[EuclidStep(s)]
        /\ B[h][s] = IF s[2] = 0 THEN s[3] ELSE h[EuclidStep(s)]
    <3>1. B[g] = [r \in S |-> IF r[2] = 0 THEN r[3] ELSE g[EuclidStep(r)]]
      BY <1>2, Zenon
    <3>2. B[h] = [r \in S |-> IF r[2] = 0 THEN r[3] ELSE h[EuclidStep(r)]]
      BY <1>2, Zenon
    <3>3. QED
      BY <3>1, <3>2
  <2>1. CASE s[2] = 0
    BY <2>0, <2>1
  <2>2. CASE s[2] # 0
    <3>1. g[EuclidStep(s)] = h[EuclidStep(s)]
      BY <1>0, <1>5, <2>2
    <3>2. QED
      BY <2>0, <2>2, <3>1
  <2>3. QED
    BY <2>1, <2>2
<1>6. RecursiveByMeasure(S, measure, Int, B)
  <2>1. Int # {}
    OBVIOUS
  <2>2. QED
    BY <1>1, <1>4, <1>5, <2>1, Zenon DEF RecursiveByMeasure
<1>7. \E g \in [S -> Int] : \A s \in S : g[s] = B[g][s]
  BY <1>6, RecursionByMeasure
<1>8. PICK g \in [S -> Int] : \A s \in S : g[s] = B[g][s]
  BY <1>7
<1>9. g = [s \in S |-> IF s[2] = 0 THEN s[3] ELSE g[EuclidStep(s)]]
  BY <1>2, <1>8
<1>10. F = CHOOSE f : f = [s \in S |-> IF s[2] = 0 THEN s[3] ELSE f[EuclidStep(s)]]
  BY Zenon DEF Euclid, EuclidStep, EuclidStates, S
<1> HIDE DEF F
<1>11. F = [s \in S |-> IF s[2] = 0 THEN s[3] ELSE F[EuclidStep(s)]]
  BY <1>9, <1>10, Zenon
<1>12. \A s \in S : F[s] = IF s[2] = 0 THEN s[3] ELSE F[EuclidStep(s)]
  BY <1>11
<1> DEFINE P == {s \in S : F[s] \in Int}
<1>13. ASSUME NEW s \in S, \A r \in S : measure[r] < measure[s] => r \in P
       PROVE  s \in P
  <2>1. CASE s[2] = 0
    BY <1>12, <2>1 DEF S, EuclidStates
  <2>2. CASE s[2] # 0
    BY <1>0, <1>12, <1>13, <2>2
  <2>3. QED
    BY <2>1, <2>2
<1> HIDE DEF P
<1>14. S \subseteq P
  BY <1>1, <1>13, MeasureInduction
<1>15. t \in S
  BY DEF S
<1>16. QED
  BY <1>12, <1>14, <1>15 DEF F, P

-----------------------------------------------------------------------------
(* The two equations that the algorithm keeps.                             *)
Follows(t, a) ==
  /\ \E k \in Int : t[1] = t[3] * a + Q * k
  /\ \E k \in Int : t[2] = t[4] * a + Q * k

(* What divides y and x - q * y divides x.                                 *)
LEMMA CoprimeStep ==
  ASSUME NEW x \in Nat, NEW y \in Nat, NEW q \in Int, NEW z \in Nat, z = x - q * y,
         Coprime(x, y)
  PROVE  Coprime(y, z)
<1>1. SUFFICES ASSUME NEW d \in Nat, Divides(d, y), Divides(d, z) PROVE d = 1
  BY DEF Coprime
<1>2. PICK i \in Int : y = d * i
  BY <1>1 DEF Divides
<1>3. PICK j \in Int : z = d * j
  BY <1>1 DEF Divides
<1>4. x = z + q * y
  OBVIOUS
<1>5. q * (d * i) = d * (q * i)
  OBVIOUS
<1>6. d * (j + q * i) = d * j + d * (q * i)
  OBVIOUS
<1>7. x = d * (j + q * i)
  BY <1>2, <1>3, <1>4, <1>5, <1>6
<1>8. Divides(d, x)
  BY <1>7 DEF Divides
<1>9. QED
  BY <1>1, <1>8 DEF Coprime

(* A round of the loop keeps both equations.                               *)
LEMMA FollowsStep ==
  ASSUME NEW a \in Int, NEW t \in EuclidStates, t[2] # 0, Follows(t, a), Coprime(t[1], t[2])
  PROVE  Follows(EuclidStep(t), a) /\ Coprime(EuclidStep(t)[1], EuclidStep(t)[2])
<1>1. PICK x \in Nat, y \in Nat : x = t[1] /\ y = t[2]
  BY DEF EuclidStates
<1>2. PICK u \in Int, v \in Int : u = t[3] /\ v = t[4]
  BY DEF EuclidStates
<1>3. PICK q \in Int : q = x \div y
  BY <1>1
<1>4. PICK z, w : z = x - q * y /\ w = u - q * v
  OBVIOUS
<1>5. EuclidStep(t) = <<y, z, v, w>>
  BY <1>1, <1>2, <1>3, <1>4 DEF EuclidStep
<1>6. z \in Nat /\ w \in Int
  BY <1>5, EuclidStepFalls DEF EuclidStates
<1>7. Coprime(y, z)
  <2>1. Coprime(x, y)
    BY <1>1
  <2>2. QED
    BY <1>4, <1>6, <2>1, CoprimeStep
<1>8. PICK i \in Int : x = u * a + Q * i
  BY <1>1, <1>2 DEF Follows
<1>9. PICK j \in Int : y = v * a + Q * j
  BY <1>1, <1>2 DEF Follows
<1>10. Q \in Int
  BY Order
<1>11. q * (v * a + Q * j) = (q * v) * a + Q * (q * j)
  BY <1>10
<1>12. z = u * a + Q * i - ((q * v) * a + Q * (q * j))
  <2>1. z = x - q * y
    BY <1>4
  <2>2. q * y = (q * v) * a + Q * (q * j)
    BY <1>9, <1>11
  <2>3. QED
    BY <1>8, <1>10, <2>1, <2>2
<1>13. (u - q * v) * a = u * a - (q * v) * a
  OBVIOUS
<1>14. Q * (i - q * j) = Q * i - Q * (q * j)
  BY <1>10
<1>15. z = w * a + Q * (i - q * j)
  BY <1>4, <1>6, <1>10, <1>12, <1>13, <1>14
<1>16. \E k \in Int : z = w * a + Q * k
  <2>1. i - q * j \in Int
    OBVIOUS
  <2>2. QED
    BY <1>15, <2>1
<1>17. QED
  BY <1>5, <1>7, <1>9, <1>16 DEF Follows

(* What the algorithm ends with is the inverse of a.                       *)
LEMMA EuclidResult ==
  ASSUME NEW a \in Int, NEW t \in EuclidStates, Follows(t, a), Coprime(t[1], t[2])
  PROVE  Euclid[t] \in Int /\ \E k \in Int : 1 = Euclid[t] * a + Q * k
<1> DEFINE S == EuclidStates
           measure == [s \in S |-> s[2]]
           Good(s) == Follows(s, a) /\ Coprime(s[1], s[2])
           Solves(e) == \E k \in Int : 1 = e * a + Q * k
           P == {s \in S : Good(s) => Solves(Euclid[s])}
<1>1. measure \in [S -> Nat]
  BY DEF EuclidStates
<1>2. ASSUME NEW s \in S, \A r \in S : measure[r] < measure[s] => r \in P, Good(s)
      PROVE  Solves(Euclid[s])
  <2>1. CASE s[2] = 0
    <3>1. s[1] \in Nat
      BY DEF EuclidStates
    <3>2. s[1] = s[1] * 1 /\ 0 = s[1] * 0
      BY <3>1
    <3>3. Divides(s[1], s[1]) /\ Divides(s[1], 0)
      BY <3>2 DEF Divides
    <3>4. s[1] = 1
      BY <1>2, <2>1, <3>1, <3>3 DEF Coprime
    <3>5. Euclid[s] = s[3]
      BY <2>1, EuclidEquation
    <3>6. QED
      BY <1>2, <3>4, <3>5 DEF Follows
  <2>2. CASE s[2] # 0
    <3>1. EuclidStep(s) \in S /\ measure[EuclidStep(s)] < measure[s]
      BY <2>2, EuclidStepFalls
    <3>2. Good(EuclidStep(s))
      BY <1>2, <2>2, FollowsStep
    <3>3. Euclid[s] = Euclid[EuclidStep(s)]
      BY <2>2, EuclidEquation
    <3>4. QED
      BY <1>2, <3>1, <3>2, <3>3
  <2>3. QED
    BY <2>1, <2>2
<1>3. \A s \in S : (\A r \in S : measure[r] < measure[s] => r \in P) => s \in P
  BY <1>2
<1> HIDE DEF P, measure, S
<1>4. S \subseteq P
  BY <1>1, <1>3, MeasureInduction
<1>5. QED
  BY <1>4, EuclidEquation DEF P, S

(* The order is a prime.                                                   *)
LEMMA CoprimeToTheOrder ==
  ASSUME NEW a \in Scalar, a # 0
  PROVE  Coprime(a, Q)
<1>1. SUFFICES ASSUME NEW d \in Nat, Divides(d, a), Divides(d, Q) PROVE d = 1
  BY DEF Coprime
<1>2. PICK i \in Int : a = d * i
  BY <1>1 DEF Divides
<1>3. PICK j \in Int : Q = d * j
  BY <1>1 DEF Divides
<1>4. a \in 1 .. Q - 1
  BY Order DEF Scalar
<1>5. d # 0
  BY <1>2, <1>4
<1>6. d < Q
  <2>1. SUFFICES ASSUME d >= Q PROVE FALSE
    BY Order
  <2>2. d * i < d /\ d * i > -d
    BY <1>2, <1>4, <2>1, Order
  <2>3. i = 0
    BY <1>5, <2>2, NoSmallMultiple
  <2>4. QED
    BY <1>2, <1>4, <2>3
<1>7. CASE d \in 2 .. Q - 1
  <2>1. 0 \in 0 .. d - 1 /\ Q = d * j + 0 /\ Q \in Int
    BY <1>3, <1>5, Order
  <2>2. Q % d = 0
    BY <1>5, <2>1, RemainderIsUnique
  <2>3. QED
    BY <1>7, <2>2, RistrettoAssumption
<1>8. QED
  BY <1>5, <1>6, <1>7, Order

(* invMod: an element times its inverse is one.                            *)
THEOREM InverseOf ==
  ASSUME NEW a \in Scalar, a # 0
  PROVE  \E i \in Int : Stands(invMod(a), i) /\ Stands(1, a * i)
<1> DEFINE t == <<a, Q, 1, 0>>
<1>1. a \in Int /\ a \in Nat /\ Q \in Nat /\ Q \in Int
  BY Order DEF Scalar
<1>2. t \in EuclidStates
  BY <1>1 DEF EuclidStates
<1>3. a = 1 * a + Q * 0 /\ Q = 0 * a + Q * 1
  BY <1>1
<1>4. Follows(t, a)
  <2>1. t[1] = a /\ t[2] = Q /\ t[3] = 1 /\ t[4] = 0
    OBVIOUS
  <2>2. QED
    BY <1>3, <2>1, 0 \in Int, 1 \in Int DEF Follows
<1>5. Coprime(t[1], t[2])
  BY CoprimeToTheOrder
<1> HIDE DEF t
<1>6. PICK e \in Int : e = Euclid[t]
  BY <1>1, <1>2, <1>4, <1>5, EuclidResult
<1>7. PICK k \in Int : 1 = e * a + Q * k
  BY <1>1, <1>2, <1>4, <1>5, <1>6, EuclidResult
<1>8. invMod(a) = e % Q
  BY <1>6, Itself DEF invMod, t
<1>9. Stands(invMod(a), e)
  BY <1>8 DEF Stands
<1>10. PICK p \in Int : p = a * e
  BY <1>1
<1>11. p = 1 + Q * (-k)
  BY <1>1, <1>7, <1>10
<1>12. Stands(1, 1)
  <2>1. 1 \in Scalar
    BY Order DEF Scalar
  <2>2. QED
    BY <2>1, Itself
<1>13. Stands(1, p)
  BY <1>11, <1>12, ShiftedBy
<1>14. QED
  BY <1>9, <1>10, <1>13

-----------------------------------------------------------------------------
(***************************************************************************)
(* Keys.  What keyPairFromSeed reduces is a multiple of eight, below eight *)
(* times the order: a multiple of the order among those would be eight     *)
(* times it.                                                               *)
(***************************************************************************)
LEMMA OddOrder == \E p \in Int : Q = 2 * p + 1
<1>1. Sixteenth \in Nat /\ Sixteenth % 2 = 0 /\ Sixteenth < Q /\ Q < 2 * Sixteenth
  BY TwistedElGamalAssumption
<1>2. Q > 2
  BY <1>1, Order
<1>3. Q % 2 # 0
  BY <1>2, Order, RistrettoAssumption
<1>4. \E q \in Int : \E r \in 0 .. 2 - 1 : Q = 2 * q + r /\ r = Q % 2
  <2>1. 2 \in Nat \ {0} /\ Q \in Int
    BY Order
  <2>2. QED
    BY <2>1, Division
<1>5. PICK q \in Int, r \in Int : r \in 0 .. 2 - 1 /\ Q = 2 * q + r /\ r = Q % 2
  BY <1>4
<1>6. r = 1
  BY <1>3, <1>5
<1>7. QED
  BY <1>5, <1>6

(* An odd order times less than eight is no multiple of eight.             *)
LEMMA ClampedIsNotZero ==
  ASSUME NEW u \in Int, NEW k \in Int, 8 * u = Q * k, 0 < Q * k, Q * k < 8 * Q
  PROVE  FALSE
<1>1. PICK p \in Int : Q = 2 * p + 1
  BY OddOrder
<1>2. k > 0
  <2>1. SUFFICES ASSUME k <= 0 PROVE FALSE
    OBVIOUS
  <2>2. Q * k <= 0
    BY <2>1, Order
  <2>3. QED
    BY <2>2
<1>3. k < 8
  <2>1. SUFFICES ASSUME k >= 8 PROVE FALSE
    OBVIOUS
  <2>2. Q * k >= 8 * Q
    BY <2>1, Order
  <2>3. QED
    BY <2>2, Order
<1>4. k \in 1 .. 7
  BY <1>2, <1>3
<1>5. CASE k = 1
  BY <1>1, <1>5
<1>6. CASE k = 2
  BY <1>1, <1>6
<1>7. CASE k = 3
  BY <1>1, <1>7
<1>8. CASE k = 4
  BY <1>1, <1>8
<1>9. CASE k = 5
  BY <1>1, <1>9
<1>10. CASE k = 6
  BY <1>1, <1>10
<1>11. CASE k = 7
  BY <1>1, <1>11
<1>12. QED
  BY <1>4, <1>5, <1>6, <1>7, <1>8, <1>9, <1>10, <1>11

(* keyPairFromSeed: a key always has an inverse, whatever the hash.        *)
LEMMA KeysAreNotZero ==
  ASSUME NEW hash \in Nat
  PROVE  keyPairFromSeed(hash) \in Scalar \ {0}
<1>1. PICK b \in Int : Sixteenth = 2 * b
  <2>1. Sixteenth \in Int /\ Sixteenth % 2 = 0
    BY TwistedElGamalAssumption
  <2>2. QED
    BY <2>1
<1>2. b > 0 /\ Sixteenth < Q /\ 4 * Sixteenth = 8 * b
  BY <1>1, Order, TwistedElGamalAssumption
<1>3. PICK p \in Int, s \in Int : s \in 0 .. 8 * b - 1 /\ hash = (8 * b) * p + s /\ s = hash % (8 * b)
  <2>1. 8 * b \in Nat \ {0}
    BY <1>2
  <2>2. QED
    BY <2>1, Division
<1>4. PICK w \in Int, e \in Int : e \in 0 .. 7 /\ hash = 8 * w + e /\ e = hash % 8
  OBVIOUS
<1>31. s \in 0 .. 8 * b - 1 /\ hash = (8 * b) * p + s /\ e \in 0 .. 7 /\ hash = 8 * w + e
  BY <1>3, <1>4, Zenon
<1>5. PICK d \in Int : d = w - b * p
  OBVIOUS
<1>6. (8 * b) * p = 8 * (b * p)
  OBVIOUS
<1>7. s - e = 8 * d
  <2>1. PICK v \in Int : v = b * p
    OBVIOUS
  <2>2. PICK y \in Int : y = (8 * b) * p
    OBVIOUS
  <2>3. y = 8 * v /\ hash = y + s /\ hash = 8 * w + e /\ d = w - v
    BY <1>31, <1>5, <1>6, <2>1, <2>2
  <2>4. QED
    BY <2>3
<1>8. PICK x \in Int : x = 8 * b + s - e
  OBVIOUS
<1>9. x = 8 * (b + d)
  BY <1>7, <1>8
<1>10. x >= 8 * b /\ x < 16 * b
  <2>1. s >= 0 /\ s <= 8 * b - 1 /\ e >= 0 /\ e <= 7
    BY <1>31
  <2>2. d >= 0
    BY <1>7, <2>1
  <2>3. QED
    BY <1>7, <1>8, <2>1, <2>2
<1>11. keyPairFromSeed(hash) = x % Q
  <2>1. keyPairFromSeed(hash) = (8 * b + (hash % (8 * b)) - (hash % 8)) % Q
    BY <1>2 DEF keyPairFromSeed
  <2>2. QED
    BY <1>3, <1>4, <1>8, <2>1
<1>12. Stands(keyPairFromSeed(hash), x)
  BY <1>11 DEF Stands
<1>13. keyPairFromSeed(hash) # 0
  <2>1. SUFFICES ASSUME keyPairFromSeed(hash) = 0 PROVE FALSE
    OBVIOUS
  <2>2. 0 \in Scalar
    BY Order DEF Scalar
  <2>3. Stands(keyPairFromSeed(hash), 0)
    BY <2>1, <2>2, Itself
  <2>4. PICK k \in Int : x = 0 + Q * k
    BY <1>12, <2>3, TwoNumbers
  <2>5. PICK u \in Int : u = b + d
    OBVIOUS
  <2>6. 8 * u = Q * k /\ 0 < Q * k /\ Q * k < 8 * Q
    <3>1. Q * k = x
      BY <2>4, Order
    <3>2. 16 * b < 8 * Q
      BY <1>1, <1>2, Order
    <3>3. QED
      BY <1>2, <1>9, <1>10, <2>5, <3>1, <3>2, Order
  <2>7. QED
    BY <2>6, ClampedIsNotZero
<1>14. QED
  BY <1>12, <1>13, InScalar

-----------------------------------------------------------------------------
(* Min of a set of numbers is one of them, and the least.                  *)
LEMMA LeastOf ==
  ASSUME NEW S, S \subseteq Nat, S # {}
  PROVE  Min(S) \in S /\ \A y \in S : Min(S) <= y
<1> DEFINE R == OpToRel(<, Nat)
<1>1. \A m, n \in Nat : m < n => <<m, n>> \in R
  <2>1. R = {ss \in Nat \X Nat : ss[1] < ss[2]}
    BY DEF OpToRel
  <2> HIDE DEF R
  <2>2. QED
    BY <2>1
<1>2. IsWellFoundedOn(R, Nat)
  BY NatLessThanWellFounded
<1> HIDE DEF R
<1>3. PICK x \in S : \A y \in S : ~(<<y, x>> \in R)
  BY <1>2, WFMin
<1>4. \A y \in S : x <= y
  <2>1. SUFFICES ASSUME NEW y \in S PROVE x <= y
    OBVIOUS
  <2>2. x \in Nat /\ y \in Nat /\ ~(y < x)
    BY <1>1, <1>3
  <2>3. QED
    BY <2>2
<1>5. QED
  BY <1>4 DEF Min

(***************************************************************************)
(* Two multiples of a point other than zero are the same when the factors  *)
(* differ by a multiple of the order.                                      *)
(***************************************************************************)
LEMMA Cancel ==
  ASSUME NEW h \in Scalar, h # 0, NEW p, NEW x \in Int, NEW y \in Int,
         Stands(p, h * x), Stands(p, h * y)
  PROVE  \E k \in Int : x = y + Q * k
<1>1. PICK i \in Int : Stands(1, h * i)
  BY InverseOf
<1>2. h \in Int /\ Q \in Int
  BY Order DEF Scalar
<1>3. PICK k \in Int : h * x = h * y + Q * k
  <2>1. PICK u \in Int, v \in Int : u = h * x /\ v = h * y
    BY <1>2
  <2>2. \E k \in Int : u = v + Q * k
    BY <2>1, TwoNumbers
  <2>3. QED
    BY <2>1, <2>2
<1>4. Stands(1, 1)
  <2>1. 1 \in Scalar
    BY Order DEF Scalar
  <2>2. QED
    BY <2>1, Itself
<1>5. PICK n \in Int : h * i = 1 + Q * n
  BY <1>1, <1>4, TwoNumbers
<1>6. PICK d \in Int : d = x - y
  OBVIOUS
<1>7. h * d = Q * k
  BY <1>2, <1>3, <1>6
<1>8. (h * i) * d = (h * d) * i
  BY <1>2
<1>9. (1 + Q * n) * d = d + Q * (n * d)
  BY <1>2
<1>10. (Q * k) * i = Q * (k * i)
  BY <1>2
<1>11. d + Q * (n * d) = Q * (k * i)
  BY <1>5, <1>7, <1>8, <1>9, <1>10
<1>12. Q * (k * i - n * d) = Q * (k * i) - Q * (n * d)
  BY <1>2
<1>13. x = y + Q * (k * i - n * d)
  BY <1>2, <1>6, <1>11, <1>12
<1>14. k * i - n * d \in Int
  OBVIOUS
<1>15. QED
  BY <1>13, <1>14

-----------------------------------------------------------------------------
(* The two steps of the search, as discreteLogOnH defines them.            *)
Baby(h, p, step) == {i \in 0 .. step : Times(h, i) = p}
Current(h, target, j, step) == Minus(target, Times(h, j * step))

(* A baby step meets a giant step where they add up to the number.         *)
LEMMA StepsMeet ==
  ASSUME NEW h \in Scalar, h # 0, NEW m \in Int, NEW target, Stands(target, h * m),
         NEW step \in Nat, NEW j \in Nat, NEW i \in 0 .. step
  PROVE  /\ i \in Baby(h, Current(h, target, j, step), step) =>
              \E k \in Int : m = (i + j * step) + Q * k
         /\ m = i + j * step => i \in Baby(h, Current(h, target, j, step), step)
<1>1. PICK s \in Nat : s = j * step
  OBVIOUS
<1>2. h \in Int /\ i \in Int
  BY DEF Scalar
<1>3. Stands(h, h)
  BY Itself
<1>4. Stands(Times(h, i), h * i) /\ Stands(Times(h, s), h * s)
  <2>1. h * i \in Int /\ h * s \in Int
    BY <1>2
  <2>2. QED
    BY <2>1 DEF Stands, Times
<1>5. Stands(Minus(target, Times(h, s)), h * m - h * s)
  BY <1>4, Sums
<1>6. h * m - h * s = h * (m - s)
  BY <1>2
<1>7. Current(h, target, j, step) = Minus(target, Times(h, s))
  BY <1>1 DEF Current
<1>8. i \in Baby(h, Current(h, target, j, step), step)
        <=> Times(h, i) = Minus(target, Times(h, s))
  BY <1>7 DEF Baby
<1>9. ASSUME Times(h, i) = Minus(target, Times(h, s))
      PROVE  \E k \in Int : m = (i + s) + Q * k
  <2>1. PICK d \in Int : d = m - s
    OBVIOUS
  <2>2. Stands(Times(h, i), h * d)
    BY <1>5, <1>6, <1>9, <2>1
  <2>3. PICK k \in Int : d = i + Q * k
    BY <1>2, <1>4, <2>2, Cancel
  <2>4. m = (i + s) + Q * k
    BY <1>2, <2>1, <2>3, Order
  <2>5. QED
    BY <2>4
<1>10. ASSUME m = i + s
       PROVE  Times(h, i) = Minus(target, Times(h, s))
  <2>1. m - s = i
    BY <1>2, <1>10
  <2>2. Stands(Minus(target, Times(h, s)), h * i)
    BY <1>5, <1>6, <2>1
  <2>3. QED
    BY <1>4, <2>2, SamePoint
<1>11. QED
  BY <1>1, <1>8, <1>9, <1>10

(***************************************************************************)
(* The search finds the number when it is within the bound, and no other   *)
(* number ever: for every bound and step below the order.                  *)
(***************************************************************************)
LEMMA SearchFinds ==
  ASSUME NEW m \in Scalar, NEW target, Stands(target, twistedH * m),
         twistedH \in Scalar, twistedH # 0,
         NEW maxBalance \in Scalar, NEW step \in Scalar \ {0}
  PROVE  discreteLogOnH(target, maxBalance, step) = IF m <= maxBalance THEN m ELSE NoPlaintext
<1> DEFINE baby(j) == Baby(twistedH, Current(twistedH, target, j, step), step)
           candidate(j) == j * step + Min(baby(j))
           rounds == 0 .. giantRounds(maxBalance, step)
           hits == {j \in rounds : baby(j) # {} /\ candidate(j) <= maxBalance}
<1>1. m \in Int /\ maxBalance \in Int /\ step \in Nat \ {0} /\ m < Q /\ maxBalance < Q /\ m \in Nat
      /\ maxBalance \in Nat
  BY Order DEF Scalar
<1>2. discreteLogOnH(target, maxBalance, step) =
        IF hits = {} THEN NoPlaintext ELSE candidate(Min(hits))
  BY DEF discreteLogOnH, Baby, Current
<1>3. rounds \subseteq Nat
  OBVIOUS
<1>4. ASSUME NEW j \in rounds, baby(j) # {}
      PROVE  Min(baby(j)) \in baby(j) /\ (\A i \in baby(j) : Min(baby(j)) <= i)
  <2>1. baby(j) \subseteq Nat
    BY DEF Baby
  <2>2. QED
    BY <1>4, <2>1, LeastOf
<1>5. ASSUME NEW j \in hits
      PROVE  candidate(j) = m /\ m <= maxBalance
  <2>1. j \in Nat /\ baby(j) # {} /\ candidate(j) <= maxBalance /\ j \in rounds
    BY <1>3
  <2>2. PICK i : i = Min(baby(j)) /\ i \in baby(j)
    BY <1>4, <2>1
  <2>3. i \in 0 .. step
    BY <2>2 DEF Baby
  <2>4. PICK k \in Int : m = (i + j * step) + Q * k
    BY <1>1, <2>1, <2>2, <2>3, StepsMeet
  <2>5. PICK c \in Nat : c = j * step + i
    BY <1>1, <2>1, <2>3
  <2>6. c = candidate(j)
    BY <2>2, <2>5
  <2>7. m = c + Q * k
    BY <1>1, <2>1, <2>3, <2>4, <2>5
  <2>8. c <= maxBalance
    BY <2>1, <2>6
  <2>9. Q * k < Q /\ Q * k > -Q
    BY <1>1, <2>7, <2>8, Order
  <2>10. k = 0
    BY <2>9, Order, NoSmallMultiple
  <2>11. m = c
    BY <1>1, <2>7, <2>10, Order
  <2>12. QED
    BY <2>6, <2>8, <2>11
<1>6. ASSUME m <= maxBalance
      PROVE  hits # {}
  <2>1. PICK j \in Int, i \in Int : i \in 0 .. step - 1 /\ m = step * j + i /\ j = m \div step
    <3>1. m \div step \in Int /\ m % step \in 0 .. step - 1 /\ m = (step * (m \div step)) + (m % step)
      BY <1>1, QuotientAndRemainder
    <3>2. QED
      BY <3>1
  <2>2. PICK q \in Int, r \in Int : r \in 0 .. step - 1 /\ maxBalance = step * q + r /\ q = maxBalance \div step
    <3>1. /\ maxBalance \div step \in Int /\ maxBalance % step \in 0 .. step - 1
          /\ maxBalance = (step * (maxBalance \div step)) + (maxBalance % step)
      BY <1>1, QuotientAndRemainder
    <3>2. QED
      BY <3>1
  <2>3. j >= 0
    <3>1. SUFFICES ASSUME j <= -1 PROVE FALSE
      OBVIOUS
    <3>2. step * j <= -step
      BY <1>1, <3>1
    <3>3. QED
      BY <1>1, <2>1, <3>2
  <2>4. j <= q
    <3>1. SUFFICES ASSUME j >= q + 1 PROVE FALSE
      OBVIOUS
    <3>2. step * j >= step * q + step
      BY <1>1, <3>1
    <3>3. QED
      BY <1>1, <1>6, <2>1, <2>2, <3>2
  <2>5. j \in rounds
    <3>1. \E x \in {0, 1} : giantRounds(maxBalance, step) = q + x
      BY <2>2 DEF giantRounds
    <3>2. QED
      BY <2>3, <2>4, <3>1
  <2>6. j \in Nat /\ i \in 0 .. step /\ m = i + j * step /\ step \in Nat
    BY <1>1, <2>1, <2>3
  <2>7. i \in baby(j)
    BY <1>1, <2>6, StepsMeet
  <2>8. Min(baby(j)) \in baby(j) /\ Min(baby(j)) <= i
    BY <1>4, <2>5, <2>7
  <2>9. PICK n \in 0 .. step : n = Min(baby(j))
    BY <2>8 DEF Baby
  <2>10. j * step + n <= maxBalance
    BY <1>1, <1>6, <2>6, <2>8, <2>9
  <2>11. QED
    BY <2>5, <2>7, <2>9, <2>10
<1>7. ASSUME hits # {}
      PROVE  Min(hits) \in hits
  <2>1. hits \subseteq Nat
    BY <1>3
  <2>2. QED
    BY <1>7, <2>1, LeastOf
<1> HIDE DEF hits, candidate
<1>8. CASE m <= maxBalance
  BY <1>2, <1>5, <1>6, <1>7, <1>8
<1>9. CASE ~(m <= maxBalance)
  BY <1>2, <1>5, <1>9
<1>10. QED
  BY <1>8, <1>9

-----------------------------------------------------------------------------
(***************************************************************************)
(* What a ciphertext is, whatever was done to it: n times the generator    *)
(* and r times the base, and r times the key.                              *)
(***************************************************************************)
Holds(h, sk, ct, m) ==
  \E n, r \in Int : Stands(m, n) /\ Stands(ct.c1, h * n + r) /\ Stands(ct.c2, sk * r)

CipherInv ==
  /\ CACHED_H \in Scalar /\ secretKey \in Scalar
  /\ encryptedUnder # {} => secretKey # 0
  /\ encryptedUnder \subseteq Scalar
  /\ \A h : encryptedUnder = {h} => Holds(h, secretKey, ciphertext, plaintext)

(* H is never the zero point.                                              *)
LEMMA Generators ==
  ASSUME CACHED_H \in Scalar
  PROVE  twistedH \in Scalar /\ twistedH # 0
BY TwistedElGamalAssumption DEF twistedH, Scalar, Point, ZERO

(* encryptWithRandomness, under the generator of the moment.               *)
LEMMA EncryptionHolds ==
  ASSUME NEW sk \in Scalar, twistedH \in Scalar, NEW m \in Int, NEW r \in Int
  PROVE  LET ct == encryptWithRandomness(multBaseG(sk), m, r)
         IN  Stands(ct.c1, twistedH * m + r) /\ Stands(ct.c2, sk * r)
<1>1. PICK h \in Scalar : h = twistedH
  OBVIOUS
<1>2. h \in Int /\ sk \in Int /\ 1 \in Int
  BY DEF Scalar
<1>3. Stands(Times(h, m), h * m)
  BY <1>2 DEF Stands, Times
<1>4. Stands(multBaseG(r), r)
  <2>1. 1 * r = r
    OBVIOUS
  <2>2. QED
    BY <2>1 DEF Stands, Times, multBaseG, baseG
<1>5. Stands(pedersenCommit(m, r), h * m + r)
  BY <1>1, <1>3, <1>4, Sums DEF pedersenCommit
<1>6. multBaseG(sk) = sk
  BY Itself, BaseMultiples, SamePoint
<1>7. Stands(Times(sk, r), sk * r)
  BY <1>2 DEF Stands, Times
<1>8. QED
  BY <1>1, <1>5, <1>6, <1>7 DEF encryptWithRandomness

(* decrypt takes the blinding off and searches for the rest.               *)
LEMMA DecryptionFinds ==
  ASSUME NEW sk \in Scalar, sk # 0, NEW m, NEW ct, Holds(twistedH, sk, ct, m),
         twistedH \in Scalar, twistedH # 0, NEW opts \in Windows
  PROVE  decrypt(sk, ct, opts) = IF m <= opts.maxBalance THEN m ELSE NoPlaintext
<1>1. PICK h \in Scalar : h = twistedH
  OBVIOUS
<1>2. PICK n \in Int, r \in Int :
        Stands(m, n) /\ Stands(ct.c1, h * n + r) /\ Stands(ct.c2, sk * r)
  BY <1>1 DEF Holds
<1>3. PICK i \in Int : Stands(invMod(sk), i) /\ Stands(1, sk * i)
  BY InverseOf
<1>4. h \in Int /\ sk \in Int /\ Q \in Int /\ 1 \in Scalar
  BY Order DEF Scalar
<1>5. PICK k \in Int : sk * i = 1 + Q * k
  <2>1. Stands(1, 1)
    BY <1>4, Itself
  <2>2. PICK u \in Int : u = sk * i
    BY <1>4
  <2>3. \E k \in Int : u = 1 + Q * k
    BY <1>3, <2>1, <2>2, TwoNumbers
  <2>4. QED
    BY <2>2, <2>3
<1> DEFINE blinding == Times(ct.c2, invMod(sk))
           target == Minus(ct.c1, blinding)
<1>6. Stands(target, (h * n + r) - (sk * r) * i)
  BY <1>2, <1>3, Multiples, Sums
<1>7. PICK e \in Int : m \in Scalar /\ n = m + Q * e
  <2>1. m \in Scalar
    BY <1>2, InScalar
  <2>2. QED
    BY <1>2, <2>1, Itself, TwoNumbers
<1>8. m \in Int
  BY <1>7 DEF Scalar
<1>9. h * m = ((h * n + r) - (sk * r) * i) + Q * (r * k - h * e)
  <2>1. (sk * r) * i = (sk * i) * r
    BY <1>4
  <2>2. (1 + Q * k) * r = r + Q * (r * k)
    BY <1>4
  <2>3. h * (m + Q * e) = h * m + Q * (h * e)
    BY <1>4, <1>8
  <2>4. Q * (r * k - h * e) = Q * (r * k) - Q * (h * e)
    BY <1>4
  <2>5. (sk * r) * i = r + Q * (r * k)
    BY <1>5, <2>1, <2>2
  <2>6. h * n = h * m + Q * (h * e)
    BY <1>7, <2>3
  <2>7. PICK a \in Int, b \in Int, c \in Int, d \in Int, g \in Int :
          a = h * n /\ b = (sk * r) * i /\ c = Q * (r * k) /\ d = Q * (h * e) /\ g = h * m
    BY <1>4, <1>8
  <2>8. b = r + c /\ a = g + d
    BY <2>5, <2>6, <2>7
  <2>9. g = ((a + r) - b) + (c - d)
    BY <2>8
  <2>10. QED
    BY <2>4, <2>7, <2>9
<1>10. Stands(target, h * m)
  <2>1. PICK y \in Int, f \in Int : y = h * m /\ f = r * k - h * e
    BY <1>4, <1>8
  <2>2. y = ((h * n + r) - (sk * r) * i) + Q * f
    BY <1>9, <2>1
  <2>3. Stands(target, y)
    BY <1>6, <2>2, ShiftedBy
  <2>4. QED
    BY <2>1, <2>3
<1>11. opts.maxBalance \in Scalar /\ opts.bsgsStep \in Scalar \ {0}
  BY TwistedElGamalAssumption
<1> HIDE DEF target
<1>12. discreteLogOnH(target, opts.maxBalance, opts.bsgsStep)
         = IF m <= opts.maxBalance THEN m ELSE NoPlaintext
  BY <1>1, <1>7, <1>10, <1>11, SearchFinds
<1>13. QED
  BY <1>12 DEF decrypt, target

(* randomize adds to the randomness alone.                                 *)
LEMMA RandomizeHolds ==
  ASSUME NEW sk \in Scalar, NEW h \in Scalar, NEW m, NEW ct, Holds(h, sk, ct, m), NEW r \in NonZero
  PROVE  Holds(h, sk, randomize(multBaseG(sk), ct, r), m)
<1>1. PICK n \in Int, s \in Int :
        Stands(m, n) /\ Stands(ct.c1, h * n + s) /\ Stands(ct.c2, sk * s)
  BY DEF Holds
<1>2. r \in Scalar /\ r \in Int /\ h \in Int /\ sk \in Int
  BY DEF NonZero, Scalar
<1>3. Stands(multBaseG(r), r) /\ multBaseG(sk) = sk /\ Stands(r, r) /\ Stands(sk, sk)
  BY <1>2, Itself, BaseMultiples, SamePoint
<1>4. Stands(Times(sk, r), sk * r)
  BY <1>3, Multiples
<1>5. Stands(Plus(ct.c1, multBaseG(r)), (h * n + s) + r)
  BY <1>1, <1>3, Sums
<1>6. Stands(Plus(ct.c2, Times(sk, r)), sk * s + sk * r)
  BY <1>1, <1>4, Sums
<1>7. PICK t \in Int : t = s + r
  BY <1>2
<1>8. (h * n + s) + r = h * n + t /\ sk * s + sk * r = sk * t
  BY <1>2, <1>7
<1>9. PICK new : new = randomize(multBaseG(sk), ct, r)
  OBVIOUS
<1>10. Stands(new.c1, h * n + t) /\ Stands(new.c2, sk * t)
  BY <1>3, <1>5, <1>6, <1>8, <1>9 DEF randomize
<1>11. QED
  BY <1>1, <1>9, <1>10 DEF Holds

(* addCiphertexts and subCiphertexts add and subtract the numbers.         *)
LEMMA CombineHolds ==
  ASSUME NEW sk \in Scalar, NEW h \in Scalar, NEW m, NEW ct, Holds(h, sk, ct, m),
         NEW k \in Int, NEW r \in Int, NEW other,
         Stands(other.c1, h * k + r), Stands(other.c2, sk * r)
  PROVE  /\ Holds(h, sk, addCiphertexts(ct, other), Plus(m, k))
         /\ Holds(h, sk, subCiphertexts(ct, other), Minus(m, k))
<1>1. PICK n \in Int, s \in Int :
        Stands(m, n) /\ Stands(ct.c1, h * n + s) /\ Stands(ct.c2, sk * s)
  BY DEF Holds
<1>2. h \in Int /\ sk \in Int
  BY DEF Scalar
<1>3. PICK n1 \in Int, n2 \in Int, r1 \in Int, r2 \in Int :
        n1 = n + k /\ n2 = n - k /\ r1 = s + r /\ r2 = s - r
  OBVIOUS
<1>4. Stands(Plus(m, k), n1) /\ Stands(Minus(m, k), n2)
  <2>1. m \in Int /\ m = n % Q
    BY <1>1, InScalar DEF Stands, Scalar
  <2>2. ((n % Q) + k) % Q = (n + k) % Q /\ ((n % Q) - k) % Q = (n - k) % Q
    BY Order, RemainderOfSum
  <2>3. QED
    BY <1>3, <2>1, <2>2 DEF Stands, Plus, Minus
<1>5. /\ Stands(Plus(ct.c1, other.c1), (h * n + s) + (h * k + r))
      /\ Stands(Minus(ct.c1, other.c1), (h * n + s) - (h * k + r))
      /\ Stands(Plus(ct.c2, other.c2), sk * s + sk * r)
      /\ Stands(Minus(ct.c2, other.c2), sk * s - sk * r)
  BY <1>1, Sums
<1>6. /\ (h * n + s) + (h * k + r) = h * n1 + r1
      /\ (h * n + s) - (h * k + r) = h * n2 + r2
      /\ sk * s + sk * r = sk * r1
      /\ sk * s - sk * r = sk * r2
  BY <1>2, <1>3
<1>7. PICK sum, dif : sum = addCiphertexts(ct, other) /\ dif = subCiphertexts(ct, other)
  OBVIOUS
<1>8. /\ Stands(sum.c1, h * n1 + r1) /\ Stands(sum.c2, sk * r1)
      /\ Stands(dif.c1, h * n2 + r2) /\ Stands(dif.c2, sk * r2)
  BY <1>5, <1>6, <1>7 DEF addCiphertexts, subCiphertexts
<1>9. Holds(h, sk, sum, Plus(m, k)) /\ Holds(h, sk, dif, Minus(m, k))
  BY <1>4, <1>8 DEF Holds
<1>10. QED
  BY <1>7, <1>9

(* scaleCiphertext multiplies the number.                                  *)
LEMMA ScaleHolds ==
  ASSUME NEW sk \in Scalar, NEW h \in Scalar, NEW m, NEW ct, Holds(h, sk, ct, m), NEW k \in Int
  PROVE  Holds(h, sk, scaleCiphertext(ct, k), Times(m, k % Q))
<1>1. PICK n \in Int, s \in Int :
        Stands(m, n) /\ Stands(ct.c1, h * n + s) /\ Stands(ct.c2, sk * s)
  BY DEF Holds
<1>2. h \in Int /\ sk \in Int
  BY DEF Scalar
<1>3. Stands(k % Q, k)
  BY DEF Stands
<1>4. /\ Stands(Times(m, k % Q), n * k)
      /\ Stands(Times(ct.c1, k % Q), (h * n + s) * k)
      /\ Stands(Times(ct.c2, k % Q), (sk * s) * k)
  BY <1>1, <1>3, Multiples
<1>5. PICK n1 \in Int, s1 \in Int : n1 = n * k /\ s1 = s * k
  OBVIOUS
<1>6. (h * n + s) * k = h * n1 + s1 /\ (sk * s) * k = sk * s1
  BY <1>2, <1>5
<1>7. PICK new : new = scaleCiphertext(ct, k)
  OBVIOUS
<1>8. Stands(new.c1, h * n1 + s1) /\ Stands(new.c2, sk * s1) /\ Stands(Times(m, k % Q), n1)
  BY <1>4, <1>5, <1>6, <1>7 DEF scaleCiphertext
<1>9. QED
  BY <1>7, <1>8 DEF Holds

-----------------------------------------------------------------------------
(***************************************************************************)
(* Decryption gives the number a ciphertext is worth, whatever was done to *)
(* it, for every prime order, key, generator, bound and step of the search *)
(* (elgamal.ts).                                                           *)
(***************************************************************************)
THEOREM Decryption == ElGamalSpec => []DecryptsToThePlaintext
<1>1. ElGamalInit => CipherInv
  <2>1. 0 \in Scalar
    BY Order DEF Scalar
  <2>2. QED
    BY <2>1 DEF ElGamalInit, CipherInv, ZERO
<1>2. ASSUME CipherInv, [ElGamalNext]_elgamalVars
      PROVE  CipherInv'
  <2>1. CACHED_H \in Scalar /\ secretKey \in Scalar
    BY <1>2 DEF CipherInv
  <2>2. twistedH \in Scalar
    BY <2>1, Generators
  <2>3. \A h : encryptedUnder = {h} => Holds(h, secretKey, ciphertext, plaintext)
    BY <1>2 DEF CipherInv
  <2>4. CASE keyGen
    <3>1. PICK hash \in Hashes : secretKey' = keyPairFromSeed(hash)
      BY <2>4 DEF keyGen
    <3>2. hash \in Nat
      BY TwistedElGamalAssumption
    <3>3. secretKey' \in Scalar
      BY <3>1, <3>2, KeysAreNotZero
    <3>4. encryptedUnder = {} /\ UNCHANGED <<CACHED_H, encryptedUnder>>
      BY <1>2, <2>4 DEF keyGen, CipherInv, ZERO
    <3>5. QED
      BY <2>1, <3>3, <3>4 DEF CipherInv
  <2>5. CASE setTwistedH
    <3>1. CACHED_H' \in Scalar
      BY <2>5, TwistedElGamalAssumption DEF setTwistedH, Scalar, Point
    <3>2. UNCHANGED <<secretKey, ciphertext, plaintext, encryptedUnder>>
      BY <2>5 DEF setTwistedH
    <3>3. QED
      BY <1>2, <3>1, <3>2 DEF CipherInv
  <2>6. CASE Encrypt
    <3>1. PICK m \in Plaintexts, r \in NonZero :
            ciphertext' = encryptWithRandomness(publicKey, m, r) /\ plaintext' = m % Q
      BY <2>6 DEF Encrypt
    <3>2. /\ secretKey # 0 /\ encryptedUnder' = {twistedH}
          /\ UNCHANGED <<CACHED_H, secretKey>>
      BY <2>6 DEF Encrypt, ZERO
    <3>3. m \in Int /\ r \in Int
      BY TwistedElGamalAssumption DEF NonZero, Scalar
    <3>4. PICK ct : ct = encryptWithRandomness(multBaseG(secretKey), m, r)
      OBVIOUS
    <3>5. Stands(ct.c1, twistedH * m + r) /\ Stands(ct.c2, secretKey * r) /\ Stands(m % Q, m)
      BY <2>1, <2>2, <3>3, <3>4, EncryptionHolds DEF Stands
    <3>6. Holds(twistedH, secretKey, ct, m % Q)
      BY <3>3, <3>5 DEF Holds
    <3>7. ciphertext' = ct
      BY <3>1, <3>4 DEF publicKey
    <3>8. QED
      BY <2>1, <2>2, <3>1, <3>2, <3>6, <3>7 DEF CipherInv
  <2>7. CASE EncryptZero
    <3>1. /\ secretKey # 0 /\ encryptedUnder' = {twistedH} /\ plaintext' = 0
          /\ ciphertext' = zeroCiphertext(publicKey)
          /\ UNCHANGED <<CACHED_H, secretKey>>
      BY <2>7 DEF EncryptZero, ZERO
    <3>2. PICK ct : ct = encryptWithRandomness(multBaseG(secretKey), 0, 1)
      OBVIOUS
    <3>3. 0 \in Scalar
      BY Order DEF Scalar
    <3>4. Stands(ct.c1, twistedH * 0 + 1) /\ Stands(ct.c2, secretKey * 1) /\ Stands(0, 0)
      BY <2>1, <2>2, <3>2, <3>3, EncryptionHolds, Itself
    <3>5. Holds(twistedH, secretKey, ct, 0)
      <4>1. 0 \in Int /\ 1 \in Int
        OBVIOUS
      <4>2. QED
        BY <3>4, <4>1 DEF Holds
    <3>6. ciphertext' = ct
      BY <3>1, <3>2 DEF publicKey, zeroCiphertext
    <3>7. QED
      BY <2>1, <2>2, <3>1, <3>5, <3>6 DEF CipherInv
  <2>8. CASE Randomize
    <3>1. PICK r \in NonZero : ciphertext' = randomize(publicKey, ciphertext, r)
      BY <2>8 DEF Randomize
    <3>2. UNCHANGED <<CACHED_H, secretKey, plaintext, encryptedUnder>>
      BY <2>8 DEF Randomize
    <3>3. ASSUME NEW h, encryptedUnder = {h}
          PROVE  Holds(h, secretKey, ciphertext', plaintext)
      <4>1. Holds(h, secretKey, ciphertext, plaintext) /\ h \in Scalar
        BY <1>2, <3>3 DEF CipherInv
      <4>2. QED
        BY <2>1, <3>1, <4>1, RandomizeHolds DEF publicKey
    <3>4. QED
      BY <1>2, <3>2, <3>3 DEF CipherInv
  <2>9. CASE Combine
    <3>1. PICK m \in Plaintexts, r \in NonZero :
            LET other == encryptWithRandomness(publicKey, m, r)
            IN  \/ /\ ciphertext' = addCiphertexts(ciphertext, other)
                   /\ plaintext' = Plus(plaintext, m)
                \/ /\ ciphertext' = subCiphertexts(ciphertext, other)
                   /\ plaintext' = Minus(plaintext, m)
      BY <2>9, Zenon DEF Combine
    <3>2. /\ encryptedUnder # {} /\ encryptedUnder' = encryptedUnder \cup {twistedH}
          /\ UNCHANGED <<CACHED_H, secretKey>>
      BY <2>9 DEF Combine
    <3>3. m \in Int /\ r \in Int
      BY TwistedElGamalAssumption DEF NonZero, Scalar
    <3>4. PICK other : other = encryptWithRandomness(multBaseG(secretKey), m, r)
      OBVIOUS
    <3>5. Stands(other.c1, twistedH * m + r) /\ Stands(other.c2, secretKey * r)
      BY <2>1, <2>2, <3>3, <3>4, EncryptionHolds
    <3>6. \/ /\ ciphertext' = addCiphertexts(ciphertext, other)
             /\ plaintext' = Plus(plaintext, m)
          \/ /\ ciphertext' = subCiphertexts(ciphertext, other)
             /\ plaintext' = Minus(plaintext, m)
      BY <3>1, <3>4, Zenon DEF publicKey
    <3>7. ASSUME NEW h, encryptedUnder' = {h}
          PROVE  Holds(h, secretKey, ciphertext', plaintext')
      <4>1. h = twistedH /\ encryptedUnder = {h}
        BY <3>2, <3>7
      <4>2. Holds(h, secretKey, ciphertext, plaintext)
        BY <2>3, <4>1
      <4>3. /\ Holds(h, secretKey, addCiphertexts(ciphertext, other), Plus(plaintext, m))
            /\ Holds(h, secretKey, subCiphertexts(ciphertext, other), Minus(plaintext, m))
        BY <2>1, <2>2, <3>3, <3>5, <4>1, <4>2, CombineHolds
      <4>4. QED
        BY <3>6, <4>3
    <3>8. QED
      BY <1>2, <2>2, <3>2, <3>7 DEF CipherInv
  <2>10. CASE Scale
    <3>1. PICK k \in Factors : ciphertext' = scaleCiphertext(ciphertext, k)
                               /\ plaintext' = Times(plaintext, k % Q)
      BY <2>10 DEF Scale
    <3>2. UNCHANGED <<CACHED_H, secretKey, encryptedUnder>>
      BY <2>10 DEF Scale
    <3>3. k \in Int
      BY TwistedElGamalAssumption
    <3>4. ASSUME NEW h, encryptedUnder = {h}
          PROVE  Holds(h, secretKey, ciphertext', plaintext')
      <4>1. Holds(h, secretKey, ciphertext, plaintext) /\ h \in Scalar
        BY <1>2, <3>4 DEF CipherInv
      <4>2. QED
        BY <2>1, <3>1, <3>3, <4>1, ScaleHolds
    <3>5. QED
      BY <1>2, <3>2, <3>4 DEF CipherInv
  <2>11. CASE UNCHANGED elgamalVars
    BY <1>2, <2>11 DEF elgamalVars, CipherInv
  <2>12. QED
    BY <1>2, <2>4, <2>5, <2>6, <2>7, <2>8, <2>9, <2>10, <2>11 DEF ElGamalNext
<1>3. CipherInv => DecryptsToThePlaintext
  <2>1. SUFFICES ASSUME CipherInv, encryptedUnder = {twistedH}, NEW opts \in Windows
                 PROVE  decrypt(secretKey, ciphertext, opts)
                          = IF plaintext <= opts.maxBalance THEN plaintext ELSE NoPlaintext
    BY DEF DecryptsToThePlaintext
  <2>2. secretKey \in Scalar /\ secretKey # 0 /\ CACHED_H \in Scalar
    BY <2>1 DEF CipherInv
  <2>3. Holds(twistedH, secretKey, ciphertext, plaintext)
    BY <2>1 DEF CipherInv
  <2>4. QED
    BY <2>2, <2>3, Generators, DecryptionFinds
<1>4. QED
  BY <1>1, <1>2, <1>3, PTL DEF ElGamalSpec

-----------------------------------------------------------------------------
(***************************************************************************)
(* The equations of the verifiers, for the responses of the provers.       *)
(***************************************************************************)
LEMMA ResponseStands ==
  ASSUME NEW t \in Scalar, NEW c \in Scalar, NEW w \in Scalar
  PROVE  Stands(Response(t, c, w), t + c * w)
<1>1. t + c * w \in Int
  BY DEF Scalar
<1>2. QED
  BY <1>1 DEF Response, Stands

(* An equation of a verifier, on numbers.                                  *)
LEMMA MatchingNumbers ==
  ASSUME NEW lhs, NEW x, Stands(lhs, x), NEW A, NEW a, Stands(A, a), NEW C, NEW b, Stands(C, b),
         NEW c, Stands(c, c), x = a + b * c
  PROVE  Matches(lhs, A, c, C)
<1>1. Stands(Times(C, c), b * c)
  BY Multiples
<1>2. Stands(Plus(A, Times(C, c)), a + b * c)
  BY <1>1, Sums
<1>3. QED
  BY <1>2, SamePoint DEF Matches

(* The equation for a multiple of a key.                                   *)
LEMMA KeyEquation ==
  ASSUME NEW k \in Scalar, NEW t \in Scalar, NEW c \in Scalar, NEW r \in Scalar
  PROVE  Matches(Times(k, Response(t, c, r)), Times(k, t), c, Times(k, r))
<1>1. Stands(k, k) /\ Stands(t, t) /\ Stands(c, c) /\ Stands(r, r)
  BY Itself
<1>2. k \in Int /\ t \in Int /\ c \in Int /\ r \in Int
  BY DEF Scalar
<1>3. Stands(Times(k, Response(t, c, r)), k * (t + c * r))
  BY <1>1, Multiples, ResponseStands
<1>4. Stands(Times(k, t), k * t) /\ Stands(Times(k, r), k * r)
  BY <1>1, Multiples
<1>5. k * (t + c * r) = k * t + (k * r) * c
  BY <1>2
<1>6. QED
  BY <1>1, <1>3, <1>4, <1>5, MatchingNumbers

(* The equation for a multiple of the base.                                *)
LEMMA BaseEquation ==
  ASSUME NEW t \in Scalar, NEW c \in Scalar, NEW r \in Scalar
  PROVE  Matches(multBaseG(Response(t, c, r)), multBaseG(t), c, multBaseG(r))
<1>1. baseG \in Scalar
  BY Order DEF Scalar, baseG
<1>2. QED
  BY <1>1, KeyEquation DEF multBaseG

(* The equation for a commitment.                                          *)
LEMMA PedersenEquation ==
  ASSUME NEW h \in Scalar, NEW t1 \in Scalar, NEW t2 \in Scalar, NEW c \in Scalar,
         NEW v \in Scalar, NEW r \in Scalar
  PROVE  Matches(Plus(Times(h, Response(t1, c, v)), multBaseG(Response(t2, c, r))),
                 Plus(Times(h, t1), multBaseG(t2)), c, Plus(Times(h, v), multBaseG(r)))
<1>1. /\ Stands(h, h) /\ Stands(t1, t1) /\ Stands(t2, t2) /\ Stands(c, c) /\ Stands(v, v)
      /\ Stands(r, r)
  BY Itself
<1>2. h \in Int /\ t1 \in Int /\ t2 \in Int /\ c \in Int /\ v \in Int /\ r \in Int
  BY DEF Scalar
<1>3. Stands(Times(h, Response(t1, c, v)), h * (t1 + c * v))
  BY <1>1, Multiples, ResponseStands
<1>4. Stands(multBaseG(Response(t2, c, r)), t2 + c * r)
  BY BaseMultiples, ResponseStands
<1>5. Stands(Times(h, t1), h * t1) /\ Stands(Times(h, v), h * v)
  BY <1>1, Multiples
<1>6. Stands(multBaseG(t2), t2) /\ Stands(multBaseG(r), r)
  BY <1>1, BaseMultiples
<1>7. Stands(Plus(Times(h, Response(t1, c, v)), multBaseG(Response(t2, c, r))),
             h * (t1 + c * v) + (t2 + c * r))
  BY <1>3, <1>4, Sums
<1>8. Stands(Plus(Times(h, t1), multBaseG(t2)), h * t1 + t2)
  BY <1>5, <1>6, Sums
<1>9. Stands(Plus(Times(h, v), multBaseG(r)), h * v + r)
  BY <1>5, <1>6, Sums
<1>10. h * (t1 + c * v) + (t2 + c * r) = (h * t1 + t2) + (h * v + r) * c
  <2>1. h * (t1 + c * v) = h * t1 + (h * v) * c
    BY <1>2
  <2>2. (h * v + r) * c = (h * v) * c + c * r
    BY <1>2
  <2>3. QED
    BY <1>2, <2>1, <2>2
<1>11. QED
  BY <1>1, <1>7, <1>8, <1>9, <1>10, MatchingNumbers

(* A commitment to zero is its randomness.                                 *)
LEMMA ZeroCommitment ==
  ASSUME NEW r \in Scalar
  PROVE  pedersenC1(0, r) = multBaseG(r)
<1>1. 0 \in Scalar /\ H \in Scalar
  BY Order, SigmaAssumption DEF Scalar, Point
<1>2. Stands(H, H) /\ Stands(0, 0) /\ Stands(r, r)
  BY <1>1, Itself
<1>3. Stands(multBaseG(r), r)
  BY <1>2, BaseMultiples
<1>4. Stands(Times(H, 0), H * 0)
  BY <1>2, Multiples
<1>5. Stands(pedersenC1(0, r), H * 0 + r)
  BY <1>3, <1>4, Sums DEF pedersenC1
<1>6. H * 0 + r = r
  BY <1>1 DEF Scalar
<1>7. QED
  BY <1>3, <1>5, <1>6, SamePoint

(* Everything a prover or a statement is made of is a scalar.              *)
LEMMA Drawn ==
  /\ H \in Scalar
  /\ SourceKeys \subseteq Scalar /\ DestKeys \subseteq Scalar /\ Shown \subseteq Scalar
  /\ Draws \subseteq Scalar /\ Randomness \subseteq Scalar
  /\ FirstChallenges \subseteq Scalar /\ SecondChallenges \subseteq Scalar
BY SigmaAssumption DEF Scalar, Point

(* proveEquality and verifyEquality.                                       *)
LEMMA EqualityHolds ==
  ASSUME NEW sourcePk \in SourceKeys, NEW destPk \in DestKeys, NEW v \in Scalar, NEW c \in Scalar,
         NEW rS \in Randomness, NEW rD \in Randomness, NEW t \in [1 .. 3 -> Draws], NEW st,
         st = [sourcePk |-> sourcePk, destPk |-> destPk,
               sourceCt |-> Ciphertext(sourcePk, v, rS), destCt |-> Ciphertext(destPk, v, rD)],
         NEW z, z = EqualityResponse(t, c, <<v, rS, rD>>),
         Multipliable(c), \A i \in 1 .. 3 : Multipliable(z[i])
  PROVE  verifyEquality(st, EqualityAnnouncement(st, t), c, z)
<1>1. t[1] \in Scalar /\ t[2] \in Scalar /\ t[3] \in Scalar
  <2>1. 1 \in 1 .. 3 /\ 2 \in 1 .. 3 /\ 3 \in 1 .. 3
    OBVIOUS
  <2>2. QED
    BY <2>1, Drawn
<1>2. /\ rS \in Scalar /\ rD \in Scalar /\ sourcePk \in Scalar /\ destPk \in Scalar
      /\ H \in Scalar
  BY Drawn
<1>3. /\ z[1] = Response(t[1], c, v)
      /\ z[2] = Response(t[2], c, rS)
      /\ z[3] = Response(t[3], c, rD)
  BY DEF EqualityResponse
<1> DEFINE A == EqualityAnnouncement(st, t)
<1>4. /\ A[1] = Plus(Times(H, t[1]), multBaseG(t[2]))
      /\ A[2] = Plus(Times(H, t[1]), multBaseG(t[3]))
      /\ A[3] = Times(sourcePk, t[2])
      /\ A[4] = Times(destPk, t[3])
  BY DEF EqualityAnnouncement
<1>5. /\ st.sourceCt.c1 = Plus(Times(H, v), multBaseG(rS))
      /\ st.sourceCt.c2 = Times(sourcePk, rS)
      /\ st.destCt.c1 = Plus(Times(H, v), multBaseG(rD))
      /\ st.destCt.c2 = Times(destPk, rD)
      /\ st.sourcePk = sourcePk /\ st.destPk = destPk
  BY DEF Ciphertext, pedersenC1
<1> HIDE DEF A
<1>6. Matches(Plus(Times(H, z[1]), multBaseG(z[2])), A[1], c, st.sourceCt.c1)
  <2>1. Matches(Plus(Times(H, Response(t[1], c, v)), multBaseG(Response(t[2], c, rS))),
                Plus(Times(H, t[1]), multBaseG(t[2])), c, Plus(Times(H, v), multBaseG(rS)))
    BY <1>1, <1>2, PedersenEquation
  <2>2. QED
    BY <1>3, <1>4, <1>5, <2>1
<1>7. Matches(Plus(Times(H, z[1]), multBaseG(z[3])), A[2], c, st.destCt.c1)
  <2>1. Matches(Plus(Times(H, Response(t[1], c, v)), multBaseG(Response(t[3], c, rD))),
                Plus(Times(H, t[1]), multBaseG(t[3])), c, Plus(Times(H, v), multBaseG(rD)))
    BY <1>1, <1>2, PedersenEquation
  <2>2. QED
    BY <1>3, <1>4, <1>5, <2>1
<1>8. Matches(Times(st.sourcePk, z[2]), A[3], c, st.sourceCt.c2)
  BY <1>1, <1>2, <1>3, <1>4, <1>5, KeyEquation
<1>9. Matches(Times(st.destPk, z[3]), A[4], c, st.destCt.c2)
  BY <1>1, <1>2, <1>3, <1>4, <1>5, KeyEquation
<1>10. QED
  BY <1>6, <1>7, <1>8, <1>9 DEF verifyEquality, A

(* provePubkeyValidity and verifyPubkeyValidity.                           *)
LEMMA PubkeyHolds ==
  ASSUME NEW sk \in Scalar, NEW c \in Scalar, NEW t \in [{1} -> Draws], NEW z,
         z = PubkeyResponse(t, c, <<sk>>), Multipliable(c), Multipliable(z[1])
  PROVE  verifyPubkeyValidity([pk |-> multBaseG(sk)], PubkeyAnnouncement(t), c, z)
<1>1. t[1] \in Scalar
  BY Drawn
<1>2. z[1] = Response(t[1], c, sk) /\ PubkeyAnnouncement(t)[1] = multBaseG(t[1])
  BY DEF PubkeyResponse, PubkeyAnnouncement
<1>3. Matches(multBaseG(z[1]), PubkeyAnnouncement(t)[1], c, multBaseG(sk))
  BY <1>1, <1>2, BaseEquation
<1>4. QED
  BY <1>3 DEF verifyPubkeyValidity

(* proveZeroBalance and verifyZeroBalance.                                 *)
LEMMA ZeroHolds ==
  ASSUME NEW pk \in SourceKeys, NEW r \in Randomness, NEW c \in Scalar, NEW t \in [{1} -> Draws],
         NEW st, st = [pk |-> pk, ct |-> Ciphertext(pk, 0, r)],
         NEW z, z = ZeroResponse(t, c, <<r>>), Multipliable(c), Multipliable(z[1])
  PROVE  verifyZeroBalance(st, ZeroAnnouncement(st, t), c, z)
<1>1. t[1] \in Scalar /\ r \in Scalar /\ pk \in Scalar
  BY Drawn
<1>2. z[1] = Response(t[1], c, r)
  BY DEF ZeroResponse
<1> DEFINE A == ZeroAnnouncement(st, t)
<1>3. A[1] = multBaseG(t[1]) /\ A[2] = Times(pk, t[1])
  BY DEF ZeroAnnouncement
<1>4. st.ct.c1 = multBaseG(r) /\ st.ct.c2 = Times(pk, r) /\ st.pk = pk
  BY <1>1, ZeroCommitment DEF Ciphertext
<1> HIDE DEF A
<1>5. Matches(multBaseG(z[1]), A[1], c, st.ct.c1)
  BY <1>1, <1>2, <1>3, <1>4, BaseEquation
<1>6. Matches(Times(st.pk, z[1]), A[2], c, st.ct.c2)
  BY <1>1, <1>2, <1>3, <1>4, KeyEquation
<1>7. QED
  BY <1>5, <1>6 DEF verifyZeroBalance, A
-----------------------------------------------------------------------------
(***************************************************************************)
(* A proof made by the SDK is accepted by its verifier, for every order,   *)
(* generator, key and draw (sigma.ts).                                     *)
(***************************************************************************)
THEOREM AcceptedProofs == SigmaSpec => []HonestProofsAreAccepted
<1>1. SigmaInit => HonestProofsAreAccepted
  BY DEF SigmaInit, HonestProofsAreAccepted
<1>2. ASSUME HonestProofsAreAccepted, [SigmaNext]_sigma
      PROVE  HonestProofsAreAccepted'
  <2>1. CASE proveEquality
    <3>1. PICK sourcePk \in SourceKeys, destPk \in DestKeys, v \in Scalar, c \in Scalar,
              rS \in Randomness, rD \in Randomness, t \in [1 .. 3 -> Draws] :
            LET st == [sourcePk |-> sourcePk, destPk |-> destPk,
                       sourceCt |-> Ciphertext(sourcePk, v, rS),
                       destCt |-> Ciphertext(destPk, v, rD)]
            IN  Proved("equality", st, EqualityAnnouncement(st, t), c,
                       EqualityResponse(t, c, <<v, rS, rD>>))
      BY <2>1 DEF proveEquality
    <3> DEFINE st == [sourcePk |-> sourcePk, destPk |-> destPk,
                      sourceCt |-> Ciphertext(sourcePk, v, rS),
                      destCt |-> Ciphertext(destPk, v, rD)]
               z == EqualityResponse(t, c, <<v, rS, rD>>)
    <3>3. Multipliable(c) /\ (\A i \in 1 .. 3 : Multipliable(z[i])) =>
            verifyEquality(st, EqualityAnnouncement(st, t), c, z)
      BY EqualityHolds, Zenon
    <3>4. DOMAIN z = 1 .. 3
      BY DEF EqualityResponse
    <3> HIDE DEF st, z
    <3>5. Proved("equality", st, EqualityAnnouncement(st, t), c, z)
      BY <3>1, Zenon DEF st, z
    <3>6. QED
      BY <3>3, <3>4, <3>5 DEF Proved, HonestProofsAreAccepted, Accepts
  <2>2. CASE provePubkeyValidity
    <3>1. PICK sk \in Scalar, c \in Scalar, t \in [{1} -> Draws] :
            Proved("pubkey", [pk |-> multBaseG(sk)], PubkeyAnnouncement(t), c,
                   PubkeyResponse(t, c, <<sk>>))
      BY <2>2, Zenon DEF provePubkeyValidity
    <3> DEFINE st == [pk |-> multBaseG(sk)]
               z == PubkeyResponse(t, c, <<sk>>)
    <3>3. Multipliable(c) /\ Multipliable(z[1]) =>
            verifyPubkeyValidity(st, PubkeyAnnouncement(t), c, z)
      BY PubkeyHolds, Zenon
    <3>4. DOMAIN z = {1}
      BY DEF PubkeyResponse
    <3> HIDE DEF st, z
    <3>5. Proved("pubkey", st, PubkeyAnnouncement(t), c, z)
      BY <3>1, Zenon DEF st, z
    <3>6. QED
      BY <3>3, <3>4, <3>5 DEF Proved, HonestProofsAreAccepted, Accepts
  <2>3. CASE proveZeroBalance
    <3>1. PICK pk \in SourceKeys, r \in Randomness, c \in Scalar, t \in [{1} -> Draws] :
            LET st == [pk |-> pk, ct |-> Ciphertext(pk, 0, r)]
            IN  Proved("zero", st, ZeroAnnouncement(st, t), c, ZeroResponse(t, c, <<r>>))
      BY <2>3, Zenon DEF proveZeroBalance
    <3> DEFINE st == [pk |-> pk, ct |-> Ciphertext(pk, 0, r)]
               z == ZeroResponse(t, c, <<r>>)
    <3>3. Multipliable(c) /\ Multipliable(z[1]) =>
            verifyZeroBalance(st, ZeroAnnouncement(st, t), c, z)
      BY ZeroHolds, Zenon
    <3>4. DOMAIN z = {1}
      BY DEF ZeroResponse
    <3> HIDE DEF st, z
    <3>5. Proved("zero", st, ZeroAnnouncement(st, t), c, z)
      BY <3>1, Zenon DEF st, z
    <3>6. QED
      BY <3>3, <3>4, <3>5 DEF Proved, HonestProofsAreAccepted, Accepts
  <2>4. CASE FirstAnswer
    <3>1. sigma'.step = "answered"
      BY <2>4 DEF FirstAnswer
    <3>2. QED
      BY <3>1 DEF HonestProofsAreAccepted
  <2>5. CASE SecondAnswer
    <3>1. PICK st, k, w : sigma' = [step |-> "answered twice", kind |-> k, statement |-> st,
                                 witness |-> w]
      BY <2>5, Zenon DEF SecondAnswer
    <3>2. sigma'.step = "answered twice"
      BY <3>1
    <3>3. QED
      BY <3>2 DEF HonestProofsAreAccepted
  <2>6. CASE UNCHANGED sigma
    BY <1>2, <2>6 DEF HonestProofsAreAccepted
  <2>7. QED
    BY <1>2, <2>1, <2>2, <2>3, <2>4, <2>5, <2>6 DEF SigmaNext
<1>3. QED
  BY <1>1, <1>2, PTL DEF SigmaSpec

-----------------------------------------------------------------------------
(***************************************************************************)
(* Two answers for one announcement: the difference of the left sides is   *)
(* the right side times the difference of the challenges, which has an     *)
(* inverse.                                                                *)
(***************************************************************************)
inverse(c, c0) == invMod(Minus(c, c0))

(* The right side is what the two left sides differ by, divided.           *)
LEMMA Extract ==
  ASSUME NEW L, NEW x, Stands(L, x), NEW L0, NEW x0, Stands(L0, x0),
         NEW A \in Scalar, NEW C \in Scalar, NEW c \in Scalar, NEW c0 \in Scalar, c # c0,
         Matches(L0, A, c0, C), Matches(L, A, c, C)
  PROVE  \E i \in Int : Stands(inverse(c, c0), i) /\ Stands(C, (x - x0) * i)
<1>1. Stands(A, A) /\ Stands(C, C) /\ Stands(c, c) /\ Stands(c0, c0)
  BY Itself
<1>2. A \in Int /\ C \in Int /\ c \in Int /\ c0 \in Int /\ x \in Int /\ x0 \in Int /\ Q \in Int
  BY Order DEF Scalar, Stands
<1>3. Stands(Times(C, c), C * c) /\ Stands(Times(C, c0), C * c0)
  BY <1>1, Multiples
<1>4. Stands(L, A + C * c) /\ Stands(L0, A + C * c0)
  BY <1>1, <1>3, Sums DEF Matches
<1>5. PICK k \in Int : x = (A + C * c) + Q * k
  BY <1>4, TwoNumbers
<1>6. PICK k0 \in Int : x0 = (A + C * c0) + Q * k0
  BY <1>4, TwoNumbers
<1>7. PICK d \in Scalar : d = Minus(c, c0) /\ Stands(d, c - c0)
  <2>1. Stands(Minus(c, c0), c - c0)
    BY <1>1, Sums
  <2>2. QED
    BY <2>1, InScalar
<1>8. d # 0
  <2>1. SUFFICES ASSUME d = 0 PROVE FALSE
    OBVIOUS
  <2>2. 0 \in Scalar
    BY Order DEF Scalar
  <2>3. Stands(d, 0)
    BY <2>1, <2>2, Itself
  <2>4. PICK m \in Int : c - c0 = 0 + Q * m
    BY <1>7, <2>3, TwoNumbers
  <2>5. Q * m < Q /\ Q * m > -Q
    BY <2>4, <1>2, Order DEF Scalar
  <2>6. m = 0
    BY <2>5, Order, NoSmallMultiple
  <2>7. c = c0
    BY <1>2, <2>4, <2>6
  <2>8. QED
    BY <2>7
<1>9. PICK i \in Int : Stands(inverse(c, c0), i) /\ Stands(1, d * i)
  BY <1>7, <1>8, InverseOf DEF inverse
<1>10. Stands(1, (c - c0) * i)
  <2>1. Stands(i % Q, i)
    BY DEF Stands
  <2>2. Stands(d, d)
    BY Itself
  <2>3. Stands(Times(d, i % Q), (c - c0) * i) /\ Stands(Times(d, i % Q), d * i)
    BY <1>7, <2>1, <2>2, Multiples
  <2>4. Times(d, i % Q) = 1
    BY <1>9, <2>3, SamePoint
  <2>5. QED
    BY <2>3, <2>4
<1>11. Stands(Times(C, 1), C * ((c - c0) * i)) /\ Stands(Times(C, 1), C * 1)
  <2>1. 1 \in Scalar
    BY Order DEF Scalar
  <2>2. QED
    BY <1>1, <1>10, <2>1, Itself, Multiples
<1>12. Stands(C, C * ((c - c0) * i))
  <2>1. C * 1 = C
    BY <1>2
  <2>2. Times(C, 1) = C
    BY <1>1, <1>11, <2>1, SamePoint
  <2>3. QED
    BY <1>11, <2>2
<1>13. (x - x0) * i = C * ((c - c0) * i) + Q * ((k - k0) * i)
  <2>1. x - x0 = (C * c - C * c0) + (Q * k - Q * k0)
    BY <1>2, <1>5, <1>6
  <2>2. C * c - C * c0 = C * (c - c0) /\ Q * k - Q * k0 = Q * (k - k0)
    BY <1>2
  <2>3. PICK u \in Int, v \in Int : u = c - c0 /\ v = k - k0
    BY <1>2
  <2>4. x - x0 = C * u + Q * v
    BY <2>1, <2>2, <2>3
  <2>5. (C * u + Q * v) * i = C * (u * i) + Q * (v * i)
    BY <1>2
  <2>6. QED
    BY <2>3, <2>4, <2>5
<1>14. PICK y \in Int, w \in Int : y = (x - x0) * i /\ w = (k - k0) * i
  BY <1>2
<1>15. Stands(C, y)
  BY <1>12, <1>13, <1>14, ShiftedBy
<1>16. QED
  BY <1>9, <1>14, <1>15

(* The secret that the answers z and z0 give away.                         *)
Secret(z, z0, c, c0) == Times(Minus(z, z0), inverse(c, c0))

KeyAnswers(k, z, z0, A, C, c, c0) ==
  /\ k \in Scalar /\ z \in Scalar /\ z0 \in Scalar /\ A \in Scalar /\ C \in Scalar
  /\ c \in Scalar /\ c0 \in Scalar /\ c # c0
  /\ Matches(Times(k, z0), A, c0, C) /\ Matches(Times(k, z), A, c, C)

PedersenAnswers(h, z1, y1, z2, y2, A, C, c, c0) ==
  /\ h \in Scalar /\ z1 \in Scalar /\ y1 \in Scalar /\ z2 \in Scalar /\ y2 \in Scalar
  /\ A \in Scalar /\ C \in Scalar /\ c \in Scalar /\ c0 \in Scalar /\ c # c0
  /\ Matches(Plus(Times(h, y1), multBaseG(y2)), A, c0, C)
  /\ Matches(Plus(Times(h, z1), multBaseG(z2)), A, c, C)

(* For a multiple of a key.                                                *)
LEMMA ExtractKey ==
  ASSUME NEW k, NEW z, NEW z0, NEW A, NEW C, NEW c, NEW c0, KeyAnswers(k, z, z0, A, C, c, c0)
  PROVE  C = Times(k, Secret(z, z0, c, c0)) /\ Secret(z, z0, c, c0) \in Scalar
<1>0. /\ k \in Scalar /\ z \in Scalar /\ z0 \in Scalar /\ A \in Scalar /\ C \in Scalar
      /\ c \in Scalar /\ c0 \in Scalar /\ c # c0
      /\ Matches(Times(k, z0), A, c0, C) /\ Matches(Times(k, z), A, c, C)
  BY DEF KeyAnswers
<1>1. Stands(k, k) /\ Stands(z, z) /\ Stands(z0, z0)
  BY <1>0, Itself
<1>2. Stands(Times(k, z), k * z) /\ Stands(Times(k, z0), k * z0)
  BY <1>1, Multiples
<1>3. PICK i \in Int : Stands(inverse(c, c0), i) /\ Stands(C, (k * z - k * z0) * i)
  BY <1>0, <1>2, Extract
<1>4. Stands(Secret(z, z0, c, c0), (z - z0) * i)
  BY <1>1, <1>3, Sums, Multiples DEF Secret
<1>5. Stands(Times(k, Secret(z, z0, c, c0)), k * ((z - z0) * i))
  BY <1>1, <1>4, Multiples
<1>6. (k * z - k * z0) * i = k * ((z - z0) * i)
  <2>1. k \in Int /\ z \in Int /\ z0 \in Int
    BY <1>0 DEF Scalar
  <2>2. QED
    BY <2>1
<1>7. QED
  BY <1>3, <1>4, <1>5, <1>6, SamePoint, InScalar

(* For a multiple of the base.                                             *)
LEMMA ExtractBase ==
  ASSUME NEW z, NEW z0, NEW A, NEW C, NEW c, NEW c0, KeyAnswers(baseG, z, z0, A, C, c, c0)
  PROVE  C = multBaseG(Secret(z, z0, c, c0)) /\ Secret(z, z0, c, c0) \in Scalar
BY ExtractKey DEF multBaseG

(* For a commitment: both of its openings.                                 *)
LEMMA ExtractPedersen ==
  ASSUME NEW h, NEW z1, NEW y1, NEW z2, NEW y2, NEW A, NEW C, NEW c, NEW c0,
         PedersenAnswers(h, z1, y1, z2, y2, A, C, c, c0)
  PROVE  C = Plus(Times(h, Secret(z1, y1, c, c0)), multBaseG(Secret(z2, y2, c, c0)))
<1>0. /\ h \in Scalar /\ z1 \in Scalar /\ y1 \in Scalar /\ z2 \in Scalar /\ y2 \in Scalar
      /\ A \in Scalar /\ C \in Scalar /\ c \in Scalar /\ c0 \in Scalar /\ c # c0
      /\ Matches(Plus(Times(h, y1), multBaseG(y2)), A, c0, C)
      /\ Matches(Plus(Times(h, z1), multBaseG(z2)), A, c, C)
  BY DEF PedersenAnswers
<1>1. Stands(h, h) /\ Stands(z1, z1) /\ Stands(y1, y1) /\ Stands(z2, z2) /\ Stands(y2, y2)
  BY <1>0, Itself
<1>2. Stands(Times(h, z1), h * z1) /\ Stands(Times(h, y1), h * y1)
  BY <1>1, Multiples
<1>3. Stands(multBaseG(z2), z2) /\ Stands(multBaseG(y2), y2)
  BY <1>1, BaseMultiples
<1>4. /\ Stands(Plus(Times(h, z1), multBaseG(z2)), h * z1 + z2)
      /\ Stands(Plus(Times(h, y1), multBaseG(y2)), h * y1 + y2)
  BY <1>2, <1>3, Sums
<1>5. PICK i \in Int : /\ Stands(inverse(c, c0), i)
                       /\ Stands(C, ((h * z1 + z2) - (h * y1 + y2)) * i)
  BY <1>0, <1>4, Extract
<1>6. /\ Stands(Secret(z1, y1, c, c0), (z1 - y1) * i)
      /\ Stands(Secret(z2, y2, c, c0), (z2 - y2) * i)
  BY <1>1, <1>5, Sums, Multiples DEF Secret
<1>7. Stands(Times(h, Secret(z1, y1, c, c0)), h * ((z1 - y1) * i))
  BY <1>1, <1>6, Multiples
<1>8. Stands(multBaseG(Secret(z2, y2, c, c0)), (z2 - y2) * i)
  BY <1>6, BaseMultiples
<1>9. Stands(Plus(Times(h, Secret(z1, y1, c, c0)), multBaseG(Secret(z2, y2, c, c0))),
             h * ((z1 - y1) * i) + (z2 - y2) * i)
  BY <1>7, <1>8, Sums
<1>10. ((h * z1 + z2) - (h * y1 + y2)) * i = h * ((z1 - y1) * i) + (z2 - y2) * i
  <2>1. h \in Int /\ z1 \in Int /\ y1 \in Int /\ z2 \in Int /\ y2 \in Int
    BY <1>0 DEF Scalar
  <2>2. QED
    BY <2>1
<1>11. QED
  BY <1>5, <1>9, <1>10, SamePoint

(* What a verifier was shown: an announcement made up for the answer.      *)
Answered(kind, st, A, c, z) ==
  /\ kind \in {"equality", "pubkey", "zero"} /\ st \in Statements(kind)
  /\ c \in Scalar /\ z \in Responses(kind)
  /\ A = Simulated(kind, st, c, z)
  /\ Accepts(kind, st, A, c, z)

Witness(z, z0, c, c0) == [i \in DOMAIN z |-> Secret(z[i], z0[i], c, c0)]

(* An announcement that is made up is one of points.                       *)
LEMMA RestIsAPoint ==
  ASSUME NEW lhs, NEW C \in Scalar, NEW c \in Scalar, NEW x, Stands(lhs, x)
  PROVE  Minus(lhs, Times(C, c)) \in Scalar
<1>1. Stands(Times(C, c), C * c)
  BY Itself, Multiples
<1>2. QED
  BY <1>1, Sums, InScalar

(* A multiple of the base is one of a key.                                 *)
LEMMA BaseAnswers ==
  ASSUME NEW z \in Scalar, NEW z0 \in Scalar, NEW A \in Scalar, NEW C \in Scalar,
         NEW c \in Scalar, NEW c0 \in Scalar, c # c0,
         Matches(multBaseG(z0), A, c0, C), Matches(multBaseG(z), A, c, C)
  PROVE  KeyAnswers(baseG, z, z0, A, C, c, c0)
<1>1. baseG \in Scalar
  BY Order DEF Scalar, baseG
<1>2. QED
  BY <1>1 DEF KeyAnswers, multBaseG

(* Pubkey validity: the secret key.                                        *)
LEMMA PubkeyWitness ==
  ASSUME NEW st, NEW A, NEW c \in Scalar, NEW c0 \in Scalar, c # c0, NEW z, NEW z0,
         Answered("pubkey", st, A, c0, z0), z \in Responses("pubkey"),
         Accepts("pubkey", st, A, c, z)
  PROVE  Claim("pubkey", st, Witness(z, z0, c, c0))
<1>1. st.pk \in Scalar
  BY Drawn DEF Answered, Statements
<1>2. DOMAIN z = {1} /\ z[1] \in Scalar /\ z0[1] \in Scalar
  BY DEF Answered, Responses
<1>3. A[1] = Minus(multBaseG(z0[1]), Times(st.pk, c0))
  BY DEF Answered, Simulated
<1>4. A[1] \in Scalar
  <2>1. Stands(multBaseG(z0[1]), z0[1])
    BY <1>2, Itself, BaseMultiples
  <2>2. QED
    BY <1>1, <1>3, <2>1, RestIsAPoint
<1>5. Matches(multBaseG(z0[1]), A[1], c0, st.pk) /\ Matches(multBaseG(z[1]), A[1], c, st.pk)
  BY DEF Answered, Accepts, verifyPubkeyValidity
<1>6. st.pk = multBaseG(Secret(z[1], z0[1], c, c0))
  <2>1. KeyAnswers(baseG, z[1], z0[1], A[1], st.pk, c, c0)
    BY <1>1, <1>2, <1>4, <1>5, BaseAnswers
  <2>2. QED
    BY <2>1, ExtractBase
<1>7. Witness(z, z0, c, c0)[1] = Secret(z[1], z0[1], c, c0)
  BY <1>2 DEF Witness
<1>8. QED
  BY <1>6, <1>7 DEF Claim

(* Zero balance: the randomness of a ciphertext of zero.                   *)
LEMMA ZeroWitness ==
  ASSUME NEW st, NEW A, NEW c \in Scalar, NEW c0 \in Scalar, c # c0, NEW z, NEW z0,
         Answered("zero", st, A, c0, z0), z \in Responses("zero"),
         Accepts("zero", st, A, c, z)
  PROVE  Claim("zero", st, Witness(z, z0, c, c0))
<1>1. st.pk \in Scalar /\ st.ct \in AnyCiphertext
  BY Drawn DEF Answered, Statements
<1>2. /\ st.ct = [c1 |-> st.ct.c1, c2 |-> st.ct.c2]
      /\ st.ct.c1 \in Scalar /\ st.ct.c2 \in Scalar
  BY <1>1, Drawn DEF AnyCiphertext
<1>3. DOMAIN z = {1} /\ z[1] \in Scalar /\ z0[1] \in Scalar
  BY DEF Answered, Responses
<1>4. /\ A[1] = Minus(multBaseG(z0[1]), Times(st.ct.c1, c0))
      /\ A[2] = Minus(Times(st.pk, z0[1]), Times(st.ct.c2, c0))
  BY DEF Answered, Simulated
<1>5. A[1] \in Scalar
  <2>1. Stands(multBaseG(z0[1]), z0[1])
    BY <1>3, Itself, BaseMultiples
  <2>2. QED
    BY <1>2, <1>4, <2>1, RestIsAPoint
<1>6. A[2] \in Scalar
  <2>1. Stands(Times(st.pk, z0[1]), st.pk * z0[1])
    BY <1>1, <1>3, Itself, Multiples
  <2>2. QED
    BY <1>2, <1>4, <2>1, RestIsAPoint
<1>7. Matches(multBaseG(z0[1]), A[1], c0, st.ct.c1) /\ Matches(multBaseG(z[1]), A[1], c, st.ct.c1)
  BY DEF Answered, Accepts, verifyZeroBalance
<1>8. Matches(Times(st.pk, z0[1]), A[2], c0, st.ct.c2) /\ Matches(Times(st.pk, z[1]), A[2], c, st.ct.c2)
  BY DEF Answered, Accepts, verifyZeroBalance
<1> DEFINE w == Secret(z[1], z0[1], c, c0)
<1>9. st.ct.c1 = multBaseG(w)
  <2>1. KeyAnswers(baseG, z[1], z0[1], A[1], st.ct.c1, c, c0)
    BY <1>2, <1>3, <1>5, <1>7, BaseAnswers
  <2>2. QED
    BY <2>1, ExtractBase
<1>10. st.ct.c2 = Times(st.pk, w) /\ w \in Scalar
  <2>1. KeyAnswers(st.pk, z[1], z0[1], A[2], st.ct.c2, c, c0)
    BY <1>1, <1>2, <1>3, <1>6, <1>8 DEF KeyAnswers
  <2>2. QED
    BY <2>1, ExtractKey
<1>11. Witness(z, z0, c, c0)[1] = w
  BY <1>3 DEF Witness
<1>12. pedersenC1(0, w) = multBaseG(w)
  BY <1>10, ZeroCommitment
<1> HIDE DEF w
<1>13. QED
  BY <1>2, <1>9, <1>10, <1>11, <1>12 DEF Claim, Ciphertext

(* Equality: the number in both ciphertexts, and their randomness.         *)
LEMMA EqualityWitness ==
  ASSUME NEW st, NEW A, NEW c \in Scalar, NEW c0 \in Scalar, c # c0, NEW z, NEW z0,
         Answered("equality", st, A, c0, z0), z \in Responses("equality"),
         Accepts("equality", st, A, c, z)
  PROVE  Claim("equality", st, Witness(z, z0, c, c0))
<1>1. /\ st.sourcePk \in Scalar /\ st.destPk \in Scalar /\ H \in Scalar
      /\ st.sourceCt \in AnyCiphertext /\ st.destCt \in AnyCiphertext
  BY Drawn DEF Answered, Statements
<1>2. /\ st.sourceCt = [c1 |-> st.sourceCt.c1, c2 |-> st.sourceCt.c2]
      /\ st.destCt = [c1 |-> st.destCt.c1, c2 |-> st.destCt.c2]
      /\ st.sourceCt.c1 \in Scalar /\ st.sourceCt.c2 \in Scalar
      /\ st.destCt.c1 \in Scalar /\ st.destCt.c2 \in Scalar
  BY <1>1, Drawn DEF AnyCiphertext
<1>3. /\ DOMAIN z = 1 .. 3
      /\ z[1] \in Scalar /\ z[2] \in Scalar /\ z[3] \in Scalar
      /\ z0[1] \in Scalar /\ z0[2] \in Scalar /\ z0[3] \in Scalar
  <2>1. z \in [1 .. 3 -> Scalar] /\ z0 \in [1 .. 3 -> Scalar]
    BY DEF Answered, Responses
  <2>2. 1 \in 1 .. 3 /\ 2 \in 1 .. 3 /\ 3 \in 1 .. 3
    OBVIOUS
  <2>3. QED
    BY <2>1, <2>2
<1>4. /\ A[1] = Minus(Plus(Times(H, z0[1]), multBaseG(z0[2])), Times(st.sourceCt.c1, c0))
      /\ A[2] = Minus(Plus(Times(H, z0[1]), multBaseG(z0[3])), Times(st.destCt.c1, c0))
      /\ A[3] = Minus(Times(st.sourcePk, z0[2]), Times(st.sourceCt.c2, c0))
      /\ A[4] = Minus(Times(st.destPk, z0[3]), Times(st.destCt.c2, c0))
  BY DEF Answered, Simulated
<1>5. /\ Stands(Plus(Times(H, z0[1]), multBaseG(z0[2])), H * z0[1] + z0[2])
      /\ Stands(Plus(Times(H, z0[1]), multBaseG(z0[3])), H * z0[1] + z0[3])
  <2>1. Stands(Times(H, z0[1]), H * z0[1])
    BY <1>1, <1>3, Itself, Multiples
  <2>2. Stands(multBaseG(z0[2]), z0[2]) /\ Stands(multBaseG(z0[3]), z0[3])
    BY <1>3, Itself, BaseMultiples
  <2>3. QED
    BY <2>1, <2>2, Sums
<1>6. A[1] \in Scalar /\ A[2] \in Scalar
  BY <1>2, <1>4, <1>5, RestIsAPoint
<1>7. A[3] \in Scalar /\ A[4] \in Scalar
  <2>1. /\ Stands(Times(st.sourcePk, z0[2]), st.sourcePk * z0[2])
        /\ Stands(Times(st.destPk, z0[3]), st.destPk * z0[3])
    BY <1>1, <1>3, Itself, Multiples
  <2>2. QED
    BY <1>2, <1>4, <2>1, RestIsAPoint
<1>8. verifyEquality(st, A, c0, z0) /\ verifyEquality(st, A, c, z)
  BY DEF Answered, Accepts
<1>9. st.sourceCt.c1 = Plus(Times(H, Secret(z[1], z0[1], c, c0)), multBaseG(Secret(z[2], z0[2], c, c0)))
  <2>1. /\ Matches(Plus(Times(H, z0[1]), multBaseG(z0[2])), A[1], c0, st.sourceCt.c1)
        /\ Matches(Plus(Times(H, z[1]), multBaseG(z[2])), A[1], c, st.sourceCt.c1)
    BY <1>8 DEF verifyEquality
  <2>2. PedersenAnswers(H, z[1], z0[1], z[2], z0[2], A[1], st.sourceCt.c1, c, c0)
    BY <1>1, <1>2, <1>3, <1>6, <2>1 DEF PedersenAnswers
  <2>3. QED
    BY <2>2, ExtractPedersen
<1>10. st.destCt.c1 = Plus(Times(H, Secret(z[1], z0[1], c, c0)), multBaseG(Secret(z[3], z0[3], c, c0)))
  <2>1. /\ Matches(Plus(Times(H, z0[1]), multBaseG(z0[3])), A[2], c0, st.destCt.c1)
        /\ Matches(Plus(Times(H, z[1]), multBaseG(z[3])), A[2], c, st.destCt.c1)
    BY <1>8 DEF verifyEquality
  <2>2. PedersenAnswers(H, z[1], z0[1], z[3], z0[3], A[2], st.destCt.c1, c, c0)
    BY <1>1, <1>2, <1>3, <1>6, <2>1 DEF PedersenAnswers
  <2>3. QED
    BY <2>2, ExtractPedersen
<1>11. st.sourceCt.c2 = Times(st.sourcePk, Secret(z[2], z0[2], c, c0))
  <2>1. /\ Matches(Times(st.sourcePk, z0[2]), A[3], c0, st.sourceCt.c2)
        /\ Matches(Times(st.sourcePk, z[2]), A[3], c, st.sourceCt.c2)
    BY <1>8 DEF verifyEquality
  <2>2. KeyAnswers(st.sourcePk, z[2], z0[2], A[3], st.sourceCt.c2, c, c0)
    BY <1>1, <1>2, <1>3, <1>7, <2>1 DEF KeyAnswers
  <2>3. QED
    BY <2>2, ExtractKey
<1>12. st.destCt.c2 = Times(st.destPk, Secret(z[3], z0[3], c, c0))
  <2>1. /\ Matches(Times(st.destPk, z0[3]), A[4], c0, st.destCt.c2)
        /\ Matches(Times(st.destPk, z[3]), A[4], c, st.destCt.c2)
    BY <1>8 DEF verifyEquality
  <2>2. KeyAnswers(st.destPk, z[3], z0[3], A[4], st.destCt.c2, c, c0)
    BY <1>1, <1>2, <1>3, <1>7, <2>1 DEF KeyAnswers
  <2>3. QED
    BY <2>2, ExtractKey
<1> DEFINE w == Witness(z, z0, c, c0)
<1>13. /\ w[1] = Secret(z[1], z0[1], c, c0)
       /\ w[2] = Secret(z[2], z0[2], c, c0)
       /\ w[3] = Secret(z[3], z0[3], c, c0)
  BY <1>3 DEF Witness
<1> HIDE DEF w
<1>14. /\ st.sourceCt = Ciphertext(st.sourcePk, w[1], w[2])
       /\ st.destCt = Ciphertext(st.destPk, w[1], w[3])
  BY <1>2, <1>9, <1>10, <1>11, <1>12, <1>13 DEF Ciphertext, pedersenC1
<1>15. QED
  BY <1>14 DEF Claim, w

-----------------------------------------------------------------------------
SigmaInv ==
  /\ sigma.step = "answered" =>
       Answered(sigma.kind, sigma.statement, sigma.announcement, sigma.challenge, sigma.response)
  /\ TwoAnswersGiveTheWitness

(***************************************************************************)
(* Whoever answers two challenges for one announcement knows the secrets   *)
(* of the statement, for every prime order and every statement that a      *)
(* verifier of sigma.ts can be shown.                                      *)
(***************************************************************************)
THEOREM Soundness == SigmaSpec => []TwoAnswersGiveTheWitness
<1>1. SigmaInit => SigmaInv
  BY DEF SigmaInit, SigmaInv, TwoAnswersGiveTheWitness
<1>2. ASSUME SigmaInv, [SigmaNext]_sigma
      PROVE  SigmaInv'
  <2>1. CASE proveEquality \/ provePubkeyValidity \/ proveZeroBalance
    <3>1. \E k, st, A, c, z : Proved(k, st, A, c, z)
      <4>1. CASE proveEquality
        BY <4>1 DEF proveEquality
      <4>2. CASE provePubkeyValidity
        BY <4>2, Zenon DEF provePubkeyValidity
      <4>3. CASE proveZeroBalance
        BY <4>3, Zenon DEF proveZeroBalance
      <4>4. QED
        BY <2>1, <4>1, <4>2, <4>3
    <3>2. sigma'.step = "proved"
      BY <3>1 DEF Proved
    <3>3. QED
      BY <3>2 DEF SigmaInv, TwoAnswersGiveTheWitness
  <2>2. CASE FirstAnswer
    <3>1. PICK kind \in {"equality", "pubkey", "zero"} :
            \E st \in Statements(kind), c \in FirstChallenges, z \in Responses(kind) :
              LET A == Simulated(kind, st, c, z)
              IN  /\ Accepts(kind, st, A, c, z)
                  /\ sigma' = [step |-> "answered", kind |-> kind, statement |-> st,
                               announcement |-> A, challenge |-> c, response |-> z]
      BY <2>2, Zenon DEF FirstAnswer
    <3>2. PICK st \in Statements(kind), c \in FirstChallenges, z \in Responses(kind) :
            LET A == Simulated(kind, st, c, z)
            IN  /\ Accepts(kind, st, A, c, z)
                /\ sigma' = [step |-> "answered", kind |-> kind, statement |-> st,
                             announcement |-> A, challenge |-> c, response |-> z]
      BY <3>1, Zenon
    <3>3. PICK A : A = Simulated(kind, st, c, z)
      OBVIOUS
    <3>4. sigma' = [step |-> "answered", kind |-> kind, statement |-> st,
                    announcement |-> A, challenge |-> c, response |-> z]
      BY <3>2, <3>3, Zenon
    <3>5. c \in Scalar
      BY Drawn
    <3>6. Answered(kind, st, A, c, z)
      BY <3>1, <3>2, <3>3, <3>5, Zenon DEF Answered
    <3>7. QED
      BY <3>4, <3>6 DEF SigmaInv, TwoAnswersGiveTheWitness
  <2>3. CASE SecondAnswer
    <3>1. PICK kind, st, A, c0, z0 : /\ kind = sigma.kind /\ st = sigma.statement
                                     /\ A = sigma.announcement /\ c0 = sigma.challenge
                                     /\ z0 = sigma.response
      OBVIOUS
    <3>2. Answered(kind, st, A, c0, z0)
      BY <1>2, <2>3, <3>1 DEF SecondAnswer, SigmaInv
    <3>3. PICK c \in SecondChallenges \ {sigma.challenge}, z \in Responses(sigma.kind) :
            /\ Accepts(sigma.kind, sigma.statement, sigma.announcement, c, z)
            /\ sigma' = [step |-> "answered twice", kind |-> sigma.kind,
                         statement |-> sigma.statement,
                         witness |-> [i \in DOMAIN z |->
                                        Times(Minus(z[i], sigma.response[i]),
                                              invMod(Minus(c, sigma.challenge)))]]
      BY <2>3, Zenon DEF SecondAnswer
    <3>4. c \in Scalar /\ c # c0 /\ z \in Responses(kind) /\ Accepts(kind, st, A, c, z)
      BY <3>1, <3>3, Drawn
    <3>5. c0 \in Scalar /\ kind \in {"equality", "pubkey", "zero"}
      BY <3>2 DEF Answered
    <3>6. Claim(kind, st, Witness(z, z0, c, c0))
      <4>1. CASE kind = "equality"
        BY <3>2, <3>4, <3>5, <4>1, EqualityWitness
      <4>2. CASE kind = "pubkey"
        BY <3>2, <3>4, <3>5, <4>2, PubkeyWitness
      <4>3. CASE kind = "zero"
        BY <3>2, <3>4, <3>5, <4>3, ZeroWitness
      <4>4. QED
        BY <3>5, <4>1, <4>2, <4>3
    <3>7. sigma' = [step |-> "answered twice", kind |-> kind, statement |-> st,
                    witness |-> Witness(z, z0, c, c0)]
      BY <3>1, <3>3, Zenon DEF Witness, Secret, inverse
    <3>8. QED
      BY <3>6, <3>7 DEF SigmaInv, TwoAnswersGiveTheWitness
  <2>4. CASE UNCHANGED sigma
    BY <1>2, <2>4 DEF SigmaInv, TwoAnswersGiveTheWitness
  <2>5. QED
    BY <1>2, <2>1, <2>2, <2>3, <2>4 DEF SigmaNext
<1>3. SigmaInv => TwoAnswersGiveTheWitness
  BY DEF SigmaInv
<1>4. QED
  BY <1>1, <1>2, <1>3, PTL DEF SigmaSpec

-----------------------------------------------------------------------------
(***************************************************************************)
(* invScalar.  It is a power of its argument, by squaring; that the power  *)
(* is an inverse is Fermat's little theorem: multiplying all the scalars   *)
(* but zero by one of them permutes them, so their product stays.          *)
(***************************************************************************)
Units == Scalar \ {0}

(* Times is commutative and associative, with one, and without zero        *)
(* divisors.                                                               *)
LEMMA TimesIsAGroup ==
  ASSUME NEW a \in Scalar, NEW b \in Scalar, NEW c \in Scalar
  PROVE  /\ Times(a, b) \in Scalar
         /\ Times(a, b) = Times(b, a)
         /\ Times(Times(a, b), c) = Times(a, Times(b, c))
<1>1. Stands(a, a) /\ Stands(b, b) /\ Stands(c, c)
  BY Itself
<1>2. a \in Int /\ b \in Int /\ c \in Int
  BY DEF Scalar
<1>3. Stands(Times(a, b), a * b) /\ Stands(Times(b, a), b * a) /\ Stands(Times(b, c), b * c)
  BY <1>1, Multiples
<1>4. Stands(Times(Times(a, b), c), (a * b) * c) /\ Stands(Times(a, Times(b, c)), a * (b * c))
  BY <1>1, <1>3, Multiples
<1>5. a * b = b * a /\ (a * b) * c = a * (b * c)
  BY <1>2
<1>6. QED
  BY <1>3, <1>4, <1>5, SamePoint, InScalar

(* One is neutral.                                                         *)
LEMMA TimesOne ==
  ASSUME NEW a \in Scalar
  PROVE  1 \in Scalar /\ Times(a, 1) = a /\ Times(1, a) = a
<1>1. 1 \in Scalar
  BY Order DEF Scalar
<1>2. a * 1 = a /\ 1 * a = a
  BY DEF Scalar
<1>3. QED
  BY <1>1, <1>2, Itself DEF Times

(* Every scalar but zero has an inverse, the one of invMod.                *)
LEMMA UnitsHaveInverses ==
  ASSUME NEW a \in Units
  PROVE  \E i \in Scalar : Times(a, i) = 1
<1>1. a \in Scalar /\ a # 0
  BY DEF Units
<1>2. PICK i \in Int : Stands(invMod(a), i) /\ Stands(1, a * i)
  BY <1>1, InverseOf
<1>3. Stands(Times(a, invMod(a)), a * i)
  BY <1>1, <1>2, Itself, Multiples
<1>4. QED
  BY <1>2, <1>3, SamePoint, InScalar

(* A unit cancels.                                                         *)
LEMMA CancelUnit ==
  ASSUME NEW a \in Scalar, NEW b \in Scalar, NEW c \in Units, Times(a, c) = Times(b, c)
  PROVE  a = b
<1>1. PICK i \in Scalar : Times(c, i) = 1
  BY UnitsHaveInverses
<1>2. c \in Scalar
  BY DEF Units
<1>3. Times(Times(a, c), i) = a
  BY <1>1, <1>2, TimesIsAGroup, TimesOne
<1>4. Times(Times(b, c), i) = b
  BY <1>1, <1>2, TimesIsAGroup, TimesOne
<1>5. QED
  BY <1>3, <1>4

(* There are no divisors of zero.                                          *)
LEMMA UnitsMultiply ==
  ASSUME NEW a \in Units, NEW b \in Units
  PROVE  Times(a, b) \in Units
<1>1. a \in Scalar /\ b \in Scalar /\ 0 \in Scalar
  BY Order DEF Scalar, Units
<1>2. Times(0, b) = 0
  <2>1. 0 * b = 0
    BY <1>1 DEF Scalar
  <2>2. QED
    BY <1>1, <2>1, Itself DEF Times
<1>3. Times(a, b) # 0
  <2>1. SUFFICES ASSUME Times(a, b) = 0 PROVE FALSE
    OBVIOUS
  <2>2. a = 0
    BY <1>1, <1>2, <2>1, CancelUnit
  <2>3. QED
    BY <2>2 DEF Units
<1>4. QED
  BY <1>1, <1>3, TimesIsAGroup DEF Units

-----------------------------------------------------------------------------
(* The powers of a scalar.                                                 *)
ArePowers(p, b) == p \in [Nat -> Scalar] /\ p[0] = 1 /\ \A n \in Nat : p[n + 1] = Times(p[n], b)

PowerBody(b) ==
  [g \in [Nat -> Scalar] |-> [n \in Nat |-> IF n = 0 THEN 1 ELSE Times(g[n - 1], b)]]

(* The powers of a scalar, by recursion on the exponent.                   *)
LEMMA PowersExist ==
  ASSUME NEW b \in Scalar
  PROVE  \E p : ArePowers(p, b)
<1> DEFINE B == PowerBody(b)
<1>1. ASSUME NEW g \in [Nat -> Scalar]
      PROVE  B[g] = [n \in Nat |-> IF n = 0 THEN 1 ELSE Times(g[n - 1], b)]
  BY DEF PowerBody
<1>2. ASSUME NEW g \in [Nat -> Scalar]
      PROVE  B[g] \in [Nat -> Scalar]
  <2>1. ASSUME NEW n \in Nat
        PROVE  (IF n = 0 THEN 1 ELSE Times(g[n - 1], b)) \in Scalar
    <3>1. CASE n = 0
      BY <3>1, TimesOne
    <3>2. CASE n # 0
      <4>1. n - 1 \in Nat
        BY <3>2
      <4>2. g[n - 1] \in Scalar
        BY <4>1
      <4>3. QED
        BY <3>2, <4>2, TimesIsAGroup
    <3>3. QED
      BY <3>1, <3>2
  <2>2. [n \in Nat |-> IF n = 0 THEN 1 ELSE Times(g[n - 1], b)] \in [Nat -> Scalar]
    BY <2>1
  <2>3. QED
    BY <1>1, <2>2, Zenon
<1>3. B \in [[Nat -> Scalar] -> [Nat -> Scalar]]
  BY <1>2 DEF PowerBody
<1> HIDE DEF B
<1>4. ASSUME NEW g \in [Nat -> Scalar], NEW h \in [Nat -> Scalar], NEW n \in Nat,
             \A m \in Nat : m < n => g[m] = h[m]
      PROVE  B[g][n] = B[h][n]
  <2>1. B[g] = [r \in Nat |-> IF r = 0 THEN 1 ELSE Times(g[r - 1], b)]
    BY <1>1, Zenon
  <2>2. B[h] = [r \in Nat |-> IF r = 0 THEN 1 ELSE Times(h[r - 1], b)]
    BY <1>1, Zenon
  <2>3. CASE n = 0
    BY <2>1, <2>2, <2>3
  <2>4. CASE n # 0
    <3>1. g[n - 1] = h[n - 1]
      BY <1>4, <2>4
    <3>2. QED
      BY <2>1, <2>2, <2>4, <3>1
  <2>5. QED
    BY <2>3, <2>4
<1>5. RecursiveOnNat(Scalar, B)
  <2>1. Scalar # {}
    BY TimesOne
  <2>2. QED
    BY <1>3, <1>4, <2>1, Zenon DEF RecursiveOnNat
<1>6. PICK p \in [Nat -> Scalar] : \A n \in Nat : p[n] = B[p][n]
  BY <1>5, RecursionOnNat
<1>7. B[p] = [r \in Nat |-> IF r = 0 THEN 1 ELSE Times(p[r - 1], b)]
  BY <1>1, Zenon
<1>8. p[0] = 1
  BY <1>6, <1>7
<1>9. ASSUME NEW n \in Nat
      PROVE  p[n + 1] = Times(p[n], b)
  <2>1. n + 1 \in Nat /\ n + 1 # 0 /\ (n + 1) - 1 = n
    OBVIOUS
  <2>2. QED
    BY <1>6, <1>7, <2>1
<1>10. QED
  BY <1>8, <1>9 DEF ArePowers

Powers(b) == CHOOSE p : ArePowers(p, b)

(* What the powers are known by.                                           *)
LEMMA PowersOf ==
  ASSUME NEW b \in Scalar
  PROVE  /\ Powers(b) \in [Nat -> Scalar]
         /\ Powers(b)[0] = 1
         /\ \A n \in Nat : Powers(b)[n + 1] = Times(Powers(b)[n], b)
BY PowersExist DEF Powers, ArePowers

(* The powers of a square are every second power.                          *)
LEMMA PowersOfSquare ==
  ASSUME NEW b \in Scalar, NEW n \in Nat
  PROVE  Powers(Times(b, b))[n] = Powers(b)[2 * n]
<1> DEFINE p == Powers(b)
           s == Powers(Times(b, b))
           P == {m \in Nat : s[m] = p[2 * m]}
<1>1. Times(b, b) \in Scalar
  BY TimesIsAGroup
<1>2. p \in [Nat -> Scalar] /\ p[0] = 1 /\ \A m \in Nat : p[m + 1] = Times(p[m], b)
  BY PowersOf
<1>3. s \in [Nat -> Scalar] /\ s[0] = 1 /\ \A m \in Nat : s[m + 1] = Times(s[m], Times(b, b))
  BY <1>1, PowersOf
<1> HIDE DEF p, s
<1>4. 0 \in P
  <2>1. 2 * 0 = 0
    OBVIOUS
  <2>2. QED
    BY <1>2, <1>3, <2>1
<1>5. ASSUME NEW m \in Nat, m \in P
      PROVE  m + 1 \in P
  <2>1. PICK k \in Nat : k = 2 * m
    OBVIOUS
  <2>2. 2 * (m + 1) = (k + 1) + 1 /\ k + 1 \in Nat
    BY <2>1
  <2>3. p[(k + 1) + 1] = Times(Times(p[k], b), b)
    BY <1>2, <2>2
  <2>4. s[m + 1] = Times(p[k], Times(b, b))
    BY <1>3, <1>5, <2>1
  <2>5. p[k] \in Scalar
    BY <1>2
  <2>6. s[m + 1] = p[(k + 1) + 1]
    BY <2>3, <2>4, <2>5, TimesIsAGroup
  <2>7. QED
    BY <2>2, <2>6
<1> HIDE DEF P
<1>6. Nat \subseteq P
  BY <1>4, <1>5, NatInductionOnSets
<1>7. QED
  BY <1>6 DEF P, p, s

-----------------------------------------------------------------------------
(***************************************************************************)
(* The product of a set of units does not depend on the order of its       *)
(* factors.                                                                *)
(***************************************************************************)
Factor(T) == CHOOSE x \in T : TRUE

UnitSets == SUBSET Units

ProductBody ==
  [g \in [UnitSets -> Units] |->
    [T \in UnitSets |-> IF T = {} THEN 1 ELSE Times(Factor(T), g[T \ {Factor(T)}])]]

AreProducts(g) ==
  /\ g \in [UnitSets -> Units]
  /\ g[{}] = 1
  /\ \A T \in UnitSets : \A x \in T : g[T] = Times(x, g[T \ {x}])

(* There are as many units as the order has predecessors but zero.         *)
LEMMA UnitsAreFinite ==
  /\ IsFiniteSet(Units)
  /\ Cardinality(Units) = Q - 1
  /\ 1 \in Units
<1>1. Units = 1 .. Q - 1
  BY Order DEF Units, Scalar
<1>2. IsFiniteSet(1 .. Q - 1) /\ Cardinality(1 .. Q - 1) = Q - 1
  BY Order, FS_Interval
<1>3. QED
  BY <1>1, <1>2, Order

(* Products of sets of units, whichever factor is taken first.             *)
LEMMA ProductsExist == \E g : AreProducts(g)
<1> DEFINE B == ProductBody
           D == UnitSets
<1>1. ASSUME NEW g \in [D -> Units]
      PROVE  B[g] = [T \in D |-> IF T = {} THEN 1 ELSE Times(Factor(T), g[T \ {Factor(T)}])]
  BY DEF ProductBody
<1>2. ASSUME NEW T \in D, T # {}
      PROVE  Factor(T) \in T /\ Factor(T) \in Units /\ T \ {Factor(T)} \in D /\ T \ {Factor(T)} # T
  BY <1>2 DEF Factor, UnitSets
<1>3. ASSUME NEW g \in [D -> Units]
      PROVE  B[g] \in [D -> Units]
  <2>1. ASSUME NEW T \in D
        PROVE  (IF T = {} THEN 1 ELSE Times(Factor(T), g[T \ {Factor(T)}])) \in Units
    <3>1. CASE T = {}
      BY <3>1, UnitsAreFinite
    <3>2. CASE T # {}
      <4>1. Factor(T) \in Units /\ g[T \ {Factor(T)}] \in Units
        BY <1>2, <3>2
      <4>2. QED
        BY <3>2, <4>1, UnitsMultiply
    <3>3. QED
      BY <3>1, <3>2
  <2>2. [T \in D |-> IF T = {} THEN 1 ELSE Times(Factor(T), g[T \ {Factor(T)}])] \in [D -> Units]
    BY <2>1
  <2>3. QED
    BY <1>1, <2>2, Zenon
<1>4. B \in [[D -> Units] -> [D -> Units]]
  BY <1>3 DEF ProductBody
<1>0. D = SUBSET Units
  BY DEF UnitSets
<1> HIDE DEF B, D
<1>5. ASSUME NEW g \in [D -> Units], NEW h \in [D -> Units], NEW T \in D,
             \A U \in D : U \subseteq T /\ U # T => g[U] = h[U]
      PROVE  B[g][T] = B[h][T]
  <2>1. B[g] = [r \in D |-> IF r = {} THEN 1 ELSE Times(Factor(r), g[r \ {Factor(r)}])]
    BY <1>1, Zenon
  <2>2. B[h] = [r \in D |-> IF r = {} THEN 1 ELSE Times(Factor(r), h[r \ {Factor(r)}])]
    BY <1>1, Zenon
  <2>3. CASE T = {}
    BY <2>1, <2>2, <2>3
  <2>4. CASE T # {}
    <3>1. g[T \ {Factor(T)}] = h[T \ {Factor(T)}]
      BY <1>2, <1>5, <2>4
    <3>2. QED
      BY <2>1, <2>2, <2>4, <3>1
  <2>5. QED
    BY <2>3, <2>4
<1>6. RecursiveOnSubsets(Units, D, Units, B)
  <2>1. Units # {}
    BY UnitsAreFinite
  <2>2. QED
    BY <1>0, <1>4, <1>5, <2>1, Zenon DEF RecursiveOnSubsets
<1>7. \E g \in [D -> Units] : \A T \in D : g[T] = B[g][T]
  BY <1>6, UnitsAreFinite, RecursionOnSubsets
<1>8. PICK g \in [D -> Units] : \A T \in D : g[T] = B[g][T]
  BY <1>7
<1>9. B[g] = [r \in D |-> IF r = {} THEN 1 ELSE Times(Factor(r), g[r \ {Factor(r)}])]
  BY <1>1, Zenon
<1>10. g[{}] = 1
  <2>1. {} \in D
    BY <1>0
  <2>2. QED
    BY <1>8, <1>9, <2>1
<1>11. \A T \in D : T # {} => g[T] = Times(Factor(T), g[T \ {Factor(T)}])
  BY <1>8, <1>9
<1> DEFINE P == {T \in D : \A x \in T : g[T] = Times(x, g[T \ {x}])}
<1>12. ASSUME NEW T, T \subseteq Units, \A x \in T : T \ {x} \in P
       PROVE  T \in P
  <2>1. SUFFICES ASSUME NEW x \in T PROVE g[T] = Times(x, g[T \ {x}])
    BY <1>0, <1>12
  <2>2. PICK c \in T : c = Factor(T)
    BY <1>0, <1>2, <1>12
  <2>3. g[T] = Times(c, g[T \ {c}])
    BY <1>0, <1>11, <1>12, <2>2
  <2>4. CASE x = c
    BY <2>3, <2>4
  <2>5. CASE x # c
    <3>1. PICK U \in D : U = (T \ {c}) \ {x}
      BY <1>0, <1>12
    <3>2. (T \ {x}) \ {c} = U
      BY <3>1
    <3>3. g[T \ {c}] = Times(x, g[U])
      BY <1>12, <2>5, <3>1
    <3>4. g[T \ {x}] = Times(c, g[U])
      BY <1>12, <2>5, <3>2
    <3>5. x \in Scalar /\ c \in Scalar /\ g[U] \in Scalar
      BY <1>12, <1>8 DEF Units
    <3>6. Times(c, Times(x, g[U])) = Times(x, Times(c, g[U]))
      <4>1. Times(c, Times(x, g[U])) = Times(Times(c, x), g[U])
        BY <3>5, TimesIsAGroup
      <4>2. Times(x, Times(c, g[U])) = Times(Times(x, c), g[U])
        BY <3>5, TimesIsAGroup
      <4>3. QED
        BY <3>5, <4>1, <4>2, TimesIsAGroup
    <3>7. QED
      BY <2>3, <3>3, <3>4, <3>6
  <2>6. QED
    BY <2>4, <2>5
<1> HIDE DEF P
<1>13. \A T : T \subseteq Units => T \in P
  BY <1>12, UnitsAreFinite, FiniteInductionOnSets
<1>14. \A T \in D : \A x \in T : g[T] = Times(x, g[T \ {x}])
  BY <1>0, <1>13 DEF P
<1>15. QED
  BY <1>8, <1>10, <1>14 DEF AreProducts, D

-----------------------------------------------------------------------------
(* Fermat's little theorem.                                                *)
Image(b, T) == {Times(b, x) : x \in T}

(* Multiplying by a unit permutes the units.                               *)
LEMMA ImageIsWhole ==
  ASSUME NEW b \in Units
  PROVE  Image(b, Units) = Units
<1>1. PICK i \in Scalar : Times(b, i) = 1
  BY UnitsHaveInverses
<1>2. ASSUME NEW y \in Units
      PROVE  y \in Image(b, Units)
  <2>1. y \in Scalar /\ b \in Scalar /\ y # 0 /\ 0 \in Scalar
    BY Order DEF Units, Scalar
  <2>2. PICK x \in Scalar : x = Times(i, y)
    BY <2>1, TimesIsAGroup
  <2>3. Times(b, x) = y
    BY <1>1, <2>1, <2>2, TimesIsAGroup, TimesOne
  <2>4. x # 0
    <3>1. Times(b, 0) = 0
      <4>1. b * 0 = 0
        BY <2>1 DEF Scalar
      <4>2. QED
        BY <2>1, <4>1, Itself DEF Times
    <3>2. QED
      BY <2>1, <2>3, <3>1
  <2>5. QED
    BY <2>3, <2>4 DEF Units, Image
<1>3. Image(b, Units) \subseteq Units
  BY UnitsMultiply DEF Image
<1>4. QED
  BY <1>2, <1>3

(* The product of the multiples is a power times the product.              *)
LEMMA ProductOfImage ==
  ASSUME NEW b \in Units, NEW g, AreProducts(g), NEW T \in UnitSets
  PROVE  g[Image(b, T)] = Times(Powers(b)[Cardinality(T)], g[T])
<1> DEFINE p == Powers(b)
           P == {U \in UnitSets : g[Image(b, U)] = Times(p[Cardinality(U)], g[U])}
<1>1. b \in Scalar /\ 1 \in Scalar
  BY TimesOne DEF Units
<1>2. p \in [Nat -> Scalar] /\ p[0] = 1 /\ \A n \in Nat : p[n + 1] = Times(p[n], b)
  BY <1>1, PowersOf
<1>3. /\ \A U \in UnitSets : g[U] \in Units /\ g[U] \in Scalar
      /\ g[{}] = 1
      /\ \A U \in UnitSets : \A x \in U : g[U] = Times(x, g[U \ {x}])
  BY DEF AreProducts, Units
<1>4. \A U \in UnitSets : Image(b, U) \in UnitSets
  BY UnitsMultiply DEF Image, UnitSets
<1> HIDE DEF p
<1>5. ASSUME NEW U, U \subseteq Units, \A x \in U : U \ {x} \in P
      PROVE  U \in P
  <2>1. U \in UnitSets
    BY <1>5 DEF UnitSets
  <2>2. CASE U = {}
    <3>1. Image(b, U) = {} /\ Cardinality(U) = 0
      BY <2>2, FS_EmptySet DEF Image
    <3>2. Times(1, 1) = 1
      BY <1>1, TimesOne
    <3>3. QED
      BY <1>2, <1>3, <2>1, <2>2, <3>1, <3>2
  <2>3. CASE U # {}
    <3>1. PICK x \in U : TRUE
      BY <2>3
    <3>2. PICK V \in UnitSets : V = U \ {x}
      BY <2>1 DEF UnitSets
    <3>3. x \in Units /\ x \in Scalar
      BY <1>5 DEF Units
    <3>4. PICK y \in Scalar : y = Times(b, x)
      BY <1>1, <3>3, TimesIsAGroup
    <3>5. Image(b, U) \ {y} = Image(b, V)
      <4>1. ASSUME NEW z \in U, Times(b, z) = y
            PROVE  z = x
        <5>1. z \in Scalar
          BY <1>5 DEF Units
        <5>2. Times(z, b) = Times(x, b)
          BY <1>1, <3>3, <3>4, <4>1, <5>1, TimesIsAGroup
        <5>3. QED
          BY <3>3, <5>1, <5>2, CancelUnit
      <4>2. QED
        BY <3>2, <3>4, <4>1 DEF Image
    <3>6. y \in Image(b, U)
      BY <3>4 DEF Image
    <3>7. g[Image(b, U)] = Times(y, g[Image(b, V)])
      BY <1>3, <1>4, <2>1, <3>5, <3>6
    <3>8. PICK n \in Nat : Cardinality(V) = n /\ Cardinality(U) = n + 1
      <4>1. IsFiniteSet(U)
        BY <1>5, UnitsAreFinite, FS_Subset
      <4>2. Cardinality(V) = Cardinality(U) - 1 /\ IsFiniteSet(V)
        BY <3>2, <4>1, FS_RemoveElement
      <4>3. Cardinality(V) \in Nat /\ Cardinality(U) \in Nat
        BY <4>1, <4>2, FS_CardinalityType
      <4>4. QED
        BY <4>2, <4>3
    <3>9. g[Image(b, V)] = Times(p[n], g[V])
      BY <1>5, <3>2, <3>8
    <3>10. g[U] = Times(x, g[V])
      BY <1>3, <2>1, <3>2
    <3>11. p[n + 1] = Times(p[n], b) /\ p[n] \in Scalar /\ g[V] \in Scalar
      BY <1>2, <1>3
    <3>12. PICK c \in Scalar, d \in Scalar : c = p[n] /\ d = g[V]
      BY <3>11
    <3>13. Times(Times(b, x), Times(c, d)) = Times(Times(c, b), Times(x, d))
      <4>1. Times(b, x) \in Scalar /\ Times(c, b) \in Scalar
        BY <1>1, <3>3, TimesIsAGroup
      <4>2. Times(Times(b, x), Times(c, d)) = Times(Times(Times(b, x), c), d)
        BY <4>1, TimesIsAGroup
      <4>3. Times(Times(c, b), Times(x, d)) = Times(Times(Times(c, b), x), d)
        BY <3>3, <4>1, TimesIsAGroup
      <4>4. Times(Times(b, x), c) = Times(Times(c, b), x)
        <5>1. Times(Times(b, x), c) = Times(c, Times(b, x))
          BY <4>1, TimesIsAGroup
        <5>2. Times(Times(c, b), x) = Times(c, Times(b, x))
          BY <1>1, <3>3, TimesIsAGroup
        <5>3. QED
          BY <5>1, <5>2
      <4>5. QED
        BY <4>2, <4>3, <4>4
    <3>14. g[Image(b, U)] = Times(p[n + 1], g[U])
      BY <3>4, <3>7, <3>9, <3>10, <3>11, <3>12, <3>13
    <3>15. QED
      BY <2>1, <3>8, <3>14
  <2>4. QED
    BY <2>2, <2>3
<1> HIDE DEF P
<1>6. \A U : U \subseteq Units => U \in P
  BY <1>5, UnitsAreFinite, FiniteInductionOnSets
<1>7. QED
  BY <1>6 DEF P, p, UnitSets

(* The power that invScalar computes, times its base, is one.              *)
LEMMA Fermat ==
  ASSUME NEW b \in Units
  PROVE  Powers(b)[Q - 1] = 1
<1>1. PICK g : AreProducts(g)
  BY ProductsExist
<1>2. Units \in UnitSets
  BY DEF UnitSets
<1>3. PICK c \in Units : c = g[Units]
  BY <1>1, <1>2 DEF AreProducts
<1>4. PICK d \in Scalar : d = Powers(b)[Q - 1]
  <2>1. Q - 1 \in Nat
    BY Order
  <2>2. QED
    BY <2>1, PowersOf DEF Units
<1>5. c = Times(d, c)
  BY <1>1, <1>2, <1>3, <1>4, ProductOfImage, ImageIsWhole, UnitsAreFinite
<1>6. Times(1, c) = c /\ 1 \in Scalar
  BY TimesOne DEF Units
<1>7. QED
  BY <1>4, <1>5, <1>6, CancelUnit

-----------------------------------------------------------------------------
(***************************************************************************)
(* Squaring and multiplying.  The result times the base to what is left of *)
(* the exponent is the power asked for.                                    *)
(***************************************************************************)
PowerStates == Nat \X Scalar \X Scalar

SquareStep(t) ==
  <<t[1] \div 2, Times(t[2], t[2]), IF t[1] % 2 = 1 THEN Times(t[3], t[2]) ELSE t[3]>>

SquareBody ==
  [g \in [PowerStates -> Scalar] |->
    [t \in PowerStates |-> IF t[1] = 0 THEN t[3] ELSE g[SquareStep(t)]]]

(* The exponent falls.                                                     *)
LEMMA SquareStepFalls ==
  ASSUME NEW t \in PowerStates, t[1] # 0
  PROVE  /\ SquareStep(t) \in PowerStates
         /\ SquareStep(t)[1] < t[1]
<1>1. PICK e \in Nat, b \in Scalar, r \in Scalar : t = <<e, b, r>>
  BY DEF PowerStates
<1>2. e \div 2 \in Nat /\ e \div 2 < e
  <2>1. e # 0
    BY <1>1
  <2>2. QED
    BY <2>1
<1>3. Times(b, b) \in Scalar /\ Times(r, b) \in Scalar
  BY TimesIsAGroup
<1>4. PICK d \in Nat, c \in Scalar, s \in Scalar :
        d = e \div 2 /\ c = Times(b, b) /\ s = (IF e % 2 = 1 THEN Times(r, b) ELSE r)
  BY <1>2, <1>3
<1>5. SquareStep(t) = <<d, c, s>>
  BY <1>1, <1>4 DEF SquareStep
<1>6. d < e
  BY <1>2, <1>4
<1>7. QED
  BY <1>1, <1>5, <1>6 DEF PowerStates

(* The loop of invScalar, as the recursive function says it.               *)
LEMMA SquareMultiplyEquation ==
  ASSUME NEW t \in PowerStates
  PROVE  SquareMultiply[t] = IF t[1] = 0 THEN t[3] ELSE SquareMultiply[SquareStep(t)]
<1> DEFINE S == PowerStates
           measure == [s \in S |-> s[1]]
           B == SquareBody
           F == SquareMultiply
<1>1. measure \in [S -> Nat]
  BY DEF PowerStates
<1>2. ASSUME NEW g \in [S -> Scalar]
      PROVE  B[g] = [s \in S |-> IF s[1] = 0 THEN s[3] ELSE g[SquareStep(s)]]
  BY DEF SquareBody
<1>3. ASSUME NEW g \in [S -> Scalar]
      PROVE  B[g] \in [S -> Scalar]
  <2>1. ASSUME NEW s \in S
        PROVE  (IF s[1] = 0 THEN s[3] ELSE g[SquareStep(s)]) \in Scalar
    <3>1. CASE s[1] = 0
      BY <3>1 DEF PowerStates
    <3>2. CASE s[1] # 0
      <4>1. SquareStep(s) \in S
        BY <3>2, SquareStepFalls
      <4>2. QED
        BY <3>2, <4>1
    <3>3. QED
      BY <3>1, <3>2
  <2>2. [s \in S |-> IF s[1] = 0 THEN s[3] ELSE g[SquareStep(s)]] \in [S -> Scalar]
    BY <2>1
  <2>3. QED
    BY <1>2, <2>2, Zenon
<1>4. B \in [[S -> Scalar] -> [S -> Scalar]]
  BY <1>3 DEF SquareBody
<1>0. \A s \in S : s[1] # 0 => SquareStep(s) \in S /\ measure[SquareStep(s)] < measure[s]
  BY SquareStepFalls
<1> HIDE DEF S, measure, B
<1>5. ASSUME NEW g \in [S -> Scalar], NEW h \in [S -> Scalar], NEW s \in S,
             \A r \in S : measure[r] < measure[s] => g[r] = h[r]
      PROVE  B[g][s] = B[h][s]
  <2>1. /\ B[g][s] = IF s[1] = 0 THEN s[3] ELSE g[SquareStep(s)]
        /\ B[h][s] = IF s[1] = 0 THEN s[3] ELSE h[SquareStep(s)]
    <3>1. B[g] = [r \in S |-> IF r[1] = 0 THEN r[3] ELSE g[SquareStep(r)]]
      BY <1>2, Zenon
    <3>2. B[h] = [r \in S |-> IF r[1] = 0 THEN r[3] ELSE h[SquareStep(r)]]
      BY <1>2, Zenon
    <3>3. QED
      BY <3>1, <3>2
  <2>2. CASE s[1] = 0
    BY <2>1, <2>2
  <2>3. CASE s[1] # 0
    <3>1. g[SquareStep(s)] = h[SquareStep(s)]
      BY <1>0, <1>5, <2>3
    <3>2. QED
      BY <2>1, <2>3, <3>1
  <2>4. QED
    BY <2>2, <2>3
<1>6. RecursiveByMeasure(S, measure, Scalar, B)
  <2>1. Scalar # {}
    BY Order DEF Scalar
  <2>2. QED
    BY <1>1, <1>4, <1>5, <2>1, Zenon DEF RecursiveByMeasure
<1>7. \E g \in [S -> Scalar] : \A s \in S : g[s] = B[g][s]
  BY <1>6, RecursionByMeasure
<1>8. PICK g \in [S -> Scalar] : \A s \in S : g[s] = B[g][s]
  BY <1>7
<1>9. g = [s \in S |-> IF s[1] = 0 THEN s[3] ELSE g[SquareStep(s)]]
  BY <1>2, <1>8
<1>10. F = CHOOSE f : f = [s \in S |-> IF s[1] = 0 THEN s[3] ELSE f[SquareStep(s)]]
  BY Zenon DEF SquareMultiply, SquareStep, PowerStates, S
<1> HIDE DEF F
<1>11. F = [s \in S |-> IF s[1] = 0 THEN s[3] ELSE F[SquareStep(s)]]
  BY <1>9, <1>10, Zenon
<1>12. QED
  BY <1>11 DEF F, S

(* The loop computes the power.                                            *)
LEMMA SquareMultiplyIsPower ==
  ASSUME NEW t \in PowerStates
  PROVE  SquareMultiply[t] = Times(t[3], Powers(t[2])[t[1]])
<1> DEFINE measure == [s \in PowerStates |-> s[1]]
           P == {s \in PowerStates : SquareMultiply[s] = Times(s[3], Powers(s[2])[s[1]])}
<1>1. measure \in [PowerStates -> Nat]
  BY DEF PowerStates
<1>2. ASSUME NEW s \in PowerStates, \A r \in PowerStates : measure[r] < measure[s] => r \in P
      PROVE  s \in P
  <2>1. PICK e \in Nat, b \in Scalar, r \in Scalar : s = <<e, b, r>>
    BY DEF PowerStates
  <2>2. s[1] = e /\ s[2] = b /\ s[3] = r
    BY <2>1
  <2>3. CASE e = 0
    <3>1. SquareMultiply[s] = r
      BY <2>2, <2>3, SquareMultiplyEquation
    <3>2. Powers(b)[0] = 1 /\ Times(r, 1) = r
      BY PowersOf, TimesOne
    <3>3. QED
      BY <2>2, <2>3, <3>1, <3>2
  <2>4. CASE e # 0
    <3>1. SquareStep(s) \in PowerStates /\ SquareStep(s)[1] < s[1]
      BY <2>2, <2>4, SquareStepFalls
    <3>2. SquareStep(s) \in P
      BY <1>2, <3>1
    <3>3. SquareMultiply[s] = SquareMultiply[SquareStep(s)]
      BY <2>2, <2>4, SquareMultiplyEquation
    <3>4. PICK d \in Nat : d = e \div 2
      OBVIOUS
    <3>5. PICK q \in Scalar : q = Powers(b)[2 * d]
      <4>1. 2 * d \in Nat
        OBVIOUS
      <4>2. QED
        BY <4>1, PowersOf
    <3>6. Powers(Times(b, b))[d] = q
      BY <3>5, PowersOfSquare
    <3>7. CASE e % 2 = 1
      <4>1. e = 2 * d + 1
        BY <3>4, <3>7
      <4>2. SquareStep(s) = <<d, Times(b, b), Times(r, b)>>
        BY <2>2, <3>4, <3>7 DEF SquareStep
      <4>3. SquareMultiply[SquareStep(s)] = Times(Times(r, b), q)
        BY <3>2, <3>6, <4>2
      <4>4. Powers(b)[e] = Times(q, b)
        <5>1. PICK k \in Nat : k = 2 * d
          OBVIOUS
        <5>2. e = k + 1
          BY <4>1, <5>1
        <5>3. QED
          BY <3>5, <5>1, <5>2, PowersOf
      <4>5. Times(Times(r, b), q) = Times(r, Times(q, b))
        BY TimesIsAGroup
      <4>6. QED
        BY <2>2, <3>3, <4>3, <4>4, <4>5
    <3>8. CASE e % 2 # 1
      <4>1. e = 2 * d
        BY <3>4, <3>8
      <4>2. SquareStep(s) = <<d, Times(b, b), r>>
        BY <2>2, <3>4, <3>8 DEF SquareStep
      <4>3. SquareMultiply[SquareStep(s)] = Times(r, q)
        BY <3>2, <3>6, <4>2
      <4>4. QED
        BY <2>2, <3>3, <3>5, <4>1, <4>3
    <3>9. QED
      BY <3>7, <3>8
  <2>5. QED
    BY <2>3, <2>4
<1> HIDE DEF P, measure
<1>3. PowerStates \subseteq P
  BY <1>1, <1>2, MeasureInduction
<1>4. QED
  BY <1>3 DEF P

(* invScalar inverts every scalar but zero.                                *)
LEMMA PowersAreInverses ==
  ASSUME NEW b \in Units
  PROVE  invScalar(b) \in Scalar /\ Times(b, invScalar(b)) = 1
<1>1. b \in Scalar /\ 1 \in Scalar
  BY TimesOne DEF Units
<1>2. b % Q = b
  BY <1>1, Itself
<1>3. PICK n \in Nat : n = Q - 2
  BY Order
<1>4. PICK p \in Scalar : p = Powers(b)[n]
  BY <1>1, PowersOf
<1>5. <<n, b, 1>> \in PowerStates
  BY <1>1 DEF PowerStates
<1>6. SquareMultiply[<<n, b, 1>>] = Times(1, p)
  BY <1>4, <1>5, SquareMultiplyIsPower
<1>7. invScalar(b) = p
  BY <1>2, <1>3, <1>4, <1>6, TimesOne DEF invScalar
<1>8. Times(p, b) = 1
  <2>1. Powers(b)[n + 1] = Times(p, b)
    BY <1>1, <1>4, PowersOf
  <2>2. n + 1 = Q - 1
    BY <1>3, Order
  <2>3. QED
    BY <2>1, <2>2, Fermat
<1>9. QED
  BY <1>1, <1>4, <1>7, <1>8, TimesIsAGroup

(* What the rounds need of it.                                             *)
THEOREM InverseByPower ==
  ASSUME NEW u \in Scalar, u # 0
  PROVE  \E i \in Int : Stands(invScalar(u), i) /\ Stands(1, u * i)
<1>1. u \in Units
  BY DEF Units
<1>2. PICK i \in Scalar : i = invScalar(u) /\ Times(u, i) = 1
  BY <1>1, PowersAreInverses
<1>3. Stands(i, i) /\ Stands(Times(u, i), u * i) /\ i \in Int
  BY <1>2, Itself, Multiples DEF Scalar
<1>4. QED
  BY <1>2, <1>3

-----------------------------------------------------------------------------
(***************************************************************************)
(* The inner products.                                                     *)
(***************************************************************************)
DotBody(v, w, n) ==
  [g \in [0 .. n -> Scalar] |->
    [i \in 0 .. n |-> IF i = 0 THEN ZERO ELSE Plus(g[i - 1], Times(w[i], v[i]))]]

Entries(v, n) == \A i \in 1 .. n : v[i] \in Scalar

(* s is what the sum is up to each entry.                                  *)
AddsUp(s, v, w, n) ==
  /\ s \in [0 .. n -> Scalar]
  /\ s[0] = 0
  /\ \A i \in 1 .. n : s[i] = Plus(s[i - 1], Times(w[i], v[i]))

(* Sums are scalars.                                                       *)
LEMMA SumInScalar ==
  ASSUME NEW a \in Scalar, NEW b \in Scalar
  PROVE  Plus(a, b) \in Scalar
BY Itself, Sums, InScalar

(* So are the sums that Dot is made of.                                    *)
LEMMA PlusInScalar ==
  ASSUME NEW a \in Scalar, NEW b \in Scalar, NEW c \in Scalar
  PROVE  Plus(a, Times(b, c)) \in Scalar
<1>1. Times(b, c) \in Scalar
  BY TimesIsAGroup
<1>2. QED
  BY <1>1, Itself, Sums, InScalar

(* Dot, as its recursive function says it.                                 *)
LEMMA DotUnfolds ==
  ASSUME NEW n \in Nat, NEW v, NEW w, Entries(v, n), Entries(w, n)
  PROVE  \E s : AddsUp(s, v, w, n) /\ Dot(v, w, n) = s[n]
<1> DEFINE S == 0 .. n
           measure == [i \in S |-> i]
           B == DotBody(v, w, n)
<1>1. measure \in [S -> Nat]
  OBVIOUS
<1>2. ASSUME NEW g \in [S -> Scalar]
      PROVE  B[g] = [i \in S |-> IF i = 0 THEN ZERO ELSE Plus(g[i - 1], Times(w[i], v[i]))]
  BY DEF DotBody
<1>0. ZERO \in Scalar
  BY Order DEF ZERO, Scalar
<1>3. ASSUME NEW g \in [S -> Scalar]
      PROVE  B[g] \in [S -> Scalar]
  <2>1. ASSUME NEW i \in S
        PROVE  (IF i = 0 THEN ZERO ELSE Plus(g[i - 1], Times(w[i], v[i]))) \in Scalar
    <3>1. CASE i = 0
      BY <1>0, <3>1
    <3>2. CASE i # 0
      <4>1. i \in 1 .. n /\ i - 1 \in S
        BY <3>2
      <4>2. g[i - 1] \in Scalar /\ w[i] \in Scalar /\ v[i] \in Scalar
        BY <4>1 DEF Entries
      <4>3. QED
        BY <3>2, <4>2, PlusInScalar
    <3>3. QED
      BY <3>1, <3>2
  <2>2. [i \in S |-> IF i = 0 THEN ZERO ELSE Plus(g[i - 1], Times(w[i], v[i]))] \in [S -> Scalar]
    BY <2>1
  <2>3. QED
    BY <1>2, <2>2, Zenon
<1>4. B \in [[S -> Scalar] -> [S -> Scalar]]
  BY <1>3 DEF DotBody
<1>5. \A i \in S : i # 0 => i \in 1 .. n /\ i - 1 \in S /\ measure[i - 1] < measure[i]
  OBVIOUS
<1>6. 0 \in S /\ n \in S /\ \A i \in 1 .. n : i \in S /\ i # 0
  OBVIOUS
<1> HIDE DEF S, measure, B
<1>7. ASSUME NEW g \in [S -> Scalar], NEW h \in [S -> Scalar], NEW i \in S,
             \A j \in S : measure[j] < measure[i] => g[j] = h[j]
      PROVE  B[g][i] = B[h][i]
  <2>1. B[g] = [j \in S |-> IF j = 0 THEN ZERO ELSE Plus(g[j - 1], Times(w[j], v[j]))]
    BY <1>2, Zenon
  <2>2. B[h] = [j \in S |-> IF j = 0 THEN ZERO ELSE Plus(h[j - 1], Times(w[j], v[j]))]
    BY <1>2, Zenon
  <2>3. CASE i = 0
    BY <2>1, <2>2, <2>3
  <2>4. CASE i # 0
    <3>1. g[i - 1] = h[i - 1]
      BY <1>5, <1>7, <2>4
    <3>2. QED
      BY <2>1, <2>2, <2>4, <3>1
  <2>5. QED
    BY <2>3, <2>4
<1>8. RecursiveByMeasure(S, measure, Scalar, B)
  <2>1. Scalar # {}
    BY <1>0
  <2>2. QED
    BY <1>1, <1>4, <1>7, <2>1, Zenon DEF RecursiveByMeasure
<1>9. \E g \in [S -> Scalar] : \A i \in S : g[i] = B[g][i]
  BY <1>8, RecursionByMeasure
<1>10. PICK g \in [S -> Scalar] : \A i \in S : g[i] = B[g][i]
  BY <1>9
<1>11. g = [i \in S |-> IF i = 0 THEN ZERO ELSE Plus(g[i - 1], Times(w[i], v[i]))]
  BY <1>2, <1>10
<1> DEFINE F == CHOOSE f : f = [i \in S |-> IF i = 0 THEN ZERO
                                           ELSE Plus(f[i - 1], Times(w[i], v[i]))]
<1>12. Dot(v, w, n) = F[n]
  BY Zenon DEF Dot, S
<1> HIDE DEF F
<1>13. F = [i \in S |-> IF i = 0 THEN ZERO ELSE Plus(F[i - 1], Times(w[i], v[i]))]
  BY <1>11, Zenon DEF F
<1>14. F[0] = 0 /\ \A i \in 1 .. n : F[i] = Plus(F[i - 1], Times(w[i], v[i]))
  BY <1>6, <1>13 DEF ZERO
<1> DEFINE P == {i \in Nat : i \in S => F[i] \in Scalar}
<1>15. 0 \in P
  BY <1>0, <1>14 DEF ZERO
<1>16. ASSUME NEW i \in Nat, i \in P
       PROVE  i + 1 \in P
  <2>1. SUFFICES ASSUME i + 1 \in S PROVE F[i + 1] \in Scalar
    OBVIOUS
  <2>2. i \in S /\ i + 1 \in 1 .. n /\ (i + 1) - 1 = i
    BY <2>1 DEF S
  <2>3. F[i] \in Scalar /\ w[i + 1] \in Scalar /\ v[i + 1] \in Scalar
    BY <1>16, <2>2 DEF Entries
  <2>4. F[i + 1] = Plus(F[i], Times(w[i + 1], v[i + 1]))
    BY <1>14, <2>2
  <2>5. QED
    BY <2>3, <2>4, PlusInScalar
<1> HIDE DEF P
<1>17. Nat \subseteq P
  BY <1>15, <1>16, NatInductionOnSets
<1>18. \A i \in S : F[i] \in Scalar
  BY <1>17 DEF P, S
<1>19. F \in [S -> Scalar]
  BY <1>13, <1>18
<1>20. AddsUp(F, v, w, n)
  BY <1>14, <1>19 DEF AddsUp, S
<1>21. QED
  BY <1>12, <1>20

-----------------------------------------------------------------------------
(* The two halves of a vector.                                             *)
Halves(v, l, h, n) ==
  /\ Entries(l, n) /\ Entries(h, n) /\ Entries(v, 2 * n)
  /\ \A i \in 1 .. n : l[i] = v[i] /\ h[i] = v[n + i]

(* The inner product of vectors is that of their halves, added.            *)
LEMMA DotSplits ==
  ASSUME NEW n \in Nat, NEW v, NEW lv, NEW hv, NEW w, NEW lw, NEW hw,
         Halves(v, lv, hv, n), Halves(w, lw, hw, n)
  PROVE  /\ Dot(lv, lw, n) \in Scalar /\ Dot(hv, hw, n) \in Scalar
         /\ Dot(v, w, 2 * n) = Plus(Dot(lv, lw, n), Dot(hv, hw, n))
<1>1. /\ Entries(v, 2 * n) /\ Entries(w, 2 * n)
      /\ Entries(lv, n) /\ Entries(hv, n) /\ Entries(lw, n) /\ Entries(hw, n)
  BY DEF Halves
<1>2. PICK m \in Nat : m = 2 * n /\ m = n + n
  OBVIOUS
<1>3. PICK s : AddsUp(s, v, w, m) /\ Dot(v, w, m) = s[m]
  BY <1>1, <1>2, DotUnfolds
<1>4. PICK sl : AddsUp(sl, lv, lw, n) /\ Dot(lv, lw, n) = sl[n]
  BY <1>1, DotUnfolds
<1>5. PICK sh : AddsUp(sh, hv, hw, n) /\ Dot(hv, hw, n) = sh[n]
  BY <1>1, DotUnfolds
<1>6. sl[n] \in Scalar /\ sh[n] \in Scalar
  BY <1>4, <1>5 DEF AddsUp
<1> DEFINE P == {i \in Nat : i <= n => s[i] = sl[i]}
           R == {i \in Nat : i <= n => s[n + i] = Plus(sl[n], sh[i])}
<1>7. 0 \in P
  BY <1>3, <1>4 DEF AddsUp
<1>8. ASSUME NEW i \in Nat, i \in P
      PROVE  i + 1 \in P
  <2>1. SUFFICES ASSUME i + 1 <= n PROVE s[i + 1] = sl[i + 1]
    OBVIOUS
  <2>2. i + 1 \in 1 .. n /\ i + 1 \in 1 .. m /\ (i + 1) - 1 = i
    BY <1>2, <2>1
  <2>3. s[i + 1] = Plus(s[i], Times(w[i + 1], v[i + 1]))
    BY <1>3, <2>2 DEF AddsUp
  <2>4. sl[i + 1] = Plus(sl[i], Times(lw[i + 1], lv[i + 1]))
    BY <1>4, <2>2 DEF AddsUp
  <2>5. lw[i + 1] = w[i + 1] /\ lv[i + 1] = v[i + 1]
    BY <2>2 DEF Halves
  <2>6. s[i] = sl[i]
    BY <1>8, <2>1
  <2>7. QED
    BY <2>3, <2>4, <2>5, <2>6
<1> HIDE DEF P
<1>9. Nat \subseteq P
  BY <1>7, <1>8, NatInductionOnSets
<1>10. 0 \in R
  <2>1. s[n] = sl[n]
    BY <1>9 DEF P
  <2>2. Plus(sl[n], 0) = sl[n]
    <3>1. sl[n] + 0 = sl[n]
      BY <1>6 DEF Scalar
    <3>2. QED
      BY <1>6, <3>1, Itself DEF Plus
  <2>3. sh[0] = 0 /\ n + 0 = n
    BY <1>5 DEF AddsUp
  <2>4. QED
    BY <2>1, <2>2, <2>3
<1>11. ASSUME NEW i \in Nat, i \in R
       PROVE  i + 1 \in R
  <2>1. SUFFICES ASSUME i + 1 <= n PROVE s[n + (i + 1)] = Plus(sl[n], sh[i + 1])
    OBVIOUS
  <2>2. PICK k \in Nat : k = n + i
    OBVIOUS
  <2>3. i + 1 \in 1 .. n /\ (i + 1) - 1 = i /\ k + 1 \in 1 .. m /\ (k + 1) - 1 = k
    BY <1>2, <2>1, <2>2
  <2>4. n + (i + 1) = k + 1
    BY <2>2
  <2>5. s[k + 1] = Plus(s[k], Times(w[k + 1], v[k + 1]))
    BY <1>3, <2>3 DEF AddsUp
  <2>6. sh[i + 1] = Plus(sh[i], Times(hw[i + 1], hv[i + 1])) /\ sh[i] \in Scalar
    BY <1>5, <2>3 DEF AddsUp
  <2>7. hw[i + 1] = w[k + 1] /\ hv[i + 1] = v[k + 1]
    BY <2>3, <2>4 DEF Halves
  <2>8. s[k] = Plus(sl[n], sh[i])
    BY <1>11, <2>1, <2>2
  <2>9. PICK x \in Scalar : x = Times(w[k + 1], v[k + 1])
    <3>1. w[k + 1] \in Scalar /\ v[k + 1] \in Scalar
      BY <1>1, <1>2, <2>3 DEF Entries
    <3>2. QED
      BY <3>1, TimesIsAGroup
  <2>10. Plus(Plus(sl[n], sh[i]), x) = Plus(sl[n], Plus(sh[i], x))
    <3>1. PICK a \in Scalar, b \in Scalar : a = sl[n] /\ b = sh[i]
      BY <1>6, <2>6
    <3>2. Stands(a, a) /\ Stands(b, b) /\ Stands(x, x)
      BY Itself
    <3>3. Stands(Plus(Plus(a, b), x), (a + b) + x) /\ Stands(Plus(a, Plus(b, x)), a + (b + x))
      <4>1. Stands(Plus(a, b), a + b) /\ Stands(Plus(b, x), b + x)
        BY <3>2, Sums
      <4>2. QED
        BY <3>2, <4>1, Sums
    <3>4. (a + b) + x = a + (b + x)
      BY DEF Scalar
    <3>5. QED
      BY <3>1, <3>3, <3>4, SamePoint
  <2>11. QED
    BY <2>4, <2>5, <2>6, <2>7, <2>8, <2>9, <2>10
<1> HIDE DEF R
<1>12. Nat \subseteq R
  BY <1>10, <1>11, NatInductionOnSets
<1>13. s[n + n] = Plus(sl[n], sh[n])
  BY <1>12 DEF R
<1>14. QED
  BY <1>2, <1>3, <1>4, <1>5, <1>6, <1>13

-----------------------------------------------------------------------------
(***************************************************************************)
(* A vector folded with p and q, and one folded with q and p, where p * q  *)
(* stands for one: the crossed products appear with the squares.           *)
(***************************************************************************)
FoldedWith(f, l, h, p, q, n) ==
  /\ p \in Scalar /\ q \in Scalar
  /\ \A i \in 1 .. n : f[i] = (l[i] * p + h[i] * q) % Q

(* An entry of a folded vector.                                            *)
LEMMA FoldedEntry ==
  ASSUME NEW n \in Nat, NEW v, NEW lv, NEW hv, NEW f, NEW p, NEW q, Halves(v, lv, hv, n),
         FoldedWith(f, lv, hv, p, q, n), NEW i \in 1 .. n
  PROVE  Stands(f[i], lv[i] * p + hv[i] * q) /\ f[i] \in Scalar
<1>1. lv[i] \in Int /\ hv[i] \in Int
  BY DEF Halves, Entries, Scalar
<1>2. p \in Int /\ q \in Int
  BY DEF FoldedWith, Scalar
<1>3. lv[i] * p + hv[i] * q \in Int
  BY <1>1, <1>2
<1>4. Stands(f[i], lv[i] * p + hv[i] * q)
  BY <1>3 DEF FoldedWith, Stands
<1>5. QED
  BY <1>4, InScalar

(* One more entry, in numbers.                                             *)
Crossed(a, b, c, d, p, q, vl, vh, wl, wh) ==
  \E j \in Int :
    (((a + b) + (p * p) * c) + (q * q) * d) + (wl * q + wh * p) * (vl * p + vh * q)
      = ((((a + wl * vl) + (b + wh * vh)) + (p * p) * (c + wh * vl)) + (q * q) * (d + wl * vh))
        + Q * j

AllNumbers(a, b, c, d, p, q, vl, vh, wl, wh) ==
  /\ a \in Int /\ b \in Int /\ c \in Int /\ d \in Int /\ p \in Int /\ q \in Int
  /\ vl \in Int /\ vh \in Int /\ wl \in Int /\ wh \in Int

(* The product of two folded entries, up to multiples of the order.        *)
LEMMA CrossedTerms ==
  ASSUME NEW a, NEW b, NEW c, NEW d, NEW p, NEW q, NEW vl, NEW vh, NEW wl, NEW wh,
         AllNumbers(a, b, c, d, p, q, vl, vh, wl, wh), NEW k \in Int, p * q = 1 + Q * k
  PROVE  Crossed(a, b, c, d, p, q, vl, vh, wl, wh)
<1>0. /\ a \in Int /\ b \in Int /\ c \in Int /\ d \in Int /\ p \in Int /\ q \in Int
      /\ vl \in Int /\ vh \in Int /\ wl \in Int /\ wh \in Int
  BY DEF AllNumbers
<1>1. PICK pp \in Int, qq \in Int, pq \in Int : pp = p * p /\ qq = q * q /\ pq = p * q
  BY <1>0
<1>2. PICK t1 \in Int, t2 \in Int, t3 \in Int, t4 \in Int :
        t1 = wl * vl /\ t2 = wh * vh /\ t3 = wh * vl /\ t4 = wl * vh
  BY <1>0
<1>3. (wl * q + wh * p) * (vl * p + vh * q) = ((t1 * pq + t2 * pq) + t3 * pp) + t4 * qq
  <2>1. (wl * q) * (vl * p) = t1 * pq
    BY <1>0, <1>1, <1>2
  <2>2. (wh * p) * (vh * q) = t2 * pq
    BY <1>0, <1>1, <1>2
  <2>3. (wh * p) * (vl * p) = t3 * pp
    BY <1>0, <1>1, <1>2
  <2>4. (wl * q) * (vh * q) = t4 * qq
    BY <1>0, <1>1, <1>2
  <2>5. PICK x1 \in Int, x2 \in Int, y1 \in Int, y2 \in Int :
          x1 = wl * q /\ x2 = wh * p /\ y1 = vl * p /\ y2 = vh * q
    BY <1>0
  <2>6. (x1 + x2) * (y1 + y2) = ((x1 * y1 + x2 * y2) + x2 * y1) + x1 * y2
    BY <1>0
  <2>7. QED
    BY <2>1, <2>2, <2>3, <2>4, <2>5, <2>6
<1>4. pp * (c + t3) = pp * c + t3 * pp /\ qq * (d + t4) = qq * d + t4 * qq
  BY <1>0
<1>5. PICK j \in Int : j = (t1 + t2) * k
  BY <1>0
<1>6. t1 * pq + t2 * pq = (t1 + t2) + Q * j
  <2>1. PICK t \in Int : t = t1 + t2
    BY <1>0
  <2>2. t1 * pq + t2 * pq = t * pq
    BY <2>1
  <2>3. t * (1 + Q * k) = t + Q * (t * k)
    BY Order
  <2>4. QED
    BY <1>1, <1>5, <2>1, <2>2, <2>3
<1>7. PICK y \in Int : y = Q * j
  BY Order
<1>8. PICK m1 \in Int, m2 \in Int, m3 \in Int, m4 \in Int :
        m1 = pp * c /\ m2 = qq * d /\ m3 = t3 * pp /\ m4 = t4 * qq
  BY <1>0
<1>9. ((a + b) + m1) + m2 + ((((t1 + t2) + y) + m3) + m4)
        = ((((a + t1) + (b + t2)) + (m1 + m3)) + (m2 + m4)) + y
  BY <1>0
<1>10. (((a + b) + pp * c) + qq * d) + (((t1 * pq + t2 * pq) + t3 * pp) + t4 * qq)
         = ((((a + t1) + (b + t2)) + pp * (c + t3)) + qq * (d + t4)) + Q * j
  BY <1>4, <1>6, <1>7, <1>8, <1>9
<1>11. QED
  BY <1>1, <1>2, <1>3, <1>10, Zenon DEF Crossed

(* The four products of halves, and what the folded vectors give.          *)
FourProducts(fv, fw, lv, hv, lw, hw, p, q, n) ==
  \E a, b, c, d \in Int :
    /\ Stands(Dot(lv, lw, n), a) /\ Stands(Dot(hv, hw, n), b)
    /\ Stands(Dot(lv, hw, n), c) /\ Stands(Dot(hv, lw, n), d)
    /\ Stands(Dot(fv, fw, n), ((a + b) + (p * p) * c) + (q * q) * d)

(* The inner product of folded vectors, entry by entry.                    *)
LEMMA DotFolds ==
  ASSUME NEW n \in Nat, NEW v, NEW lv, NEW hv, NEW w, NEW lw, NEW hw, NEW fv, NEW fw, NEW p, NEW q,
         Halves(v, lv, hv, n), Halves(w, lw, hw, n),
         FoldedWith(fv, lv, hv, p, q, n), FoldedWith(fw, lw, hw, q, p, n), Stands(1, p * q)
  PROVE  FourProducts(fv, fw, lv, hv, lw, hw, p, q, n)
<1>1. /\ Entries(lv, n) /\ Entries(hv, n) /\ Entries(lw, n) /\ Entries(hw, n)
  BY DEF Halves
<1>2. Entries(fv, n) /\ Entries(fw, n)
  BY FoldedEntry DEF Entries
<1>3. PICK s1 : AddsUp(s1, lv, lw, n) /\ Dot(lv, lw, n) = s1[n]
  BY <1>1, DotUnfolds
<1>4. PICK s2 : AddsUp(s2, hv, hw, n) /\ Dot(hv, hw, n) = s2[n]
  BY <1>1, DotUnfolds
<1>5. PICK s3 : AddsUp(s3, lv, hw, n) /\ Dot(lv, hw, n) = s3[n]
  BY <1>1, DotUnfolds
<1>6. PICK s4 : AddsUp(s4, hv, lw, n) /\ Dot(hv, lw, n) = s4[n]
  BY <1>1, DotUnfolds
<1>7. PICK s : AddsUp(s, fv, fw, n) /\ Dot(fv, fw, n) = s[n]
  BY <1>2, DotUnfolds
<1>8. p \in Int /\ q \in Int /\ 1 \in Scalar
  BY Order DEF FoldedWith, Scalar
<1>9. PICK k \in Int : p * q = 1 + Q * k
  <2>1. Stands(1, 1)
    BY <1>8, Itself
  <2>2. QED
    BY <2>1, TwoNumbers
<1> DEFINE At(i) == \E a, b, c, d \in Int :
                      /\ Stands(s1[i], a) /\ Stands(s2[i], b)
                      /\ Stands(s3[i], c) /\ Stands(s4[i], d)
                      /\ Stands(s[i], ((a + b) + (p * p) * c) + (q * q) * d)
           P == {i \in Nat : i <= n => At(i)}
<1>10. At(0)
  <2>1. s1[0] = 0 /\ s2[0] = 0 /\ s3[0] = 0 /\ s4[0] = 0 /\ s[0] = 0
    BY <1>3, <1>4, <1>5, <1>6, <1>7 DEF AddsUp
  <2>2. 0 \in Int /\ Stands(0, 0)
    BY Order, Itself DEF Scalar
  <2>3. ((0 + 0) + (p * p) * 0) + (q * q) * 0 = 0
    BY <1>8
  <2>4. QED
    BY <2>1, <2>2, <2>3
<1>11. ASSUME NEW i \in Nat, i + 1 <= n, At(i)
       PROVE  At(i + 1)
  <2>1. PICK e \in 1 .. n : e = i + 1 /\ e - 1 = i
    BY <1>11
  <2>2. /\ s1[e] = Plus(s1[i], Times(lw[e], lv[e]))
        /\ s2[e] = Plus(s2[i], Times(hw[e], hv[e]))
        /\ s3[e] = Plus(s3[i], Times(hw[e], lv[e]))
        /\ s4[e] = Plus(s4[i], Times(lw[e], hv[e]))
        /\ s[e] = Plus(s[i], Times(fw[e], fv[e]))
    BY <1>3, <1>4, <1>5, <1>6, <1>7, <2>1 DEF AddsUp
  <2>3. PICK vl \in Scalar, vh \in Scalar, wl \in Scalar, wh \in Scalar :
          vl = lv[e] /\ vh = hv[e] /\ wl = lw[e] /\ wh = hw[e]
    BY <1>1 DEF Entries
  <2>4. Stands(fv[e], vl * p + vh * q) /\ Stands(fw[e], wl * q + wh * p)
    BY <2>3, FoldedEntry
  <2>5. PICK a \in Int, b \in Int, c \in Int, d \in Int :
          /\ Stands(s1[i], a) /\ Stands(s2[i], b)
          /\ Stands(s3[i], c) /\ Stands(s4[i], d)
          /\ Stands(s[i], ((a + b) + (p * p) * c) + (q * q) * d)
    BY <1>11
  <2>6. Stands(vl, vl) /\ Stands(vh, vh) /\ Stands(wl, wl) /\ Stands(wh, wh)
    BY Itself
  <2>7. /\ Stands(Times(wl, vl), wl * vl) /\ Stands(Times(wh, vh), wh * vh)
        /\ Stands(Times(wh, vl), wh * vl) /\ Stands(Times(wl, vh), wl * vh)
        /\ Stands(Times(fw[e], fv[e]), (wl * q + wh * p) * (vl * p + vh * q))
    BY <2>4, <2>6, Multiples
  <2>8. Stands(s1[e], a + wl * vl)
    BY <2>2, <2>3, <2>5, <2>7, Sums
  <2>9. Stands(s2[e], b + wh * vh)
    BY <2>2, <2>3, <2>5, <2>7, Sums
  <2>10. Stands(s3[e], c + wh * vl)
    BY <2>2, <2>3, <2>5, <2>7, Sums
  <2>11. Stands(s4[e], d + wl * vh)
    BY <2>2, <2>3, <2>5, <2>7, Sums
  <2>12. Stands(s[e], (((a + b) + (p * p) * c) + (q * q) * d)
                        + (wl * q + wh * p) * (vl * p + vh * q))
    BY <2>2, <2>5, <2>7, Sums
  <2>13. vl \in Int /\ vh \in Int /\ wl \in Int /\ wh \in Int
    BY DEF Scalar
  <2>14. PICK x \in Int, y \in Int, z \in Int, t \in Int :
           x = a + wl * vl /\ y = b + wh * vh /\ z = c + wh * vl /\ t = d + wl * vh
    BY <2>13
  <2>15. PICK j \in Int :
           (((a + b) + (p * p) * c) + (q * q) * d) + (wl * q + wh * p) * (vl * p + vh * q)
             = ((((a + wl * vl) + (b + wh * vh)) + (p * p) * (c + wh * vl)) + (q * q) * (d + wl * vh))
               + Q * j
    <3>1. AllNumbers(a, b, c, d, p, q, vl, vh, wl, wh)
      BY <1>8, <2>13 DEF AllNumbers
    <3>2. Crossed(a, b, c, d, p, q, vl, vh, wl, wh)
      BY <1>9, <3>1, CrossedTerms
    <3>3. QED
      BY <3>2, Zenon DEF Crossed
  <2>16. PICK m \in Int, r \in Int :
           /\ m = (((a + wl * vl) + (b + wh * vh)) + (p * p) * (c + wh * vl)) + (q * q) * (d + wl * vh)
           /\ r = (((a + b) + (p * p) * c) + (q * q) * d) + (wl * q + wh * p) * (vl * p + vh * q)
    BY <1>8, <2>13
  <2>17. m = r + Q * (-j) /\ -j \in Int
    <3>1. r = m + Q * j
      BY <2>15, <2>16
    <3>2. QED
      BY <3>1, Order
  <2>18. Stands(s[e], m)
    BY <2>12, <2>16, <2>17, ShiftedBy
  <2>19. m = ((x + y) + (p * p) * z) + (q * q) * t
    BY <2>14, <2>16, Zenon
  <2>20. /\ Stands(s1[e], x) /\ Stands(s2[e], y) /\ Stands(s3[e], z) /\ Stands(s4[e], t)
         /\ Stands(s[e], ((x + y) + (p * p) * z) + (q * q) * t)
    BY <2>8, <2>9, <2>10, <2>11, <2>14, <2>18, <2>19, Zenon
  <2>21. At(e)
    BY <2>14, <2>20, Zenon
  <2>22. QED
    BY <2>1, <2>21, Zenon
<1> HIDE DEF At
<1>12. ASSUME NEW i \in Nat, i \in P
       PROVE  i + 1 \in P
  <2>1. SUFFICES ASSUME i + 1 <= n PROVE At(i + 1)
    BY <1>12
  <2>2. i <= n
    BY <2>1
  <2>3. At(i)
    BY <1>12, <2>2
  <2>4. QED
    BY <1>11, <2>1, <2>3
<1>16. 0 \in P
  BY <1>10
<1> HIDE DEF P
<1>13. Nat \subseteq P
  BY <1>12, <1>16, NatInductionOnSets
<1>14. At(n)
  BY <1>13 DEF P
<1>15. QED
  BY <1>3, <1>4, <1>5, <1>6, <1>7, <1>14 DEF At, FourProducts

-----------------------------------------------------------------------------
(* The vectors of a round.                                                 *)
VectorOf(v, n) == v \in Seq(Scalar) /\ Len(v) = n

Vectors(w, n) ==
  /\ w \in [a : Seq(Scalar), b : Seq(Scalar), g : Seq(Scalar), h : Seq(Scalar)]
  /\ VectorOf(w.a, n) /\ VectorOf(w.b, n) /\ VectorOf(w.g, n) /\ VectorOf(w.h, n)

(* The entries of a vector are scalars.                                    *)
LEMMA VectorEntries ==
  ASSUME NEW n \in Nat, NEW v, VectorOf(v, n)
  PROVE  Entries(v, n)
BY ElementOfSeq DEF VectorOf, Entries

(* Lo and Hi are the halves, and without the last entry if it is too many. *)
LEMMA HalvesOfVector ==
  ASSUME NEW n \in Nat, NEW m \in Nat, n + n <= m, NEW v, VectorOf(v, m)
  PROVE  /\ Entries(Lo(v, n), n) /\ Entries(Hi(v, n), n)
         /\ m = n + n => Halves(v, Lo(v, n), Hi(v, n), n)
<1>1. Len(v) = m /\ v \in Seq(Scalar) /\ \A i \in 1 .. m : v[i] \in Scalar
  BY ElementOfSeq DEF VectorOf
<1>2. \A i \in 1 .. n : Lo(v, n)[i] = v[i]
  <2>1. \A i \in 1 .. n : v[i] \in Scalar
    BY <1>1
  <2>2. \A i \in 1 .. (n - 1) + 1 : SubSeq(v, 1, n)[i] = v[(1 + i) - 1]
    BY <2>1, SubSeqProperties
  <2>3. QED
    BY <2>2 DEF Lo
<1>3. \A i \in 1 .. n : Hi(v, n)[i] = v[n + i]
  <2>1. \A i \in n + 1 .. m : v[i] \in Scalar
    BY <1>1
  <2>2. \A i \in 1 .. (m - (n + 1)) + 1 : SubSeq(v, n + 1, m)[i] = v[((n + 1) + i) - 1]
    BY <2>1, SubSeqProperties
  <2>3. \A i \in 1 .. n : i \in 1 .. (m - (n + 1)) + 1 /\ ((n + 1) + i) - 1 = n + i
    OBVIOUS
  <2>4. QED
    BY <1>1, <2>2, <2>3 DEF Hi
<1>4. \A i \in 1 .. n : i \in 1 .. m /\ n + i \in 1 .. m
  OBVIOUS
<1>5. Entries(Lo(v, n), n) /\ Entries(Hi(v, n), n)
  BY <1>1, <1>2, <1>3, <1>4 DEF Entries
<1>6. ASSUME m = n + n
      PROVE  Halves(v, Lo(v, n), Hi(v, n), n)
  <2>1. Entries(v, 2 * n)
    BY <1>1, <1>6 DEF Entries
  <2>2. QED
    BY <1>2, <1>3, <1>5, <2>1 DEF Halves
<1>7. QED
  BY <1>5, <1>6

(* FoldVector makes a vector of half the length.                           *)
LEMMA FoldedVector ==
  ASSUME NEW n \in Nat, NEW m \in Nat, n + n <= m, NEW v, VectorOf(v, m),
         NEW p \in Scalar, NEW q \in Scalar
  PROVE  /\ VectorOf(FoldVector(v, n, p, q), n)
         /\ FoldedWith(FoldVector(v, n, p, q), Lo(v, n), Hi(v, n), p, q, n)
<1> DEFINE f == FoldVector(v, n, p, q)
<1>1. f = [i \in 1 .. n |-> (Lo(v, n)[i] * p + Hi(v, n)[i] * q) % Q]
  BY DEF FoldVector
<1>2. ASSUME NEW i \in 1 .. n
      PROVE  (Lo(v, n)[i] * p + Hi(v, n)[i] * q) % Q \in Scalar
  <2>1. PICK x \in Scalar, y \in Scalar : x = Lo(v, n)[i] /\ y = Hi(v, n)[i]
    BY HalvesOfVector DEF Entries
  <2>2. PICK z \in Int : z = x * p + y * q
    BY DEF Scalar
  <2>3. z % Q \in 0 .. Q - 1
    BY Order, QuotientAndRemainder
  <2>4. QED
    BY <2>1, <2>2, <2>3 DEF Scalar
<1>3. f \in [1 .. n -> Scalar]
  BY <1>1, <1>2
<1>4. f \in Seq(Scalar)
  BY <1>3, SeqDef
<1>5. Len(f) = n
  <2>1. DOMAIN f = 1 .. n /\ DOMAIN f = 1 .. Len(f) /\ Len(f) \in Nat
    BY <1>3, <1>4, LenProperties
  <2>2. QED
    BY <2>1
<1>6. QED
  BY <1>1, <1>4, <1>5 DEF VectorOf, FoldedWith

(* So does a round, of all four.                                           *)
LEMMA VectorsFold ==
  ASSUME NEW m \in Nat, NEW w, Vectors(w, m), NEW u \in Scalar \ {0}
  PROVE  Vectors(FoldVectors(w, u), m \div 2)
<1>1. PICK n \in Nat : n = m \div 2 /\ n + n <= m
  OBVIOUS
<1>2. PICK i \in Scalar : i = invScalar(u)
  BY PowersAreInverses DEF Units
<1>3. Half(w) = n
  BY <1>1 DEF Half, Vectors, VectorOf
<1>4. FoldVectors(w, u) = [a |-> FoldVector(w.a, n, u, i), b |-> FoldVector(w.b, n, i, u),
                           g |-> FoldVector(w.g, n, i, u), h |-> FoldVector(w.h, n, u, i)]
  BY <1>2, <1>3 DEF FoldVectors
<1>5. /\ VectorOf(FoldVector(w.a, n, u, i), n) /\ VectorOf(FoldVector(w.b, n, i, u), n)
      /\ VectorOf(FoldVector(w.g, n, i, u), n) /\ VectorOf(FoldVector(w.h, n, u, i), n)
  BY <1>1, FoldedVector DEF Vectors
<1>6. QED
  BY <1>1, <1>4, <1>5 DEF Vectors, VectorOf

(* An inner product is a scalar.                                           *)
LEMMA DotInScalar ==
  ASSUME NEW n \in Nat, NEW v, NEW w, Entries(v, n), Entries(w, n)
  PROVE  Dot(v, w, n) \in Scalar
<1>1. PICK s : AddsUp(s, v, w, n) /\ Dot(v, w, n) = s[n]
  BY DotUnfolds
<1>2. QED
  BY <1>1 DEF AddsUp

(* So is what vectors of one length commit to.                             *)
LEMMA ProductInScalar ==
  ASSUME NEW n \in Nat, NEW w, Vectors(w, n)
  PROVE  Product(w) \in Scalar /\ Product(w) = Plus(Dot(w.a, w.g, n), Dot(w.b, w.h, n))
<1>1. Len(w.a) = n /\ Len(w.b) = n
  BY DEF Vectors, VectorOf
<1>2. Product(w) = Plus(Dot(w.a, w.g, n), Dot(w.b, w.h, n))
  BY <1>1 DEF Product
<1>3. Entries(w.a, n) /\ Entries(w.b, n) /\ Entries(w.g, n) /\ Entries(w.h, n)
  BY VectorEntries DEF Vectors
<1>4. PICK x \in Scalar : x = Dot(w.a, w.g, n)
  BY <1>3, DotUnfolds DEF AddsUp
<1>5. PICK y \in Scalar : y = Dot(w.b, w.h, n)
  BY <1>3, DotUnfolds DEF AddsUp
<1>6. Plus(x, y) \in Scalar
  BY Itself, Sums, InScalar
<1>7. QED
  BY <1>2, <1>4, <1>5, <1>6

(* What the terms of a round add up to.                                    *)
LEMMA WeightedSum ==
  ASSUME NEW e, NEW x, NEW l, NEW y, NEW r, NEW z, Stands(e, x), Stands(l, y), Stands(r, z),
         NEW s \in Int, NEW t \in Int
  PROVE  Stands((e + s * l + t * r) % Q, x + s * y + t * z)
<1>1. e \in Scalar /\ l \in Scalar /\ r \in Scalar /\ x \in Int /\ y \in Int /\ z \in Int
  BY InScalar DEF Stands
<1>2. e \in Int /\ l \in Int /\ r \in Int /\ Q \in Int
  BY <1>1, Order DEF Scalar
<1>3. Stands(e, e) /\ Stands(l, l) /\ Stands(r, r)
  BY <1>1, Itself
<1>4. PICK i \in Int : x = e + Q * i
  BY <1>3, TwoNumbers
<1>5. PICK j \in Int : y = l + Q * j
  BY <1>3, TwoNumbers
<1>6. PICK k \in Int : z = r + Q * k
  BY <1>3, TwoNumbers
<1>7. PICK d \in Int : d = (i + s * j) + t * k
  OBVIOUS
<1>8. PICK m \in Int : m = e + s * l + t * r
  BY <1>2
<1>9. x + s * y + t * z = m + Q * d
  <2>1. s * (l + Q * j) = s * l + Q * (s * j) /\ t * (r + Q * k) = t * r + Q * (t * k)
    BY <1>2
  <2>2. Q * d = (Q * i + Q * (s * j)) + Q * (t * k)
    BY <1>2, <1>7
  <2>3. QED
    BY <1>2, <1>4, <1>5, <1>6, <1>8, <2>1, <2>2
<1>10. PICK n \in Int : n = x + s * y + t * z
  BY <1>1
<1>11. Stands(m % Q, m)
  BY DEF Stands
<1>12. Stands(m % Q, n)
  BY <1>9, <1>10, <1>11, ShiftedBy
<1>13. QED
  BY <1>8, <1>10, <1>12

-----------------------------------------------------------------------------
(* A round on vectors of an even length keeps the product, up to its terms. *)
LEMMA RoundKeepsTheProduct ==
  ASSUME NEW n \in Nat, NEW w, Vectors(w, n + n), NEW u \in Scalar \ {0}
  PROVE  Product(FoldVectors(w, u)) =
           (Product(w) + u * u * LeftTerm(w) + invScalar(u) * invScalar(u) * RightTerm(w)) % Q
<1>1. PICK q \in Scalar : q = invScalar(u) /\ Times(u, q) = 1
  BY PowersAreInverses DEF Units
<1>2. Stands(1, u * q) /\ Stands(1, q * u)
  <2>1. Stands(Times(u, q), u * q) /\ u \in Int /\ q \in Int
    <3>1. Stands(u, u) /\ Stands(q, q)
      BY Itself
    <3>2. QED
      BY <3>1, Multiples DEF Stands
  <2>2. u * q = q * u
    BY <2>1
  <2>3. QED
    BY <1>1, <2>1, <2>2
<1>3. PICK m \in Nat : m = n + n /\ m = 2 * n /\ m \div 2 = n
  OBVIOUS
<1>4. Half(w) = n
  BY <1>3 DEF Half, Vectors, VectorOf
<1> DEFINE al == Lo(w.a, n)
           ah == Hi(w.a, n)
           bl == Lo(w.b, n)
           bh == Hi(w.b, n)
           gl == Lo(w.g, n)
           gh == Hi(w.g, n)
           hl == Lo(w.h, n)
           hh == Hi(w.h, n)
           fa == FoldVector(w.a, n, u, q)
           fb == FoldVector(w.b, n, q, u)
           fg == FoldVector(w.g, n, q, u)
           fh == FoldVector(w.h, n, u, q)
<1>5. FoldVectors(w, u) = [a |-> fa, b |-> fb, g |-> fg, h |-> fh]
  BY <1>1, <1>4 DEF FoldVectors
<1>6. LeftTerm(w) = Plus(Dot(al, gh, n), Dot(bh, hl, n))
  BY <1>4 DEF LeftTerm
<1>7. RightTerm(w) = Plus(Dot(ah, gl, n), Dot(bl, hh, n))
  BY <1>4 DEF RightTerm
<1>8. VectorOf(w.a, m) /\ VectorOf(w.b, m) /\ VectorOf(w.g, m) /\ VectorOf(w.h, m)
  BY <1>3 DEF Vectors
<1>9. /\ Halves(w.a, al, ah, n) /\ Halves(w.b, bl, bh, n)
      /\ Halves(w.g, gl, gh, n) /\ Halves(w.h, hl, hh, n)
  BY <1>3, <1>8, HalvesOfVector
<1>10. /\ VectorOf(fa, n) /\ FoldedWith(fa, al, ah, u, q, n)
       /\ VectorOf(fb, n) /\ FoldedWith(fb, bl, bh, q, u, n)
       /\ FoldedWith(fg, gl, gh, q, u, n) /\ FoldedWith(fh, hl, hh, u, q, n)
  <2>1. u \in Scalar /\ n + n <= m
    BY <1>3
  <2>2. VectorOf(fa, n) /\ FoldedWith(fa, al, ah, u, q, n)
    BY <1>8, <2>1, FoldedVector
  <2>3. VectorOf(fb, n) /\ FoldedWith(fb, bl, bh, q, u, n)
    BY <1>8, <2>1, FoldedVector
  <2>4. FoldedWith(fg, gl, gh, q, u, n)
    BY <1>8, <2>1, FoldedVector
  <2>5. FoldedWith(fh, hl, hh, u, q, n)
    BY <1>8, <2>1, FoldedVector
  <2>6. QED
    BY <2>2, <2>3, <2>4, <2>5
<1>11. Product(FoldVectors(w, u)) = Plus(Dot(fa, fg, n), Dot(fb, fh, n))
  <2>1. Len(fa) = n /\ Len(fb) = n
    BY <1>10 DEF VectorOf
  <2>2. QED
    BY <1>5, <2>1 DEF Product
<1>12. Product(w) = Plus(Dot(w.a, w.g, m), Dot(w.b, w.h, m))
  BY <1>3, ProductInScalar
<1> HIDE DEF al, ah, bl, bh, gl, gh, hl, hh, fa, fb, fg, fh
<1>13. Dot(w.a, w.g, m) = Plus(Dot(al, gl, n), Dot(ah, gh, n))
  BY <1>3, <1>9, DotSplits
<1>14. Dot(w.b, w.h, m) = Plus(Dot(bl, hl, n), Dot(bh, hh, n))
  BY <1>3, <1>9, DotSplits
<1>15. FourProducts(fa, fg, al, ah, gl, gh, u, q, n)
  BY <1>2, <1>9, <1>10, DotFolds
<1>16. FourProducts(fb, fh, bl, bh, hl, hh, q, u, n)
  BY <1>2, <1>9, <1>10, DotFolds
<1>17. PICK a1 \in Int, b1 \in Int, c1 \in Int, d1 \in Int :
         /\ Stands(Dot(al, gl, n), a1) /\ Stands(Dot(ah, gh, n), b1)
         /\ Stands(Dot(al, gh, n), c1) /\ Stands(Dot(ah, gl, n), d1)
         /\ Stands(Dot(fa, fg, n), ((a1 + b1) + (u * u) * c1) + (q * q) * d1)
  BY <1>15 DEF FourProducts
<1>18. PICK a2 \in Int, b2 \in Int, c2 \in Int, d2 \in Int :
         /\ Stands(Dot(bl, hl, n), a2) /\ Stands(Dot(bh, hh, n), b2)
         /\ Stands(Dot(bl, hh, n), c2) /\ Stands(Dot(bh, hl, n), d2)
         /\ Stands(Dot(fb, fh, n), ((a2 + b2) + (q * q) * c2) + (u * u) * d2)
  BY <1>16 DEF FourProducts
<1>19. Stands(Product(w), (a1 + b1) + (a2 + b2))
  <2>1. /\ Stands(Plus(Dot(al, gl, n), Dot(ah, gh, n)), a1 + b1)
        /\ Stands(Plus(Dot(bl, hl, n), Dot(bh, hh, n)), a2 + b2)
    BY <1>17, <1>18, Sums
  <2>2. QED
    BY <1>12, <1>13, <1>14, <2>1, Sums
<1>20. Stands(LeftTerm(w), c1 + d2)
  BY <1>6, <1>17, <1>18, Sums
<1>21. Stands(RightTerm(w), d1 + c2)
  BY <1>7, <1>17, <1>18, Sums
<1>22. PICK uu \in Int, qq \in Int : uu = u * u /\ qq = q * q
  BY DEF Scalar
<1>23. Stands((Product(w) + uu * LeftTerm(w) + qq * RightTerm(w)) % Q,
              ((a1 + b1) + (a2 + b2)) + uu * (c1 + d2) + qq * (d1 + c2))
  BY <1>19, <1>20, <1>21, WeightedSum
<1>24. Stands(Product(FoldVectors(w, u)),
              (((a1 + b1) + uu * c1) + qq * d1) + (((a2 + b2) + qq * c2) + uu * d2))
  BY <1>11, <1>17, <1>18, <1>22, Sums
<1>25. ((a1 + b1) + (a2 + b2)) + uu * (c1 + d2) + qq * (d1 + c2)
         = (((a1 + b1) + uu * c1) + qq * d1) + (((a2 + b2) + qq * c2) + uu * d2)
  <2>1. uu * (c1 + d2) = uu * c1 + uu * d2 /\ qq * (d1 + c2) = qq * d1 + qq * c2
    OBVIOUS
  <2>2. QED
    BY <2>1
<1>26. Product(FoldVectors(w, u)) = (Product(w) + uu * LeftTerm(w) + qq * RightTerm(w)) % Q
  BY <1>23, <1>24, <1>25, SamePoint
<1>27. QED
  BY <1>1, <1>22, <1>26

-----------------------------------------------------------------------------
(* The powers of two.                                                      *)
LEMMA PowersOfTwo ==
  /\ PowerOfTwo[0] = 1
  /\ \A k \in Nat : PowerOfTwo[k] \in Nat \ {0} /\ PowerOfTwo[k + 1] = 2 * PowerOfTwo[k]
<1> DEFINE V == Nat \ {0}
           B == [g \in [Nat -> V] |-> [k \in Nat |-> IF k = 0 THEN 1 ELSE 2 * g[k - 1]]]
           F == PowerOfTwo
<1>1. ASSUME NEW g \in [Nat -> V]
      PROVE  B[g] = [k \in Nat |-> IF k = 0 THEN 1 ELSE 2 * g[k - 1]]
  OBVIOUS
<1>2. ASSUME NEW g \in [Nat -> V]
      PROVE  B[g] \in [Nat -> V]
  <2>1. ASSUME NEW k \in Nat
        PROVE  (IF k = 0 THEN 1 ELSE 2 * g[k - 1]) \in V
    <3>1. CASE k = 0
      BY <3>1
    <3>2. CASE k # 0
      <4>1. k - 1 \in Nat
        BY <3>2
      <4>2. g[k - 1] \in V
        BY <4>1
      <4>3. QED
        BY <3>2, <4>2
    <3>3. QED
      BY <3>1, <3>2
  <2>2. [k \in Nat |-> IF k = 0 THEN 1 ELSE 2 * g[k - 1]] \in [Nat -> V]
    BY <2>1
  <2>3. QED
    BY <1>1, <2>2, Zenon
<1>3. B \in [[Nat -> V] -> [Nat -> V]]
  BY <1>2
<1> HIDE DEF B
<1>4. ASSUME NEW g \in [Nat -> V], NEW h \in [Nat -> V], NEW k \in Nat,
             \A m \in Nat : m < k => g[m] = h[m]
      PROVE  B[g][k] = B[h][k]
  <2>1. B[g] = [r \in Nat |-> IF r = 0 THEN 1 ELSE 2 * g[r - 1]]
    BY <1>1, Zenon
  <2>2. B[h] = [r \in Nat |-> IF r = 0 THEN 1 ELSE 2 * h[r - 1]]
    BY <1>1, Zenon
  <2>3. CASE k = 0
    BY <2>1, <2>2, <2>3
  <2>4. CASE k # 0
    <3>1. g[k - 1] = h[k - 1]
      BY <1>4, <2>4
    <3>2. QED
      BY <2>1, <2>2, <2>4, <3>1
  <2>5. QED
    BY <2>3, <2>4
<1>5. RecursiveOnNat(V, B)
  <2>1. V # {}
    OBVIOUS
  <2>2. QED
    BY <1>3, <1>4, <2>1, Zenon DEF RecursiveOnNat
<1>6. PICK g \in [Nat -> V] : \A k \in Nat : g[k] = B[g][k]
  BY <1>5, RecursionOnNat
<1>7. g = [k \in Nat |-> IF k = 0 THEN 1 ELSE 2 * g[k - 1]]
  BY <1>1, <1>6
<1>8. F = CHOOSE f : f = [k \in Nat |-> IF k = 0 THEN 1 ELSE 2 * f[k - 1]]
  BY Zenon DEF PowerOfTwo
<1> HIDE DEF F
<1>9. F = [k \in Nat |-> IF k = 0 THEN 1 ELSE 2 * F[k - 1]]
  BY <1>7, <1>8, Zenon
<1>10. F[0] = 1
  BY <1>9
<1>11. ASSUME NEW k \in Nat
       PROVE  F[k + 1] = 2 * F[k]
  <2>1. k + 1 \in Nat /\ k + 1 # 0 /\ (k + 1) - 1 = k
    OBVIOUS
  <2>2. QED
    BY <1>9, <2>1
<1> DEFINE P == {k \in Nat : F[k] \in Nat \ {0}}
<1>12. 0 \in P
  BY <1>10
<1>13. ASSUME NEW k \in Nat, k \in P
       PROVE  k + 1 \in P
  BY <1>11, <1>13
<1> HIDE DEF P
<1>14. Nat \subseteq P
  BY <1>12, <1>13, NatInductionOnSets
<1>15. QED
  BY <1>10, <1>11, <1>14 DEF F, P

(* The powers of two grow with the exponent.                               *)
LEMMA PowersOfTwoGrow ==
  ASSUME NEW j \in Nat, NEW k \in Nat, j < k
  PROVE  PowerOfTwo[j] < PowerOfTwo[k]
<1> DEFINE P == {d \in Nat : PowerOfTwo[j] < PowerOfTwo[j + d + 1]}
<1>1. 0 \in P
  <2>1. PowerOfTwo[j + 1] = 2 * PowerOfTwo[j] /\ PowerOfTwo[j] \in Nat \ {0}
    BY PowersOfTwo
  <2>2. j + 0 + 1 = j + 1
    OBVIOUS
  <2>3. QED
    BY <2>1, <2>2
<1>2. ASSUME NEW d \in Nat, d \in P
      PROVE  d + 1 \in P
  <2>1. PICK e \in Nat : e = j + d + 1
    OBVIOUS
  <2>2. j + (d + 1) + 1 = e + 1
    BY <2>1
  <2>3. PowerOfTwo[e + 1] = 2 * PowerOfTwo[e] /\ PowerOfTwo[e] \in Nat \ {0} /\ PowerOfTwo[j] \in Nat
    BY PowersOfTwo
  <2>4. PowerOfTwo[j] < PowerOfTwo[e]
    BY <1>2, <2>1
  <2>5. QED
    BY <2>2, <2>3, <2>4
<1> HIDE DEF P
<1>3. Nat \subseteq P
  BY <1>1, <1>2, NatInductionOnSets
<1>4. PICK d \in Nat : k = j + d + 1
  <2>1. (k - j) - 1 \in Nat /\ k = j + ((k - j) - 1) + 1
    OBVIOUS
  <2>2. QED
    BY <2>1
<1>5. QED
  BY <1>3, <1>4 DEF P

(* A number is one power of two at most.                                   *)
LEMMA OnePowerOnly ==
  ASSUME NEW j \in Nat, NEW k \in Nat, PowerOfTwo[j] = PowerOfTwo[k]
  PROVE  j = k
<1>1. PowerOfTwo[j] \in Nat /\ PowerOfTwo[k] \in Nat
  BY PowersOfTwo
<1>2. ~(j < k) /\ ~(k < j)
  BY <1>1, PowersOfTwoGrow
<1>3. QED
  BY <1>2

-----------------------------------------------------------------------------
(***************************************************************************)
(* What is so between the steps: while the vectors are folded, a length    *)
(* that is a power of two has one power left for each round to come, and   *)
(* the product is the expected one; afterwards the size of a proof tells   *)
(* the rounds.                                                             *)
(***************************************************************************)
RangeStarted == range = [step |-> "start"]

OnCourse(r) ==
  \A k \in 0 .. r.bitLength : r.bitLength = PowerOfTwo[k] =>
    /\ Product(r.vectors) = r.expected
    /\ \E j \in 0 .. k : k = r.rounds + j /\ Len(r.vectors.a) = PowerOfTwo[j]

RangeFolding ==
  /\ range \in [step : {"folding"}, bitLength : 1 .. MaxBitLength,
                vectors : [a : Seq(Scalar), b : Seq(Scalar), g : Seq(Scalar), h : Seq(Scalar)],
                rounds : Nat, expected : Scalar]
  /\ \E n \in 1 .. MaxBitLength : Vectors(range.vectors, n)
  /\ OnCourse(range)

SizeOf(proof, single, r) ==
  IF single THEN proof.size = ProofSize(r)
  ELSE \E n \in 1 .. MaxProofs : proof.size = 1 + n + n * ProofSize(r)

RangeProved ==
  /\ range \in [step : {"proved"}, single : BOOLEAN,
                proof : [bitLength : 1 .. MaxBitLength, size : Nat]]
  /\ \E r \in 0 .. range.proof.size :
       /\ SizeOf(range.proof, range.single, r)
       /\ \A k \in 0 .. range.proof.bitLength : range.proof.bitLength = PowerOfTwo[k] => r = k

RangeInv == RangeStarted \/ RangeFolding \/ RangeProved

(* A function on the first numbers is a vector.                            *)
LEMMA FunctionIsVector ==
  ASSUME NEW n \in Nat, NEW f \in [1 .. n -> Scalar]
  PROVE  VectorOf(f, n)
<1>1. f \in Seq(Scalar)
  BY SeqDef
<1>2. DOMAIN f = 1 .. n /\ DOMAIN f = 1 .. Len(f) /\ Len(f) \in Nat
  BY <1>1, LenProperties
<1>3. QED
  BY <1>1, <1>2 DEF VectorOf

(* So are the first of the generators.                                     *)
LEMMA GeneratorVector ==
  ASSUME NEW v \in Seq(Point), NEW n \in 1 .. Len(v)
  PROVE  VectorOf(SubSeq(v, 1, n), n)
<1>1. Len(v) \in Nat /\ \A i \in 1 .. Len(v) : v[i] \in Scalar
  BY LenProperties, ElementOfSeq DEF Point, Scalar
<1>2. \A i \in 1 .. n : v[i] \in Scalar
  BY <1>1
<1>3. SubSeq(v, 1, n) \in Seq(Scalar) /\ Len(SubSeq(v, 1, n)) = (n - 1) + 1
  BY <1>1, <1>2, SubSeqProperties
<1>4. QED
  BY <1>1, <1>3 DEF VectorOf

(* bitsLE yields numbers.                                                  *)
LEMMA BitsAreNumbers ==
  ASSUME NEW n \in Nat, NEW value \in Nat
  PROVE  \A i \in 1 .. n : bitsLE(value, n)[i] \in Int
<1>1. SUFFICES ASSUME NEW i \in 1 .. n PROVE bitsLE(value, n)[i] \in Int
  OBVIOUS
<1>2. PICK k \in Nat \ {0} : k = PowerOfTwo[i - 1]
  <2>1. i - 1 \in Nat
    OBVIOUS
  <2>2. QED
    BY <2>1, PowersOfTwo
<1>3. bitsLE(value, n)[i] = (value \div k) % 2
  BY <1>2 DEF bitsLE
<1>4. PICK d \in Int : d = value \div k
  BY QuotientAndRemainder
<1>5. d % 2 \in Int
  OBVIOUS
<1>6. QED
  BY <1>3, <1>4, <1>5

(* Adding a mask makes a vector of numbers one of scalars.                 *)
LEMMA MaskedIsVector ==
  ASSUME NEW n \in 1 .. MaxBitLength, NEW s \in Masks, NEW f, \A i \in 1 .. n : f[i] \in Int
  PROVE  VectorOf([i \in 1 .. n |-> Plus(f[i], s[i])], n)
<1>1. MaxBitLength \in Nat
  BY RangeAssumption, LenProperties DEF MaxBitLength
<1>2. ASSUME NEW i \in 1 .. n
      PROVE  Plus(f[i], s[i]) \in Scalar
  <2>1. i \in 1 .. MaxBitLength
    BY <1>1
  <2>2. s[i] \in Scalar
    BY <2>1, RangeAssumption DEF MaxBitLength
  <2>3. PICK x \in Int : x = f[i] + s[i]
    BY <2>2 DEF Scalar
  <2>4. x % Q \in 0 .. Q - 1
    BY Order, QuotientAndRemainder
  <2>5. QED
    BY <2>3, <2>4 DEF Plus, Scalar
<1>3. [i \in 1 .. n |-> Plus(f[i], s[i])] \in [1 .. n -> Scalar]
  BY <1>2
<1>4. n \in Nat
  BY <1>1
<1>5. QED
  BY <1>3, <1>4, FunctionIsVector

(* prove: as many powers to go as the length has, and no term yet.         *)
LEMMA ProveStartsOnCourse ==
  ASSUME prove
  PROVE  RangeFolding'
<1>0. PICK n \in BitLengths \cap 1 .. MaxBitLength :
         \E value \in 0 .. PowerOfTwo[n] - 1, sL, sR \in Masks, z \in Challenges :
           LET aL == bitsLE(value, n)
               aR == [i \in 1 .. n |-> aL[i] - 1]
               w == [a |-> [i \in 1 .. n |-> Plus(aL[i], sL[i])],
                     b |-> [i \in 1 .. n |-> Plus(aR[i] + z, sR[i])],
                     g |-> SubSeq(GVec, 1, n), h |-> SubSeq(HVec, 1, n)]
           IN  range' = [step |-> "folding", bitLength |-> n, vectors |-> w, rounds |-> 0,
                         expected |-> Product(w)]
  BY Zenon DEF prove
<1>1. PICK value \in 0 .. PowerOfTwo[n] - 1, sL \in Masks, sR \in Masks, z \in Challenges :
         LET aL == bitsLE(value, n)
             aR == [i \in 1 .. n |-> aL[i] - 1]
             w == [a |-> [i \in 1 .. n |-> Plus(aL[i], sL[i])],
                   b |-> [i \in 1 .. n |-> Plus(aR[i] + z, sR[i])],
                   g |-> SubSeq(GVec, 1, n), h |-> SubSeq(HVec, 1, n)]
         IN  range' = [step |-> "folding", bitLength |-> n, vectors |-> w, rounds |-> 0,
                       expected |-> Product(w)]
  BY <1>0, Zenon
<1> DEFINE aL == bitsLE(value, n)
           aR == [i \in 1 .. n |-> aL[i] - 1]
           w == [a |-> [i \in 1 .. n |-> Plus(aL[i], sL[i])],
                 b |-> [i \in 1 .. n |-> Plus(aR[i] + z, sR[i])],
                 g |-> SubSeq(GVec, 1, n), h |-> SubSeq(HVec, 1, n)]
<1>2. range' = [step |-> "folding", bitLength |-> n, vectors |-> w, rounds |-> 0,
                expected |-> Product(w)]
  BY <1>1, Zenon
<1>3. MaxBitLength \in Nat /\ n \in 1 .. MaxBitLength /\ n \in Nat
  BY RangeAssumption, LenProperties DEF MaxBitLength
<1>4. value \in Nat
  <2>1. PowerOfTwo[n] \in Nat
    BY <1>3, PowersOfTwo
  <2>2. QED
    BY <2>1
<1>5. \A i \in 1 .. n : aL[i] \in Int
  BY <1>3, <1>4, BitsAreNumbers
<1>6. VectorOf(w.a, n)
  <2>1. VectorOf([i \in 1 .. n |-> Plus(aL[i], sL[i])], n)
    BY <1>3, <1>5, MaskedIsVector
  <2>2. QED
    BY <2>1
<1> HIDE DEF aL
<1>7. VectorOf(w.b, n)
  <2> DEFINE f == [i \in 1 .. n |-> aR[i] + z]
  <2>1. z \in Int
    BY RangeAssumption DEF Scalar
  <2>2. \A i \in 1 .. n : f[i] = aR[i] + z /\ f[i] \in Int
    BY <1>5, <2>1
  <2> HIDE DEF f
  <2>3. VectorOf([i \in 1 .. n |-> Plus(f[i], sR[i])], n)
    BY <1>3, <2>2, MaskedIsVector
  <2>4. [i \in 1 .. n |-> Plus(f[i], sR[i])] = [i \in 1 .. n |-> Plus(aR[i] + z, sR[i])]
    BY <2>2, Zenon
  <2>5. QED
    BY <2>3, <2>4
<1>8. VectorOf(w.g, n) /\ VectorOf(w.h, n)
  <2>1. n \in 1 .. Len(GVec) /\ n \in 1 .. Len(HVec)
    BY <1>3, RangeAssumption DEF MaxBitLength
  <2>2. VectorOf(SubSeq(GVec, 1, n), n) /\ VectorOf(SubSeq(HVec, 1, n), n)
    BY <2>1, RangeAssumption, GeneratorVector
  <2>3. QED
    BY <2>2
<1>9. Vectors(w, n)
  <2>1. w.a \in Seq(Scalar) /\ w.b \in Seq(Scalar) /\ w.g \in Seq(Scalar) /\ w.h \in Seq(Scalar)
    BY <1>6, <1>7, <1>8 DEF VectorOf
  <2>2. w \in [a : Seq(Scalar), b : Seq(Scalar), g : Seq(Scalar), h : Seq(Scalar)]
    BY <2>1
  <2>3. QED
    BY <1>6, <1>7, <1>8, <2>2 DEF Vectors
<1> HIDE DEF w
<1>10. Product(w) \in Scalar
  BY <1>3, <1>9, ProductInScalar
<1>11. Len(w.a) = n
  BY <1>9 DEF Vectors, VectorOf
<1>12. OnCourse(range')
  <2>1. SUFFICES ASSUME NEW k \in 0 .. n, n = PowerOfTwo[k]
                 PROVE  \E j \in 0 .. k : k = 0 + j /\ Len(w.a) = PowerOfTwo[j]
    BY <1>2 DEF OnCourse
  <2>2. k \in 0 .. k /\ k = 0 + k
    BY <1>3
  <2>3. QED
    BY <1>11, <2>1, <2>2
<1>13. QED
  <2>1. w \in [a : Seq(Scalar), b : Seq(Scalar), g : Seq(Scalar), h : Seq(Scalar)]
    BY <1>9 DEF Vectors
  <2>2. range' \in [step : {"folding"}, bitLength : 1 .. MaxBitLength,
                    vectors : [a : Seq(Scalar), b : Seq(Scalar), g : Seq(Scalar), h : Seq(Scalar)],
                    rounds : Nat, expected : Scalar]
    BY <1>2, <1>3, <1>10, <2>1
  <2>3. Vectors(range'.vectors, n)
    BY <1>2, <1>9
  <2>4. QED
    BY <1>3, <1>12, <2>2, <2>3 DEF RangeFolding

(* A round: one power less to go, and the product follows the terms.       *)
LEMMA FoldStaysOnCourse ==
  ASSUME RangeFolding, FoldRound
  PROVE  RangeFolding'
<1>1. PICK u \in Challenges :
        range' = [range EXCEPT
                    !.vectors = FoldVectors(range.vectors, u), !.rounds = @ + 1,
                    !.expected = (@ + u * u * LeftTerm(range.vectors)
                                    + invScalar(u) * invScalar(u) * RightTerm(range.vectors)) % Q]
  BY Zenon DEF FoldRound
<1>2. PICK b \in 1 .. MaxBitLength,
           w \in [a : Seq(Scalar), b : Seq(Scalar), g : Seq(Scalar), h : Seq(Scalar)],
           r \in Nat, e \in Scalar :
        range = [step |-> "folding", bitLength |-> b, vectors |-> w, rounds |-> r, expected |-> e]
  BY DEF RangeFolding
<1>3. range.bitLength = b /\ range.vectors = w /\ range.rounds = r /\ range.expected = e
  BY <1>2
<1>4. PICK n \in 1 .. MaxBitLength : Vectors(w, n)
  BY <1>3 DEF RangeFolding
<1>5. MaxBitLength \in Nat /\ n \in Nat /\ Len(w.a) = n /\ n > 1
  <2>1. MaxBitLength \in Nat
    BY RangeAssumption, LenProperties DEF MaxBitLength
  <2>2. Len(w.a) = n
    BY <1>4 DEF Vectors, VectorOf
  <2>3. QED
    BY <1>3, <2>1, <2>2 DEF FoldRound
<1>6. PICK f : f = FoldVectors(w, u)
  OBVIOUS
<1>7. PICK x : x = (e + u * u * LeftTerm(w) + invScalar(u) * invScalar(u) * RightTerm(w)) % Q
  OBVIOUS
<1>8. range' = [step |-> "folding", bitLength |-> b, vectors |-> f, rounds |-> r + 1,
                expected |-> x]
  <2>1. range' = [range EXCEPT !.vectors = f, !.rounds = r + 1, !.expected = x]
    BY <1>1, <1>3, <1>6, <1>7, Zenon
  <2>2. QED
    BY <1>2, <2>1
<1>9. u \in Scalar \ {0}
  BY RangeAssumption
<1>10. PICK m \in Nat : m = n \div 2 /\ m \in 1 .. MaxBitLength
  BY <1>5
<1>11. Vectors(f, m)
  BY <1>4, <1>5, <1>6, <1>9, <1>10, VectorsFold
<1>12. x \in Scalar
  <2>1. e \in Int /\ u \in Int
    BY <1>9 DEF Scalar
  <2>2. LeftTerm(w) \in Int /\ RightTerm(w) \in Int
    <3>1. Half(w) = m
      BY <1>5, <1>10 DEF Half
    <3>2. m + m <= n
      BY <1>10
    <3>3. /\ Entries(Lo(w.a, m), m) /\ Entries(Hi(w.a, m), m)
          /\ Entries(Lo(w.b, m), m) /\ Entries(Hi(w.b, m), m)
          /\ Entries(Lo(w.g, m), m) /\ Entries(Hi(w.g, m), m)
          /\ Entries(Lo(w.h, m), m) /\ Entries(Hi(w.h, m), m)
      BY <1>4, <1>5, <1>10, <3>2, HalvesOfVector DEF Vectors
    <3>4. /\ Dot(Lo(w.a, m), Hi(w.g, m), m) \in Scalar /\ Dot(Hi(w.b, m), Lo(w.h, m), m) \in Scalar
          /\ Dot(Hi(w.a, m), Lo(w.g, m), m) \in Scalar /\ Dot(Lo(w.b, m), Hi(w.h, m), m) \in Scalar
      BY <3>3, DotInScalar
    <3>5. LeftTerm(w) \in Scalar /\ RightTerm(w) \in Scalar
      BY <3>1, <3>4, SumInScalar DEF LeftTerm, RightTerm
    <3>6. QED
      BY <3>5 DEF Scalar
  <2>3. invScalar(u) \in Int
    BY <1>9, PowersAreInverses DEF Units, Scalar
  <2>4. PICK y \in Int :
          y = e + u * u * LeftTerm(w) + invScalar(u) * invScalar(u) * RightTerm(w)
    <3>1. PICK l \in Int, t \in Int, i \in Int : l = LeftTerm(w) /\ t = RightTerm(w) /\ i = invScalar(u)
      BY <2>2, <2>3
    <3>2. e + u * u * l + i * i * t \in Int
      BY <2>1
    <3>3. QED
      BY <3>1, <3>2, Zenon
  <2>5. y % Q \in 0 .. Q - 1
    BY Order, QuotientAndRemainder
  <2>6. QED
    BY <1>7, <2>4, <2>5 DEF Scalar
<1>13. OnCourse(range')
  <2>1. SUFFICES ASSUME NEW k \in 0 .. b, b = PowerOfTwo[k]
                 PROVE  /\ Product(f) = x
                        /\ \E j \in 0 .. k : k = (r + 1) + j /\ Len(f.a) = PowerOfTwo[j]
    BY <1>8 DEF OnCourse
  <2>2. PICK j \in 0 .. k : Product(w) = e /\ k = r + j /\ n = PowerOfTwo[j]
    BY <1>3, <1>5, <2>1 DEF RangeFolding, OnCourse
  <2>3. PICK i \in 0 .. k : j = i + 1 /\ k = (r + 1) + i
    <3>1. j # 0
      <4>1. j = 0 => n = 1
        BY <2>2, PowersOfTwo, Zenon
      <4>2. QED
        BY <1>5, <4>1
    <3>2. j - 1 \in 0 .. k /\ j = (j - 1) + 1 /\ k = (r + 1) + (j - 1)
      BY <2>2, <3>1
    <3>3. QED
      BY <3>2
  <2>4. n = 2 * PowerOfTwo[i] /\ PowerOfTwo[i] \in Nat
    <3>1. i \in Nat
      BY <1>5
    <3>2. PowerOfTwo[i + 1] = 2 * PowerOfTwo[i] /\ PowerOfTwo[i] \in Nat
      BY <3>1, PowersOfTwo
    <3>3. QED
      BY <2>2, <2>3, <3>2, Zenon
  <2>5. m = PowerOfTwo[i] /\ n = m + m
    <3>1. PICK half \in Nat : half = PowerOfTwo[i] /\ n = 2 * half
      BY <2>4
    <3>2. (2 * half) \div 2 = half /\ 2 * half = half + half
      OBVIOUS
    <3>3. m = half /\ n = half + half
      BY <1>10, <3>1, <3>2, Zenon
    <3>4. QED
      BY <3>1, <3>3
  <2>6. Len(f.a) = m
    BY <1>11 DEF Vectors, VectorOf
  <2>7. Product(f) = x
    BY <1>4, <1>6, <1>7, <1>9, <2>2, <2>5, RoundKeepsTheProduct
  <2>8. QED
    BY <2>3, <2>5, <2>6, <2>7
<1>14. QED
  <2>1. f \in [a : Seq(Scalar), b : Seq(Scalar), g : Seq(Scalar), h : Seq(Scalar)]
    BY <1>11 DEF Vectors
  <2>2. range' \in [step : {"folding"}, bitLength : 1 .. MaxBitLength,
                    vectors : [a : Seq(Scalar), b : Seq(Scalar), g : Seq(Scalar), h : Seq(Scalar)],
                    rounds : Nat, expected : Scalar]
    BY <1>8, <1>12, <2>1
  <2>3. Vectors(range'.vectors, m)
    BY <1>8, <1>11
  <2>4. QED
    BY <1>10, <1>13, <2>2, <2>3 DEF RangeFolding

(* The end: nothing to go, so the rounds are the power of the length.      *)
LEMMA EmitTellsTheRounds ==
  ASSUME RangeFolding, Emit
  PROVE  RangeProved'
<1>1. PICK b \in 1 .. MaxBitLength, r \in Nat : b = range.bitLength /\ r = range.rounds
  BY DEF RangeFolding
<1>2. PICK s \in Nat : s = ProofSize(r)
  BY DEF ProofSize
<1>3. range' = [step |-> "proved", single |-> TRUE, proof |-> [bitLength |-> b, size |-> s]]
  BY <1>1, <1>2 DEF Emit
<1>4. r \in 0 .. s
  BY <1>2 DEF ProofSize
<1>5. ASSUME NEW k \in 0 .. b, b = PowerOfTwo[k]
      PROVE  r = k
  <2>1. PICK j \in 0 .. k : k = r + j /\ Len(range.vectors.a) = PowerOfTwo[j]
    BY <1>1, <1>5 DEF RangeFolding, OnCourse
  <2>2. PowerOfTwo[j] <= 1
    BY <2>1 DEF Emit
  <2>3. j = 0
    <3>1. SUFFICES ASSUME j # 0 PROVE FALSE
      OBVIOUS
    <3>2. j \in Nat /\ 0 < j
      BY <3>1
    <3>3. 1 < PowerOfTwo[j] /\ PowerOfTwo[j] \in Nat
      BY <3>2, PowersOfTwoGrow, PowersOfTwo
    <3>4. QED
      BY <2>2, <3>3
  <2>4. QED
    BY <2>1, <2>3
<1>6. SizeOf([bitLength |-> b, size |-> s], TRUE, r)
  BY <1>2 DEF SizeOf
<1>7. range' \in [step : {"proved"}, single : BOOLEAN,
                  proof : [bitLength : 1 .. MaxBitLength, size : Nat]]
  BY <1>3
<1>8. range'.single = TRUE /\ range'.proof = [bitLength |-> b, size |-> s]
  BY <1>3
<1>9. /\ range'.proof.size = s /\ range'.proof.bitLength = b
      /\ SizeOf(range'.proof, range'.single, r)
  <2>1. range'.proof.size = s /\ range'.proof.bitLength = b
    BY <1>8
  <2>2. SizeOf(range'.proof, range'.single, r)
    BY <1>6, <1>8, Zenon
  <2>3. QED
    BY <2>1, <2>2
<1>10. QED
  BY <1>4, <1>5, <1>7, <1>9, Zenon DEF RangeProved

(* aggregate: the size of one proof is inside, behind the commitments.     *)
LEMMA AggregateTellsTheRounds ==
  ASSUME RangeProved, Aggregate
  PROVE  RangeProved'
<1>1. PICK n \in 1 .. MaxProofs :
        range' = [range EXCEPT !.single = FALSE, !.proof = aggregate(@, n)]
  BY DEF Aggregate
<1>2. PICK b \in 1 .. MaxBitLength, s \in Nat :
        range = [step |-> "proved", single |-> TRUE, proof |-> [bitLength |-> b, size |-> s]]
  BY DEF RangeProved, Aggregate
<1>3. range.single = TRUE /\ range.proof = [bitLength |-> b, size |-> s]
  BY <1>2
<1>4. PICK r \in 0 .. s :
        s = ProofSize(r) /\ \A k \in 0 .. b : b = PowerOfTwo[k] => r = k
  BY <1>3 DEF RangeProved, SizeOf
<1>5. n \in Nat /\ n > 0
  BY RangeAssumption
<1>6. PICK t \in Nat : t = 1 + n + n * s /\ t >= s
  <2>1. n * s >= s /\ n * s \in Nat
    BY <1>5
  <2>2. QED
    BY <1>5, <2>1
<1>7. range' = [step |-> "proved", single |-> FALSE, proof |-> [bitLength |-> b, size |-> t]]
  <2>1. aggregate(range.proof, n) = [bitLength |-> b, size |-> t]
    BY <1>3, <1>6 DEF aggregate
  <2>2. range' = [range EXCEPT !.single = FALSE, !.proof = [bitLength |-> b, size |-> t]]
    BY <1>1, <2>1
  <2>3. QED
    BY <1>2, <2>2
<1>8. range'.single = FALSE /\ range'.proof = [bitLength |-> b, size |-> t]
  BY <1>7
<1>9. SizeOf([bitLength |-> b, size |-> t], FALSE, r)
  BY <1>4, <1>6 DEF SizeOf
<1>10. r \in 0 .. t
  BY <1>6
<1>11. range' \in [step : {"proved"}, single : BOOLEAN,
                   proof : [bitLength : 1 .. MaxBitLength, size : Nat]]
  BY <1>7
<1>12. /\ range'.proof.size = t /\ range'.proof.bitLength = b
       /\ SizeOf(range'.proof, range'.single, r)
  <2>1. range'.proof.size = t /\ range'.proof.bitLength = b
    BY <1>8
  <2>2. SizeOf(range'.proof, range'.single, r)
    BY <1>8, <1>9, Zenon
  <2>3. QED
    BY <2>1, <2>2
<1>13. QED
  BY <1>4, <1>10, <1>11, <1>12, Zenon DEF RangeProved

(* The steps keep what is so between them.                                 *)
THEOREM RangeInvariant == RangeSpec => []RangeInv
<1>1. RangeInit => RangeInv
  BY DEF RangeInit, RangeInv, RangeStarted
<1>2. RangeInv /\ [RangeNext]_range => RangeInv'
  <2>1. SUFFICES ASSUME RangeInv, [RangeNext]_range PROVE RangeInv'
    OBVIOUS
  <2>2. CASE prove
    BY <2>2, ProveStartsOnCourse DEF RangeInv
  <2>3. CASE FoldRound
    <3>1. RangeFolding
      BY <2>1, <2>3 DEF RangeInv, RangeStarted, RangeProved, FoldRound
    <3>2. QED
      BY <2>3, <3>1, FoldStaysOnCourse DEF RangeInv
  <2>4. CASE Emit
    <3>1. RangeFolding
      BY <2>1, <2>4 DEF RangeInv, RangeStarted, RangeProved, Emit
    <3>2. QED
      BY <2>4, <3>1, EmitTellsTheRounds DEF RangeInv
  <2>5. CASE Aggregate
    <3>1. RangeProved
      BY <2>1, <2>5 DEF RangeInv, RangeStarted, RangeFolding, Aggregate
    <3>2. QED
      BY <2>5, <3>1, AggregateTellsTheRounds DEF RangeInv
  <2>6. CASE UNCHANGED range
    BY <2>1, <2>6 DEF RangeInv, RangeStarted, RangeFolding, RangeProved, OnCourse, SizeOf
  <2>7. QED
    BY <2>1, <2>2, <2>3, <2>4, <2>5, <2>6 DEF RangeNext
<1>3. QED
  BY <1>1, <1>2, PTL DEF RangeSpec

(***************************************************************************)
(* Folding keeps what the vectors commit to (innerProductProve).           *)
(***************************************************************************)
THEOREM Folding == RangeSpec => []FoldingKeepsTheProduct
<1>1. RangeInv => FoldingKeepsTheProduct
  <2>1. SUFFICES ASSUME RangeInv, range.step = "folding", IsPowerOfTwo(range.bitLength)
                 PROVE  Product(range.vectors) = range.expected
    BY DEF FoldingKeepsTheProduct
  <2>2. RangeFolding
    BY <2>1 DEF RangeInv, RangeStarted, RangeProved
  <2>3. QED
    BY <2>1, <2>2 DEF RangeFolding, OnCourse, IsPowerOfTwo
<1>2. QED
  BY <1>1, RangeInvariant, PTL

(***************************************************************************)
(* verify takes the proofs of a single value with a power of two as its    *)
(* length, and no other of those the SDK makes.                            *)
(***************************************************************************)
THEOREM Verification == RangeSpec => []VerifyTakesSinglePowersOfTwo
<1>1. RangeInv => VerifyTakesSinglePowersOfTwo
  <2>1. SUFFICES ASSUME RangeInv, range.step = "proved"
                 PROVE  verify(range.proof) <=> range.single /\ IsPowerOfTwo(range.proof.bitLength)
    BY DEF VerifyTakesSinglePowersOfTwo
  <2>2. RangeProved
    BY <2>1 DEF RangeInv, RangeStarted, RangeFolding
  <2>3. PICK b \in 1 .. MaxBitLength, s \in Nat, single \in BOOLEAN :
          range.proof = [bitLength |-> b, size |-> s] /\ range.single = single
    BY <2>2 DEF RangeProved
  <2>4. PICK r \in 0 .. s :
          /\ SizeOf(range.proof, single, r)
          /\ \A k \in 0 .. b : b = PowerOfTwo[k] => r = k
    BY <2>2, <2>3 DEF RangeProved
  <2>5. CASE ~IsPowerOfTwo(b)
    BY <2>3, <2>5 DEF verify
  <2>6. CASE IsPowerOfTwo(b)
    <3>1. log2(b) \in 0 .. b /\ b = PowerOfTwo[log2(b)]
      BY <2>6 DEF IsPowerOfTwo, log2
    <3>2. r = log2(b)
      BY <2>4, <3>1
    <3>3. verify(range.proof) <=> s = ProofSize(r)
      BY <2>3, <2>6, <3>2 DEF verify
    <3>4. CASE single
      BY <2>3, <2>4, <2>6, <3>3, <3>4 DEF SizeOf
    <3>5. CASE ~single
      <4>1. PICK n \in 1 .. MaxProofs : s = 1 + n + n * ProofSize(r)
        BY <2>3, <2>4, <3>5 DEF SizeOf
      <4>2. n \in Nat /\ n > 0
        BY RangeAssumption
      <4>3. PICK p \in Nat : p = ProofSize(r)
        BY DEF ProofSize
      <4>4. n * p >= p
        BY <4>2
      <4>5. s # p
        BY <4>1, <4>2, <4>3, <4>4
      <4>6. QED
        BY <2>3, <3>3, <3>5, <4>3, <4>5
    <3>6. QED
      BY <3>4, <3>5
  <2>7. QED
    BY <2>5, <2>6, <2>3
<1>2. QED
  BY <1>1, RangeInvariant, PTL
=============================================================================
