----------------------------- MODULE Ristretto -----------------------------
(***************************************************************************)
(* The group of sdk/src/crypto: a point is written as its discrete         *)
(* logarithm to the base G, so that points and scalars are both numbers    *)
(* modulo the order.  The points of the SDK all have one: H and the vectors *)
(* of generators are multiples of G by a hash.                             *)
(***************************************************************************)
EXTENDS Integers, Sequences

CONSTANT Q              \* CURVE_ORDER, a prime

ASSUME RistrettoAssumption ==
  /\ Q \in Nat \ {0, 1}
  /\ \A a \in 2 .. Q - 1 : Q % a # 0

Scalar == 0 .. Q - 1
Point == 0 .. Q - 1
ZERO == 0
baseG == 1

Plus(a, b) == (a + b) % Q
Minus(a, b) == (a - b) % Q

(* The library throws when it multiplies by a zero scalar: Multipliable is *)
(* the guard of each use of Times by the code that does not test for zero. *)
Times(p, k) == (p * k) % Q
Multipliable(k) == k % Q # 0

multBaseG(k) == Times(baseG, k)

(***************************************************************************)
(* invMod: the extended Euclidean algorithm, on <<oldR, r, oldS, s>>.      *)
(***************************************************************************)
Euclid[t \in Nat \X Nat \X Int \X Int] ==
  LET q == t[1] \div t[2]
  IN  IF t[2] = 0 THEN t[3]
      ELSE Euclid[<<t[2], t[1] - q * t[2], t[4], t[3] - q * t[4]>>]

invMod(a) == Euclid[<<a % Q, Q, 1, 0>>] % Q

(***************************************************************************)
(* invScalar: a raised to the power Q - 2 by squaring, on                  *)
(* <<exponent, base, result>>.                                             *)
(***************************************************************************)
SquareMultiply[t \in Nat \X Scalar \X Scalar] ==
  IF t[1] = 0 THEN t[3]
  ELSE SquareMultiply[<<t[1] \div 2, Times(t[2], t[2]),
                        IF t[1] % 2 = 1 THEN Times(t[3], t[2]) ELSE t[3]>>]

invScalar(s) == SquareMultiply[<<Q - 2, s % Q, 1>>]
=============================================================================
