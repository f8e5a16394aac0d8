----------------------------- MODULE RangeProof -----------------------------
(***************************************************************************)
(* The range prover of sdk/src/crypto/bulletproof.ts: the bits of a value  *)
(* as two vectors, hidden by drawn ones and folded to one entry each by    *)
(* the rounds of an inner product argument.  A proof is its layout, in     *)
(* points and scalars of 32 bytes each.  The commitments to the polynomial *)
(* (T1, T2 and their openings) are four of those and nothing more here.    *)
(***************************************************************************)
EXTENDS Ristretto, FiniteSetsExt

(* 1n << k                                                                 *)
PowerOfTwo[k \in Nat] == IF k = 0 THEN 1 ELSE 2 * PowerOfTwo[k - 1]

CONSTANTS GVec, HVec,   \* deriveGeneratorVectors, as far as the model needs them
          BitLengths,   \* the bitLength asked for
          Masks,        \* what is drawn for sL and sR
          Challenges,   \* what the transcript answers, all but zero
          MaxProofs     \* bound on the proofs that are aggregated

VARIABLE range

ASSUME RangeAssumption ==
  /\ GVec \in Seq(Point) /\ HVec \in Seq(Point) /\ Len(GVec) = Len(HVec)
  /\ BitLengths \subseteq 0 .. Len(GVec) + 1
  /\ Masks \subseteq [1 .. Len(GVec) -> Scalar \ {0}]
  /\ Challenges \subseteq Scalar \ {0} /\ MaxProofs \in Nat

MaxBitLength == Len(GVec)       \* 128 in the code

bitsLE(value, nBits) == [i \in 1 .. nBits |-> (value \div PowerOfTwo[i - 1]) % 2]

Dot(v, w, n) ==
  LET upTo[i \in 0 .. n] == IF i = 0 THEN ZERO ELSE Plus(upTo[i - 1], Times(w[i], v[i]))
  IN  upTo[n]

(* What the vectors commit to: <a, g> + <b, h>.                            *)
Product(w) == Plus(Dot(w.a, w.g, Len(w.a)), Dot(w.b, w.h, Len(w.b)))

(***************************************************************************)
(* One round: `half` is rounded down, and an entry too many is dropped.    *)
(***************************************************************************)
Half(w) == Len(w.a) \div 2
Lo(v, half) == SubSeq(v, 1, half)
Hi(v, half) == SubSeq(v, half + 1, Len(v))

LeftTerm(w) ==
  LET half == Half(w)
  IN  Plus(Dot(Lo(w.a, half), Hi(w.g, half), half), Dot(Hi(w.b, half), Lo(w.h, half), half))

RightTerm(w) ==
  LET half == Half(w)
  IN  Plus(Dot(Hi(w.a, half), Lo(w.g, half), half), Dot(Lo(w.b, half), Hi(w.h, half), half))

FoldVector(v, half, lo, hi) ==
  [i \in 1 .. half |-> (Lo(v, half)[i] * lo + Hi(v, half)[i] * hi) % Q]

(* Fault: the generators are folded like the scalars they go with.         *)
FoldVectors_SameSide(w, u) ==
  LET half == Half(w)
      uInv == invScalar(u)
  IN  [a |-> FoldVector(w.a, half, u, uInv), b |-> FoldVector(w.b, half, uInv, u),
       g |-> FoldVector(w.g, half, u, uInv), h |-> FoldVector(w.h, half, uInv, u)]

FoldVectors(w, u) ==
  LET half == Half(w)
      uInv == invScalar(u)
  IN  [a |-> FoldVector(w.a, half, u, uInv), b |-> FoldVector(w.b, half, uInv, u),
       g |-> FoldVector(w.g, half, uInv, u), h |-> FoldVector(w.h, half, u, uInv)]

(***************************************************************************)
(* The layout: A, S, T1, T2; tau_x, mu, t_hat; L and R of each round; the  *)
(* last a and b.                                                           *)
(***************************************************************************)
ProofSize(rounds) == 4 + 3 + 2 * rounds + 2

IsPowerOfTwo(n) == \E k \in 0 .. n : n = PowerOfTwo[k]
log2(n) == CHOOSE k \in 0 .. n : n = PowerOfTwo[k]

(* Fault: a length that is no power of two is rounded, not refused.        *)
verify_Rounding(proof) ==
  /\ proof.bitLength \in 1 .. MaxBitLength
  /\ proof.size = ProofSize(Max({k \in 0 .. proof.bitLength : PowerOfTwo[k] <= proof.bitLength}))

(* The rest of verify asks for points where there are points.              *)
verify(proof) ==
  /\ proof.bitLength \in 1 .. MaxBitLength
  /\ IsPowerOfTwo(proof.bitLength)
  /\ proof.size = ProofSize(log2(proof.bitLength))

(* The linkage scalar, the commitments, the proofs.                        *)
aggregate(proof, n) == [bitLength |-> proof.bitLength, size |-> 1 + n + n * proof.size]

-----------------------------------------------------------------------------
RangeInit == range = [step |-> "start"]

(***************************************************************************)
(* prove, up to the call of innerProductProve: aL and aR + z, each with    *)
(* its mask.  It refuses no length but those out of bounds.                *)
(***************************************************************************)
prove ==
  /\ range.step = "start"
  /\ \E n \in BitLengths \cap 1 .. MaxBitLength :
       \E value \in 0 .. PowerOfTwo[n] - 1, sL, sR \in Masks, z \in Challenges :
         LET aL == bitsLE(value, n)
             aR == [i \in 1 .. n |-> aL[i] - 1]
             w == [a |-> [i \in 1 .. n |-> Plus(aL[i], sL[i])],
                   b |-> [i \in 1 .. n |-> Plus(aR[i] + z, sR[i])],
                   g |-> SubSeq(GVec, 1, n), h |-> SubSeq(HVec, 1, n)]
         IN  range' = [step |-> "folding", bitLength |-> n, vectors |-> w, rounds |-> 0,
                       expected |-> Product(w)]

(* A round of innerProductProve; `expected` is what its terms make of it.  *)
FoldRound ==
  /\ range.step = "folding"
  /\ Len(range.vectors.a) > 1
  /\ \E u \in Challenges :
       LET uInv == invScalar(u)
           w == range.vectors
       IN  range' = [range EXCEPT
                       !.vectors = FoldVectors(w, u), !.rounds = @ + 1,
                       !.expected = (@ + u * u * LeftTerm(w) + uInv * uInv * RightTerm(w)) % Q]

Emit ==
  /\ range.step = "folding"
  /\ Len(range.vectors.a) <= 1
  /\ range' = [step |-> "proved", single |-> TRUE,
               proof |-> [bitLength |-> range.bitLength, size |-> ProofSize(range.rounds)]]

Aggregate ==
  /\ range.step = "proved"
  /\ range.single
  /\ \E n \in 1 .. MaxProofs :
       range' = [range EXCEPT !.single = FALSE, !.proof = aggregate(@, n)]

RangeNext == prove \/ FoldRound \/ Emit \/ Aggregate

RangeSpec == RangeInit /\ [][RangeNext]_range

-----------------------------------------------------------------------------
(***************************************************************************)
(* The rounds keep what the vectors commit to, up to the terms L and R     *)
(* they put into the proof and the squares of their challenges: the        *)
(* equation a verifier of the argument relies on.  It takes a length that  *)
(* is a power of two, which prove does not ask for (bulletproof.ts:276).   *)
(***************************************************************************)
FoldingKeepsTheProduct ==
  range.step = "folding" /\ IsPowerOfTwo(range.bitLength) =>
    Product(range.vectors) = range.expected

(***************************************************************************)
(* Of the proofs the SDK makes, its own verify takes those of a single     *)
(* value with a power of two as length, and no other: a proof of another   *)
(* length or an aggregate is made without complaint and refused.           *)
(***************************************************************************)
VerifyTakesSinglePowersOfTwo ==
  range.step = "proved" =>
    (verify(range.proof) <=> range.single /\ IsPowerOfTwo(range.proof.bitLength))
=============================================================================
