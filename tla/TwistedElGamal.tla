--------------------------- MODULE TwistedElGamal ---------------------------
(***************************************************************************)
(* The cipher of the SDK, sdk/src/crypto/elgamal.ts, and the life of one   *)
(* ciphertext: a balance that is encrypted to a key, added to, subtracted  *)
(* from, scaled and given new randomness by whoever holds the public key,  *)
(* and at any time decrypted by the owner of the key.                      *)
(***************************************************************************)
EXTENDS Ristretto, FiniteSetsExt

CONSTANTS DefaultH,     \* the generator H the SDK derives for itself
          OtherHs,      \* those an application may set
          Sixteenth,    \* of the numbers that a hash is read as: 2^252 in the code
          Hashes,       \* the seeds' hashes
          Plaintexts,   \* those that are encrypted
          Factors,      \* the constants a ciphertext is scaled by
          Windows       \* the options of decrypt: the largest balance and the step

VARIABLES CACHED_H,     \* module state: the generator set, ZERO for none
          secretKey,    \* the owner's, ZERO before there is one
          ciphertext,   \* what the public key has been used for
          plaintext,    \* history: what it is worth
          encryptedUnder \* history: the generators its parts were encrypted with

elgamalVars == <<CACHED_H, secretKey, ciphertext, plaintext, encryptedUnder>>

(***************************************************************************)
(* The bounds keep the code's proportions: the order is a little more than *)
(* 2^252 for hashes of 256 bits, and a search stays below the order.       *)
(***************************************************************************)
ASSUME TwistedElGamalAssumption ==
  /\ Sixteenth \in Nat /\ Sixteenth % 2 = 0
  /\ Sixteenth < Q /\ Q < 2 * Sixteenth
  /\ Hashes \subseteq 0 .. 16 * Sixteenth - 1
  /\ DefaultH \in Point \ {ZERO} /\ OtherHs \subseteq Point \ {ZERO}
  /\ Plaintexts \subseteq Nat /\ Factors \subseteq Int
  /\ Windows \subseteq [maxBalance : Scalar, bsgsStep : Scalar \ {0}]

twistedH == IF CACHED_H = ZERO THEN DefaultH ELSE CACHED_H

(***************************************************************************)
(* keyPairFromSeed clears the lowest three bits of the hash and the        *)
(* highest, sets the next, and reduces the rest.                           *)
(***************************************************************************)
keyPairFromSeed(hash) ==
  (4 * Sixteenth + (hash % (4 * Sixteenth)) - (hash % 8)) % Q

publicKey == multBaseG(secretKey)

(* pedersenCommit, and the first half of a ciphertext.                     *)
pedersenCommit(m, r) == Plus(Times(twistedH, m), multBaseG(r))

encryptWithRandomness(pk, m, r) ==
  [c1 |-> pedersenCommit(m, r), c2 |-> Times(pk, r)]

zeroCiphertext(pk) == encryptWithRandomness(pk, 0, 1)

randomize(pk, c, r) == [c1 |-> Plus(c.c1, multBaseG(r)), c2 |-> Plus(c.c2, Times(pk, r))]

addCiphertexts(a, b) == [c1 |-> Plus(a.c1, b.c1), c2 |-> Plus(a.c2, b.c2)]

subCiphertexts(a, b) == [c1 |-> Minus(a.c1, b.c1), c2 |-> Minus(a.c2, b.c2)]

scaleCiphertext(a, k) == [c1 |-> Times(a.c1, k % Q), c2 |-> Times(a.c2, k % Q)]

NoPlaintext == -1       \* null

giantRounds(maxBalance, step) ==
  maxBalance \div step + (IF maxBalance % step = 0 THEN 0 ELSE 1)

(* Fault: the candidate is not compared with the bound.                    *)
discreteLogOnH_Unbounded(target, maxBalance, step) ==
  LET baby(p) == {i \in 0 .. step : Times(twistedH, i) = p}
      current(j) == Minus(target, Times(twistedH, j * step))
      hits == {j \in 0 .. giantRounds(maxBalance, step) : baby(current(j)) # {}}
  IN  IF hits = {} THEN NoPlaintext ELSE Min(hits) * step + Min(baby(current(Min(hits))))

(***************************************************************************)
(* Baby steps 0 .. step, of which the table keeps the first for a point,   *)
(* then giant steps of -step * H from the target, until a baby step is met *)
(* and makes a candidate within the bound.                                 *)
(***************************************************************************)
discreteLogOnH(target, maxBalance, step) ==
  LET baby(p) == {i \in 0 .. step : Times(twistedH, i) = p}
      current(j) == Minus(target, Times(twistedH, j * step))
      candidate(j) == j * step + Min(baby(current(j)))
      hits == {j \in 0 .. giantRounds(maxBalance, step) :
                 baby(current(j)) # {} /\ candidate(j) <= maxBalance}
  IN  IF hits = {} THEN NoPlaintext ELSE candidate(Min(hits))

decrypt(sk, c, opts) ==
  LET blinding == Times(c.c2, invMod(sk))
  IN  discreteLogOnH(Minus(c.c1, blinding), opts.maxBalance, opts.bsgsStep)

-----------------------------------------------------------------------------
NoCiphertext == [c1 |-> ZERO, c2 |-> ZERO]

ElGamalInit ==
  /\ CACHED_H = ZERO /\ secretKey = ZERO
  /\ ciphertext = NoCiphertext /\ plaintext = 0 /\ encryptedUnder = {}

keyGen ==
  /\ secretKey = ZERO
  /\ \E hash \in Hashes : secretKey' = keyPairFromSeed(hash)
  /\ UNCHANGED <<CACHED_H, ciphertext, plaintext, encryptedUnder>>

setTwistedH ==
  /\ \E h \in OtherHs : CACHED_H' = h
  /\ UNCHANGED <<secretKey, ciphertext, plaintext, encryptedUnder>>

(* randomNonZeroScalar *)
NonZero == Scalar \ {0}

Encrypt ==
  /\ secretKey # ZERO
  /\ \E m \in Plaintexts, r \in NonZero :
       /\ ciphertext' = encryptWithRandomness(publicKey, m, r)
       /\ plaintext' = m % Q
  /\ encryptedUnder' = {twistedH}
  /\ UNCHANGED <<CACHED_H, secretKey>>

EncryptZero ==
  /\ secretKey # ZERO
  /\ ciphertext' = zeroCiphertext(publicKey)
  /\ plaintext' = 0 /\ encryptedUnder' = {twistedH}
  /\ UNCHANGED <<CACHED_H, secretKey>>

Randomize ==
  /\ encryptedUnder # {}
  /\ \E r \in NonZero : ciphertext' = randomize(publicKey, ciphertext, r)
  /\ UNCHANGED <<CACHED_H, secretKey, plaintext, encryptedUnder>>

(* A deposit or a withdrawal of m, as another ciphertext.                  *)
Combine ==
  /\ encryptedUnder # {}
  /\ \E m \in Plaintexts, r \in NonZero :
       LET other == encryptWithRandomness(publicKey, m, r)
       IN  \/ /\ ciphertext' = addCiphertexts(ciphertext, other)
              /\ plaintext' = Plus(plaintext, m)
           \/ /\ ciphertext' = subCiphertexts(ciphertext, other)
              /\ plaintext' = Minus(plaintext, m)
  /\ encryptedUnder' = encryptedUnder \cup {twistedH}
  /\ UNCHANGED <<CACHED_H, secretKey>>

Scale ==
  /\ encryptedUnder # {}
  /\ \E k \in Factors :
       /\ ciphertext' = scaleCiphertext(ciphertext, k)
       /\ plaintext' = Times(plaintext, k % Q)
  /\ UNCHANGED <<CACHED_H, secretKey, encryptedUnder>>

ElGamalNext ==
  keyGen \/ setTwistedH \/ Encrypt \/ EncryptZero \/ Randomize \/ Combine \/ Scale

ElGamalSpec == ElGamalInit /\ [][ElGamalNext]_elgamalVars

-----------------------------------------------------------------------------
(***************************************************************************)
(* Whatever was done to a ciphertext, the owner of the key decrypts it to  *)
(* the number it is worth, if that is within the bound of the search, and  *)
(* to null if not: for every bound and step, those the step divides and    *)
(* those it does not.  It takes that no part of the ciphertext was made    *)
(* with another generator than the one set now (elgamal.ts caches it).     *)
(***************************************************************************)
DecryptsToThePlaintext ==
  encryptedUnder = {twistedH} =>
    \A opts \in Windows :
      decrypt(secretKey, ciphertext, opts) =
        IF plaintext <= opts.maxBalance THEN plaintext ELSE NoPlaintext
=============================================================================
