---------------------------- MODULE SigmaProofs ----------------------------
(***************************************************************************)
(* The three proofs of sdk/src/crypto/sigma.ts: that two ciphertexts hold  *)
(* the same number (equality), that a key has a secret (pubkey), that a    *)
(* ciphertext holds zero (zero).  Each is an announcement, a challenge and *)
(* the responses to it.  The code takes the challenge from a hash of the   *)
(* statement and the announcement; here it is any scalar, so that what     *)
(* holds, holds for every hash.                                            *)
(*                                                                         *)
(* A run is an honest proof, or the two accepted answers that somebody     *)
(* gives to two challenges for one announcement.                           *)
(***************************************************************************)
EXTENDS Ristretto

CONSTANTS H,            \* twistedH()
          SourceKeys, DestKeys, \* the public keys of senders and receivers
          Draws,        \* what randomBytes gives, reduced
          Randomness,   \* the randomness of the ciphertexts
          Shown,        \* the points in the statements put to a verifier
          FirstChallenges, SecondChallenges \* the challenges that are answered

VARIABLE sigma

ASSUME SigmaAssumption ==
  /\ H \in Point \ {ZERO}
  /\ SourceKeys \cup DestKeys \cup Shown \subseteq Point
  /\ Draws \cup Randomness \cup FirstChallenges \cup SecondChallenges \subseteq Scalar

pedersenC1(v, r) == Plus(Times(H, v), multBaseG(r))

Ciphertext(pk, v, r) == [c1 |-> pedersenC1(v, r), c2 |-> Times(pk, r)]

Response(t, challenge, secret) == (t + challenge * secret) % Q

(* X = A + challenge * C, as the verifiers write it.                       *)
Matches(lhs, A, challenge, C) == lhs = Plus(A, Times(C, challenge))

-----------------------------------------------------------------------------
(* Equality: the responses are for the number and for the two randomness.  *)
EqualityAnnouncement(st, t) ==
  <<Plus(Times(H, t[1]), multBaseG(t[2])), Plus(Times(H, t[1]), multBaseG(t[3])),
    Times(st.sourcePk, t[2]), Times(st.destPk, t[3])>>

EqualityResponse(t, challenge, w) ==
  <<Response(t[1], challenge, w[1]), Response(t[2], challenge, w[2]),
    Response(t[3], challenge, w[3])>>

(* Fault: the fourth equation is not checked.                              *)
verifyEquality_NoDestinationKey(st, A, challenge, z) ==
  /\ Multipliable(challenge) /\ \A i \in 1 .. 3 : Multipliable(z[i])
  /\ Matches(Plus(Times(H, z[1]), multBaseG(z[2])), A[1], challenge, st.sourceCt.c1)
  /\ Matches(Plus(Times(H, z[1]), multBaseG(z[3])), A[2], challenge, st.destCt.c1)
  /\ Matches(Times(st.sourcePk, z[2]), A[3], challenge, st.sourceCt.c2)

(* A zero scalar makes the library throw, and what throws is false.        *)
verifyEquality(st, A, challenge, z) ==
  /\ Multipliable(challenge) /\ \A i \in 1 .. 3 : Multipliable(z[i])
  /\ Matches(Plus(Times(H, z[1]), multBaseG(z[2])), A[1], challenge, st.sourceCt.c1)
  /\ Matches(Plus(Times(H, z[1]), multBaseG(z[3])), A[2], challenge, st.destCt.c1)
  /\ Matches(Times(st.sourcePk, z[2]), A[3], challenge, st.sourceCt.c2)
  /\ Matches(Times(st.destPk, z[3]), A[4], challenge, st.destCt.c2)

(* Pubkey validity.                                                        *)
PubkeyAnnouncement(t) == <<multBaseG(t[1])>>
PubkeyResponse(t, challenge, w) == <<Response(t[1], challenge, w[1])>>

verifyPubkeyValidity(st, A, challenge, z) ==
  /\ Multipliable(challenge) /\ Multipliable(z[1])
  /\ Matches(multBaseG(z[1]), A[1], challenge, st.pk)

(* Zero balance.                                                           *)
ZeroAnnouncement(st, t) == <<multBaseG(t[1]), Times(st.pk, t[1])>>

(* Fault: the response leaves the randomness of the ciphertext out.        *)
ZeroResponse_NoSecret(t, challenge, w) == <<Response(t[1], challenge, 1)>>

ZeroResponse(t, challenge, w) == <<Response(t[1], challenge, w[1])>>

verifyZeroBalance(st, A, challenge, z) ==
  /\ Multipliable(challenge) /\ Multipliable(z[1])
  /\ Matches(multBaseG(z[1]), A[1], challenge, st.ct.c1)
  /\ Matches(Times(st.pk, z[1]), A[2], challenge, st.ct.c2)

Accepts(kind, st, A, challenge, z) ==
  CASE kind = "equality" -> verifyEquality(st, A, challenge, z)
    [] kind = "pubkey" -> verifyPubkeyValidity(st, A, challenge, z)
    [] kind = "zero" -> verifyZeroBalance(st, A, challenge, z)

-----------------------------------------------------------------------------
SigmaInit == sigma = [step |-> "start"]

Proved(kind, st, A, challenge, z) ==
  sigma' = [step |-> "proved", kind |-> kind, statement |-> st, announcement |-> A,
            challenge |-> challenge, response |-> z]

(***************************************************************************)
(* proveEquality: a zero draw or a zero randomness makes the library       *)
(* throw, and there is no proof.                                           *)
(***************************************************************************)
proveEquality ==
  /\ sigma.step = "start"
  /\ \E sourcePk \in SourceKeys, destPk \in DestKeys, v, c \in Scalar,
        rS, rD \in Randomness, t \in [1 .. 3 -> Draws] :
       LET st == [sourcePk |-> sourcePk, destPk |-> destPk,
                  sourceCt |-> Ciphertext(sourcePk, v, rS), destCt |-> Ciphertext(destPk, v, rD)]
       IN  /\ Multipliable(rS) /\ Multipliable(rD)
           /\ \A i \in 1 .. 3 : Multipliable(t[i])
           /\ Proved("equality", st, EqualityAnnouncement(st, t), c,
                     EqualityResponse(t, c, <<v, rS, rD>>))

(* multBaseG allows a zero draw; a zero key is refused.                    *)
provePubkeyValidity ==
  /\ sigma.step = "start"
  /\ \E sk, c \in Scalar, t \in [{1} -> Draws] :
       /\ sk # 0
       /\ Proved("pubkey", [pk |-> multBaseG(sk)], PubkeyAnnouncement(t), c,
                 PubkeyResponse(t, c, <<sk>>))

proveZeroBalance ==
  /\ sigma.step = "start"
  /\ \E pk \in SourceKeys, r \in Randomness, c \in Scalar, t \in [{1} -> Draws] :
       LET st == [pk |-> pk, ct |-> Ciphertext(pk, 0, r)]
       IN  /\ Multipliable(t[1])
           /\ Proved("zero", st, ZeroAnnouncement(st, t), c, ZeroResponse(t, c, <<r>>))

(***************************************************************************)
(* What a verifier may be shown: any statement, true or not, with an       *)
(* announcement, a challenge and responses it accepts.                     *)
(***************************************************************************)
AnyCiphertext == [c1 : Shown, c2 : Shown]

Statements(kind) ==
  CASE kind = "equality" -> [sourcePk : SourceKeys, destPk : DestKeys, sourceCt : AnyCiphertext,
                             destCt : AnyCiphertext]
    [] kind = "pubkey" -> [pk : Shown]
    [] kind = "zero" -> [pk : SourceKeys, ct : AnyCiphertext]

Responses(kind) == [1 .. (IF kind = "equality" THEN 3 ELSE 1) -> Scalar]

(* The announcement that the equations leave for an answer.                *)
Simulated(kind, st, c, z) ==
  LET Rest(lhs, C) == Minus(lhs, Times(C, c))
  IN  CASE kind = "equality" ->
             <<Rest(Plus(Times(H, z[1]), multBaseG(z[2])), st.sourceCt.c1),
               Rest(Plus(Times(H, z[1]), multBaseG(z[3])), st.destCt.c1),
               Rest(Times(st.sourcePk, z[2]), st.sourceCt.c2),
               Rest(Times(st.destPk, z[3]), st.destCt.c2)>>
        [] kind = "pubkey" -> <<Rest(multBaseG(z[1]), st.pk)>>
        [] kind = "zero" -> <<Rest(multBaseG(z[1]), st.ct.c1), Rest(Times(st.pk, z[1]), st.ct.c2)>>

FirstAnswer ==
  /\ sigma.step = "start"
  /\ \E kind \in {"equality", "pubkey", "zero"} :
       \E st \in Statements(kind), c \in FirstChallenges, z \in Responses(kind) :
         LET A == Simulated(kind, st, c, z)
         IN  /\ Accepts(kind, st, A, c, z)
             /\ sigma' = [step |-> "answered", kind |-> kind, statement |-> st,
                          announcement |-> A, challenge |-> c, response |-> z]

SecondAnswer ==
  /\ sigma.step = "answered"
  /\ \E c \in SecondChallenges \ {sigma.challenge}, z \in Responses(sigma.kind) :
       /\ Accepts(sigma.kind, sigma.statement, sigma.announcement, c, z)
       /\ sigma' = [step |-> "answered twice", kind |-> sigma.kind,
                    statement |-> sigma.statement,
                    witness |-> [i \in DOMAIN z |->
                                   Times(Minus(z[i], sigma.response[i]),
                                         invMod(Minus(c, sigma.challenge)))]]

SigmaNext ==
  proveEquality \/ provePubkeyValidity \/ proveZeroBalance \/ FirstAnswer \/ SecondAnswer

SigmaSpec == SigmaInit /\ [][SigmaNext]_sigma

-----------------------------------------------------------------------------
(***************************************************************************)
(* A proof made by the SDK is accepted by the SDK, whatever was drawn and  *)
(* whatever the challenge; except when the challenge or a response is      *)
(* zero, where the verifier's library throws.                              *)
(***************************************************************************)
HonestProofsAreAccepted ==
  sigma.step = "proved" =>
    \/ Accepts(sigma.kind, sigma.statement, sigma.announcement, sigma.challenge,
               sigma.response)
    \/ ~Multipliable(sigma.challenge)
    \/ \E i \in DOMAIN sigma.response : ~Multipliable(sigma.response[i])

(* What a proof claims of its statement, for the secrets w.                *)
Claim(kind, st, w) ==
  CASE kind = "equality" -> /\ st.sourceCt = Ciphertext(st.sourcePk, w[1], w[2])
                            /\ st.destCt = Ciphertext(st.destPk, w[1], w[3])
    [] kind = "pubkey" -> st.pk = multBaseG(w[1])
    [] kind = "zero" -> st.ct = Ciphertext(st.pk, 0, w[1])

(***************************************************************************)
(* Who can answer two challenges for one announcement knows the secrets of *)
(* the claim, so that the claim is true: what the equations of the three   *)
(* verifiers of sigma.ts are for.                                          *)
(***************************************************************************)
TwoAnswersGiveTheWitness ==
  sigma.step = "answered twice" => Claim(sigma.kind, sigma.statement, sigma.witness)
=============================================================================
