------------------------------- MODULE MCSdk --------------------------------
(***************************************************************************)
(* What the SDK computes on its own, each part for itself: the three of    *)
(* sdk/src/crypto, which share the group and no state, and the client's    *)
(* calls; and the deployment that goes before all of them.                 *)
(***************************************************************************)
EXTENDS TwistedElGamal, RangeProof, SigmaProofs, GhosClient, Deploy

VARIABLE subject        \* the part a behaviour is about

MCWindows == [maxBalance : Scalar, bsgsStep : Scalar \ {0}]
MCGVec == <<2, 6, 3, 5>>
MCHVec == <<3, 1, 4, 2>>
MCMasks == {<<1, 5, 4, 2>>, <<6, 3, 2, 5>>, <<6, 6, 1, 4>>}

MCDefaultKnobs ==
  [dustFreeUnit |-> 2, burnerTtlMin |-> 3, burnerTtlMax |-> 300, burnerRegistryCap |-> 20,
   mixMinParticipants |-> 2, mixMaxParticipants |-> 5, mixRevealWindow |-> 9,
   auditorCosignLamports |-> 70]

One(f, v) == f :> v

(* Every knob at the ends of its width and past them.                      *)
MCInitParams ==
  {<<>>} \cup {One("dustFreeUnit", v) : v \in {-5, 0, Radix ^ 8 - 1, Radix ^ 8}}
    \cup {One("burnerTtlMin", v) : v \in {-9, SafeNumber}}
    \cup {One("burnerRegistryCap", v) : v \in {Radix ^ 2 - 1, Radix ^ 2 + 3}}
    \cup {One("mixMaxParticipants", v) : v \in {Radix - 1, Radix + 2}}
    \cup {[mixRevealWindow |-> -1, auditorCosignLamports |-> Radix ^ 7]}

MCUpdates ==
  {<<>>, One("paused", TRUE), [paused |-> FALSE, dustFreeUnit |-> 4]}
    \cup {One(f, v) : f \in {"dustFreeUnit", "auditorCosignLamports"}, v \in {-5, 9, Radix ^ 8}}
    \cup {One(f, v) : f \in {"burnerTtlMax", "burnerTtlMin", "mixRevealWindow"}, v \in {-9, 77}}
    \cup {One("burnerRegistryCap", v) : v \in {60, Radix ^ 2}}
    \cup {One(f, v) : f \in {"mixMinParticipants", "mixMaxParticipants"}, v \in {0, 3, Radix}}

MCAmounts == {-2, 3, Radix ^ 8 - 2, Radix ^ 8}
MCNonces == {-1, 1, Radix, Radix ^ 8 - 1}
MCTtls == {-3, 60, SafeNumber}
MCIndices == {0, Radix - 1, Radix}
MCIndexLists == {<<1>>, <<0, 1>>, <<2, 1, 0>>, <<0, Radix + 1>>}
MCHandles == {<<0, 0>>, <<Radix ^ 4 - 1, 9>>}

(* The wallets, the byte strings and the rounds are interchangeable.       *)
MCSymmetry == Permutations(Wallets) \cup Permutations(Bytes) \cup Permutations(Rounds)
                \cup Permutations(Operators)

Init ==
  /\ subject \in {"cipher", "range", "sigma", "client", "deploy"}
  /\ ElGamalInit /\ RangeInit /\ SigmaInit /\ ClientInit
  /\ DeployInit
  /\ subject # "deploy" => account = NoConfig /\ program = EXPECTED_VERSION

vars == <<elgamalVars, range, sigma, clientVars, deployVars, subject>>

Next ==
  \/ /\ subject = "cipher" /\ ElGamalNext
     /\ UNCHANGED <<range, sigma, clientVars, deployVars, subject>>
  \/ /\ subject = "range" /\ RangeNext
     /\ UNCHANGED <<elgamalVars, sigma, clientVars, deployVars, subject>>
  \/ /\ subject = "sigma" /\ SigmaNext
     /\ UNCHANGED <<elgamalVars, range, clientVars, deployVars, subject>>
  \/ /\ subject = "client" /\ ClientNext
     /\ UNCHANGED <<elgamalVars, range, sigma, deployVars, subject>>
  \/ /\ subject = "deploy" /\ DeployNext
     /\ UNCHANGED <<elgamalVars, range, sigma, clientVars, subject>>

Spec == Init /\ [][Next]_vars
=============================================================================
