----------------------------- MODULE MCMixRound -----------------------------
(***************************************************************************)
(* Values for the constants of MixRound.  The compile-time bounds 4..16 of *)
(* the code are scaled to 3..3: three of the participants fill a round and *)
(* the fourth is late, and the admin can lower the minimum below the       *)
(* compiled one, to the 2 that config_update accepts.  The reveal window   *)
(* of 600 seconds is one tick.                                             *)
(***************************************************************************)
EXTENDS MixRound, TLC

CONSTANTS a1, h1, p1, p2, p3, p4

MCSymmetry == Permutations({p1, p2, p3, p4})

\* Every knob.  Those the rounds do not depend on get their initial value, or
\* one the handler refuses, so that they do not multiply the states.
MCFields ==
  {[tag |-> "Paused", value |-> v] : v \in BOOLEAN} \cup
  {[tag |-> "BurnerTtlMin", value |-> 2], [tag |-> "BurnerTtlMax", value |-> 3],
   [tag |-> "BurnerTtlMax", value |-> 2], [tag |-> "MixMaxParticipants", value |-> 3],
   [tag |-> "AuditorCosignLamports", value |-> 1], [tag |-> "Admin", value |-> a1]} \cup
  {[tag |-> t, value |-> v] : t \in {"DustFreeUnit", "BurnerRegistryCap", "MixRevealWindow"},
                              v \in 0 .. 1} \cup
  {[tag |-> "MixMinParticipants", value |-> v] : v \in 1 .. 3}
=============================================================================
