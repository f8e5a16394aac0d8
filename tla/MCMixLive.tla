----------------------------- MODULE MCMixLive ------------------------------
(***************************************************************************)
(* Values for the constants of MixRoundRefinement: one or two rounds, two  *)
(* participants, a host that does not join.                                *)
(***************************************************************************)
EXTENDS MixRoundRefinement

CONSTANTS a1, h1, p1, p2

MCFields ==
  {[tag |-> "Paused", value |-> TRUE], [tag |-> "Paused", value |-> FALSE],
   [tag |-> "MixMinParticipants", value |-> 2],
   [tag |-> "MixMinParticipants", value |-> 3]}

MCNoFields == {}
=============================================================================
