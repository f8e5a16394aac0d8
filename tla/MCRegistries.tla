---------------------------- MODULE MCRegistries ----------------------------
(***************************************************************************)
(* Values for the constants of Registries: two administrators that hand    *)
(* the config over to each other, one mint, one owner with two nonces.     *)
(* The compiled TTL bounds of 60 seconds and 30 days become 1 and 2 ticks. *)
(* One proof of each kind is shown with every context.                     *)
(***************************************************************************)
EXTENDS Registries, TLC

CONSTANTS a1, a2, o1, k1, k2, b1, c1, c2, c3

MCSymmetry == Permutations({c1, c2, c3}) \cup Permutations({k1, k2}) \cup Permutations({a1, a2})

MCFields ==
  {[tag |-> "Paused", value |-> TRUE], [tag |-> "Paused", value |-> FALSE],
   [tag |-> "Admin", value |-> a1], [tag |-> "Admin", value |-> a2]}

MCCooldowns == {-1, 1, 2}
=============================================================================
