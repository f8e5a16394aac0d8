------------------------------ MODULE MCLedger ------------------------------
(***************************************************************************)
(* Values for the constants of ConfidentialLedger: two owners, one of whom *)
(* starts with everything, a dust-free unit of two.                        *)
(***************************************************************************)
EXTENDS LedgerRefinement

CONSTANTS a1, alice, bob

MCFields == {[tag |-> "Paused", value |-> TRUE], [tag |-> "Paused", value |-> FALSE]}

MCSupply == [h \in {alice, bob} |-> IF h = alice THEN 4 ELSE 0]
=============================================================================
