-------------------------- MODULE ShieldedAccounts --------------------------
(***************************************************************************)
(* What confidential balances promise to their owners, with no ciphertext, *)
(* no proof, no pending balance, no counter and no admin: money of two     *)
(* colours.                                                                *)
(*                                                                         *)
(*   - public money becomes shielded, and shielded money public again,     *)
(*     only in whole units and only in the account of one owner;           *)
(*   - shielded money moves between owners in any amount, never more of it *)
(*     than the payer has;                                                 *)
(*   - nothing else changes a balance.                                     *)
(***************************************************************************)
EXTENDS Integers

CONSTANTS
  Owners,
  Endowment,        \* public money each owner starts with
  Unit

VARIABLES
  open,             \* public money of each owner
  hidden            \* shielded money of each owner

balances == <<open, hidden>>

WholeUnits(amount) == amount > 0 /\ amount % Unit = 0

Init ==
  /\ open = Endowment
  /\ hidden = [o \in Owners |-> 0]

Hide(o, amount) ==
  /\ WholeUnits(amount)
  /\ open' = [open EXCEPT ![o] = @ - amount]
  /\ hidden' = [hidden EXCEPT ![o] = @ + amount]

Unhide(o, amount) ==
  /\ WholeUnits(amount)
  /\ open' = [open EXCEPT ![o] = @ + amount]
  /\ hidden' = [hidden EXCEPT ![o] = @ - amount]

Pay(o, to, amount) ==
  /\ hidden' = [[hidden EXCEPT ![o] = @ - amount] EXCEPT ![to] = @ + amount]
  /\ UNCHANGED open

Next ==
  \E o \in Owners :
    \/ \E amount \in 1..open[o] : Hide(o, amount)
    \/ \E amount \in 1..hidden[o] :
         \/ Unhide(o, amount)
         \/ \E to \in Owners : Pay(o, to, amount)

Spec == Init /\ [][Next]_balances
=============================================================================
