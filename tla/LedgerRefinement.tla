-------------------------- MODULE LedgerRefinement --------------------------
(***************************************************************************)
(* ConfidentialLedger keeps the promise of ShieldedAccounts.  What is      *)
(* pending and what is available is one balance there, so that applying,   *)
(* reading and every update of the config stutter.                         *)
(***************************************************************************)
EXTENDS ConfidentialLedger

openBar == [h \in Holders |-> tokens[h].public]
hiddenBar == [h \in Holders |-> tokens[h].pending + tokens[h].available]

Accounts == INSTANCE ShieldedAccounts
  WITH Owners <- Holders, Endowment <- Supply, Unit <- DUST_FREE_UNIT,
       open <- openBar, hidden <- hiddenBar

(***************************************************************************)
(* shield, apply_pending, confidential_transfer and withdraw implement     *)
(* ShieldedAccounts: however readings, credits, applies and proofs         *)
(* interleave, no money is made or lost, nobody pays what she has not got, *)
(* and only whole units enter or leave the shielded balances.              *)
(***************************************************************************)
KeepsTheMoney == Accounts!Spec

(***************************************************************************)
(* What there was at the start is what there is, public and shielded, over *)
(* all accounts.                                                           *)
(***************************************************************************)
MoneyIsConserved == Total(openBar) + Total(hiddenBar) = Total(Supply)
=============================================================================
