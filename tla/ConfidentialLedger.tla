------------------------- MODULE ConfidentialLedger -------------------------
(***************************************************************************)
(* Confidential balances: shield, apply_pending, confidential_transfer and *)
(* withdraw of the program, each of which checks its arguments and then    *)
(* calls the Token-2022 program, which keeps the balances (external).      *)
(*                                                                         *)
(* A ciphertext is the amount it encrypts.  A proof says of the ciphertext *)
(* it was made for that a debit leaves it non-negative; it does not verify *)
(* against another.  The owner sends what she computes from what was in    *)
(* the account when she last read it: several instructions, it may be,     *)
(* from one reading, and in any order with the credits of others.          *)
(***************************************************************************)
EXTENDS GhosConfig, FiniteSetsExt

CONSTANTS
  Holders,        \* confidential token accounts of one mint, one per owner
  Supply,         \* public balance each account starts with
  Amounts,        \* amounts a model puts into instructions
  MaxCredits,     \* maximum_pending_balance_credit_counter of an account
  Audited,        \* whether the mint has an AuditorEntry
  NotRead         \* the owner has read nothing yet

VARIABLES
  tokens,         \* the token accounts
  read,           \* what each owner has read, external to the program
  withdrawals     \* WithdrawExecuted events, amount and auditor_cosigned

vars == <<config, tokens, read, withdrawals>>

TokenAccount ==
  [ public      : Nat,
    pending     : Nat,
    available   : Nat,
    credits     : 0..MaxCredits,  \* pending_balance_credit_counter
    decryptable : Int,            \* decryptable_available_balance
    agrees      : BOOLEAN,        \* expected = actual counter of the last apply
    late        : BOOLEAN ]       \* history: the last apply was computed before
                                  \* another instruction of the owner landed

Reading ==
  [pending : Nat, available : Nat, credits : 0..MaxCredits,
   latest : BOOLEAN]              \* no instruction of the owner landed since

ASSUME LedgerAssumption ==
  /\ IsFiniteSet(Holders)
  /\ Supply \in [Holders -> Nat]
  /\ Amounts \subseteq Nat
  /\ MaxCredits \in Nat \ {0}
  /\ Audited \in BOOLEAN
  /\ NotRead \notin Reading

Event == [amount : Nat, auditor_cosigned : BOOLEAN]

-----------------------------------------------------------------------------
(* Fault: the remainder is not looked at.                                  *)
DustFree_AnyAbove(amount) == amount >= DUST_FREE_UNIT

DustFree(amount) == amount >= DUST_FREE_UNIT /\ amount % DUST_FREE_UNIT = 0

(* Fault: no range proof is passed on, so a debit may leave less than zero. *)
Provable_NoRange(h, amount) ==
  read[h] # NotRead /\ read[h].available = tokens[h].available

(* The debit of the balance that was read: it is the one proved about.     *)
Provable(h, amount) ==
  /\ read[h] # NotRead
  /\ read[h].available = tokens[h].available
  /\ amount <= tokens[h].available

InPublic(acc, balance) == [acc EXCEPT !.public = balance]

Credited(acc, amount) ==
  [acc EXCEPT !.pending = @ + amount, !.credits = @ + 1]

Debited(h, amount) ==
  [tokens[h] EXCEPT !.available = @ - amount,
                    !.decryptable = read[h].available - amount]

(* Fault: the program fills in the counter it finds instead of the owner's. *)
AppliedCounter_Current(h, expected) == tokens[h].credits

AppliedCounter(h, expected) == expected

(* Token-2022 takes any expected counter, and records it beside the actual. *)
Applied(h, expected, decryptable) ==
  [tokens[h] EXCEPT !.available = @ + tokens[h].pending,
                    !.pending = 0,
                    !.credits = 0,
                    !.decryptable = decryptable,
                    !.agrees = (AppliedCounter(h, expected) = tokens[h].credits),
                    !.late = ~read[h].latest]

Landed(h) == read' = [read EXCEPT ![h].latest = FALSE]

-----------------------------------------------------------------------------
(* get_account_info of the account by its owner, at any time.              *)
Read(h) ==
  /\ read' = [read EXCEPT ![h] = [pending |-> tokens[h].pending,
                                  available |-> tokens[h].available,
                                  credits |-> tokens[h].credits,
                                  latest |-> TRUE]]
  /\ UNCHANGED <<config, tokens, withdrawals>>

Shield(h, amount) ==
  /\ NotPaused
  /\ DustFree(amount)
  /\ amount <= tokens[h].public
  /\ tokens[h].credits < MaxCredits
  /\ tokens' = [tokens EXCEPT
       ![h] = Credited(InPublic(tokens[h], tokens[h].public - amount), amount)]
  /\ UNCHANGED <<config, read, withdrawals>>

(* Fault: a single credit is not worth applying.                           *)
SomethingToApply_Single(expected) == expected > 1

SomethingToApply(expected) == expected > 0

ApplyPending(h) ==
  /\ NotPaused
  /\ read[h] # NotRead
  /\ SomethingToApply(read[h].credits)
  /\ tokens' = [tokens EXCEPT
       ![h] = Applied(h, read[h].credits, read[h].available + read[h].pending)]
  /\ Landed(h)
  /\ UNCHANGED <<config, withdrawals>>

(* The amount is in no argument: it is what the ciphertexts encrypt.  The  *)
(* destination may be the source, whose balance is debited and credited.   *)
ConfidentialTransfer(h, to, amount) ==
  /\ NotPaused
  /\ Provable(h, amount)
  /\ tokens[to].credits < MaxCredits
  /\ tokens' = [[tokens EXCEPT ![h] = Debited(h, amount)] EXCEPT ![to] = Credited(@, amount)]
  /\ Landed(h)
  /\ UNCHANGED <<config, withdrawals>>

(***************************************************************************)
(* The client passes the auditor entry or not.  The amount is compared     *)
(* with no threshold and no signature but the owner's is asked for.        *)
(***************************************************************************)
Withdraw(h, amount) ==
  /\ NotPaused
  /\ DustFree(amount)
  /\ Provable(h, amount)
  /\ tokens' = [tokens EXCEPT ![h] = InPublic(Debited(h, amount), tokens[h].public + amount)]
  /\ Landed(h)
  /\ \E entry \in (IF Audited THEN BOOLEAN ELSE {FALSE}) :
       withdrawals' = withdrawals \cup {[amount |-> amount, auditor_cosigned |-> entry]}
  /\ UNCHANGED config

-----------------------------------------------------------------------------
Init ==
  /\ ConfigInit
  /\ tokens = [h \in Holders |->
       [public |-> Supply[h], pending |-> 0, available |-> 0, credits |-> 0,
        decryptable |-> 0, agrees |-> TRUE, late |-> FALSE]]
  /\ read = [h \in Holders |-> NotRead]
  /\ withdrawals = {}

Next ==
  \/ ConfigNext /\ UNCHANGED <<tokens, read, withdrawals>>
  \/ \E h \in Holders :
       \/ Read(h)
       \/ ApplyPending(h)
       \/ \E amount \in Amounts :
            \/ Shield(h, amount)
            \/ Withdraw(h, amount)
            \/ \E to \in Holders : ConfidentialTransfer(h, to, amount)

Spec == Init /\ [][Next]_vars

(* An owner keeps reading her account and keeps applying what she reads.   *)
FairSpec == Spec /\ \A h \in Holders : WF_vars(Read(h)) /\ WF_vars(ApplyPending(h))

-----------------------------------------------------------------------------
(* Types of the accounts, the readings and the events.                     *)
TypeOK ==
  /\ ConfigTypeOK
  /\ tokens \in [Holders -> TokenAccount]
  /\ read \in [Holders -> Reading \cup {NotRead}]
  /\ withdrawals \subseteq Event

(***************************************************************************)
(* apply_pending may take more credits than its sender knew of, and the    *)
(* decryptable balance she sent is then wrong.  Whenever it is, the two    *)
(* counters of the account tell her so, because the handler passes on the  *)
(* counter she expected and not the one it could find in the account; or   *)
(* the apply was overtaken by an instruction of her own, which no counter  *)
(* tells.  Debits cannot be late: their proofs would not verify.           *)
(***************************************************************************)
StaleBalanceIsNoticed ==
  \A h \in Holders : tokens[h].decryptable # tokens[h].available => ~tokens[h].agrees \/ tokens[h].late

(***************************************************************************)
(* What is shielded in all, in whoever's accounts it is by now, is a       *)
(* multiple of the dust-free unit: nothing else goes in or out.            *)
(***************************************************************************)
Total(balance) == MapThenSumSet(LAMBDA h : balance[h], DOMAIN balance)

Shielded == Total([h \in Holders |-> tokens[h].pending + tokens[h].available])

ShieldedSupplyIsAligned == Shielded % DUST_FREE_UNIT = 0

(***************************************************************************)
(* Credits are applied in the end by an owner who keeps trying, however    *)
(* many others send her in the meantime, once the protocol stays unpaused. *)
(***************************************************************************)
CreditsAreApplied ==
  <>[]NotPaused => \A h \in Holders : tokens[h].credits > 0 ~> tokens[h].credits = 0
=============================================================================
