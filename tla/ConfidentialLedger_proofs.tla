---------------------- MODULE ConfidentialLedger_proofs ---------------------
(***************************************************************************)
(* Theorems about ConfidentialLedger, for every set of owners, every       *)
(* supply and every limit of the credit counter.                           *)
(***************************************************************************)
EXTENDS LedgerRefinement, GhosConfig_proofs, Foundations_proofs

(***************************************************************************)
(* What the four changes of an account leave in it.                        *)
(***************************************************************************)
LEMMA InPublicFields ==
  ASSUME NEW acc \in TokenAccount, NEW n \in Nat
  PROVE  /\ InPublic(acc, n) \in TokenAccount
         /\ InPublic(acc, n).credits = acc.credits
         /\ InPublic(acc, n).available = acc.available
         /\ InPublic(acc, n).decryptable = acc.decryptable
         /\ InPublic(acc, n).agrees = acc.agrees
         /\ InPublic(acc, n).late = acc.late
BY DEF InPublic, TokenAccount

LEMMA CreditedFields ==
  ASSUME NEW acc \in TokenAccount, NEW amount \in Nat,
         MaxCredits \in Nat, acc.credits < MaxCredits
  PROVE  /\ Credited(acc, amount) \in TokenAccount
         /\ Credited(acc, amount).credits = acc.credits + 1
         /\ Credited(acc, amount).available = acc.available
         /\ Credited(acc, amount).decryptable = acc.decryptable
         /\ Credited(acc, amount).agrees = acc.agrees
         /\ Credited(acc, amount).late = acc.late
<1>1. acc.pending + amount \in Nat /\ acc.credits + 1 \in 0..MaxCredits
  BY DEF TokenAccount
<1>2. ASSUME NEW n \in Nat, NEW c \in 0..MaxCredits
      PROVE  [acc EXCEPT !.pending = n, !.credits = c] \in TokenAccount
  BY DEF TokenAccount
<1>3. Credited(acc, amount) \in TokenAccount
  BY <1>1, <1>2 DEF Credited
<1>4. QED
  BY <1>3 DEF Credited, TokenAccount

LEMMA DebitedFields ==
  ASSUME tokens \in [Holders -> TokenAccount], read \in [Holders -> Reading \cup {NotRead}],
         NEW h \in Holders, NEW amount \in Nat, Provable(h, amount)
  PROVE  /\ Debited(h, amount) \in TokenAccount
         /\ Debited(h, amount).credits = tokens[h].credits
         /\ Debited(h, amount).pending = tokens[h].pending
         /\ Debited(h, amount).decryptable = Debited(h, amount).available
<1> DEFINE acc == tokens[h]
           n   == acc.available - amount
           d   == read[h].available - amount
           res == [acc EXCEPT !.available = n, !.decryptable = d]
<1>1. acc \in TokenAccount
  OBVIOUS
<1>2. n \in Nat /\ d = n
  BY <1>1 DEF Provable, TokenAccount
<1>3. d \in Int
  BY <1>2
<1>4. Debited(h, amount) = res
  BY Zenon DEF Debited
<1> HIDE DEF acc, n, d
<1>5. /\ res \in TokenAccount
      /\ res.available = n /\ res.decryptable = d
      /\ res.credits = acc.credits /\ res.pending = acc.pending
  <2>1. n \in Nat
    BY <1>2
  <2>2. QED
    BY <1>1, <1>3, <2>1 DEF TokenAccount
<1> HIDE DEF res
<1>6. QED
  BY <1>2, <1>4, <1>5, Zenon DEF acc

LEMMA AppliedFields ==
  ASSUME tokens \in [Holders -> TokenAccount], read \in [Holders -> Reading \cup {NotRead}],
         NEW h \in Holders, MaxCredits \in Nat,
         NEW expected \in 0..MaxCredits, NEW decryptable \in Int, read[h] # NotRead
  PROVE  /\ Applied(h, expected, decryptable) \in TokenAccount
         /\ Applied(h, expected, decryptable).available =
              tokens[h].available + tokens[h].pending
         /\ Applied(h, expected, decryptable).decryptable = decryptable
         /\ Applied(h, expected, decryptable).agrees = (expected = tokens[h].credits)
         /\ Applied(h, expected, decryptable).late = ~read[h].latest
<1> DEFINE acc == tokens[h]
           n   == acc.available + acc.pending
           b   == (expected = acc.credits)
           l   == ~read[h].latest
           res == [acc EXCEPT !.available = n, !.pending = 0, !.credits = 0,
                              !.decryptable = decryptable, !.agrees = b, !.late = l]
<1>1. acc \in TokenAccount
  OBVIOUS
<1>2. n \in Nat /\ 0 \in 0..MaxCredits
  BY <1>1 DEF TokenAccount
<1>3. b \in BOOLEAN /\ l \in BOOLEAN
  BY Zenon
<1>4. Applied(h, expected, decryptable) = res
  BY Zenon DEF Applied, AppliedCounter
<1> HIDE DEF acc, n, b, l
<1>5. /\ res \in TokenAccount
      /\ res.available = n /\ res.decryptable = decryptable /\ res.agrees = b /\ res.late = l
  BY <1>1, <1>2, <1>3 DEF TokenAccount
<1> HIDE DEF res
<1>6. QED
  BY <1>4, <1>5, Zenon DEF acc, n, b, l

-----------------------------------------------------------------------------
(***************************************************************************)
(* Every step does one of five things to an account and what its owner has *)
(* read of it.                                                             *)
(***************************************************************************)
Unchanged(h) == tokens'[h] = tokens[h] /\ read'[h] = read[h]

ReadBy(h) ==
  /\ tokens'[h] = tokens[h]
  /\ read'[h] = [pending |-> tokens[h].pending, available |-> tokens[h].available,
                 credits |-> tokens[h].credits, latest |-> TRUE]

CreditOf(h) ==
  /\ tokens'[h] \in TokenAccount
  /\ tokens'[h].credits = tokens[h].credits + 1
  /\ tokens'[h].available = tokens[h].available
  /\ tokens'[h].decryptable = tokens[h].decryptable
  /\ tokens'[h].agrees = tokens[h].agrees
  /\ tokens'[h].late = tokens[h].late
  /\ read'[h] = read[h]

DebitOf(h) ==
  /\ tokens'[h] \in TokenAccount
  /\ tokens'[h].decryptable = tokens'[h].available
  /\ read[h] # NotRead
  /\ read'[h] = [read[h] EXCEPT !.latest = FALSE]

ApplyOf(h) ==
  /\ tokens'[h] \in TokenAccount
  /\ tokens'[h].available = tokens[h].available + tokens[h].pending
  /\ tokens'[h].decryptable = read[h].available + read[h].pending
  /\ tokens'[h].agrees = (read[h].credits = tokens[h].credits)
  /\ tokens'[h].late = ~read[h].latest
  /\ read[h] # NotRead
  /\ read'[h] = [read[h] EXCEPT !.latest = FALSE]

AccountStep(h) == Unchanged(h) \/ ReadBy(h) \/ CreditOf(h) \/ DebitOf(h) \/ ApplyOf(h)

LedgerTypes ==
  /\ tokens \in [Holders -> TokenAccount]
  /\ read \in [Holders -> Reading \cup {NotRead}]

LEMMA EveryStepIsAnAccountStep ==
  ASSUME LedgerTypes, Next, NEW k \in Holders
  PROVE  /\ AccountStep(k)
         /\ DOMAIN tokens' = Holders /\ tokens' = [h \in Holders |-> tokens'[h]]
         /\ DOMAIN read' = Holders /\ read' = [h \in Holders |-> read'[h]]
<1> USE DEF LedgerTypes
<1>0. MaxCredits \in Nat /\ Amounts \subseteq Nat
  BY LedgerAssumption
<1>1. CASE ConfigNext /\ UNCHANGED <<tokens, read, withdrawals>>
  BY <1>1 DEF AccountStep, Unchanged
<1>2. ASSUME NEW h \in Holders, Read(h)
      PROVE  /\ AccountStep(k)
             /\ DOMAIN tokens' = Holders /\ tokens' = [x \in Holders |-> tokens'[x]]
             /\ DOMAIN read' = Holders /\ read' = [x \in Holders |-> read'[x]]
  BY <1>2 DEF Read, AccountStep, Unchanged, ReadBy
<1>3. ASSUME NEW h \in Holders, ApplyPending(h)
      PROVE  /\ AccountStep(k)
             /\ DOMAIN tokens' = Holders /\ tokens' = [x \in Holders |-> tokens'[x]]
             /\ DOMAIN read' = Holders /\ read' = [x \in Holders |-> read'[x]]
  <2> DEFINE new == Applied(h, read[h].credits, read[h].available + read[h].pending)
  <2>1. read[h] # NotRead /\ read[h] \in Reading
    BY <1>3 DEF ApplyPending
  <2>2. read[h].credits \in 0..MaxCredits /\ read[h].available + read[h].pending \in Int
    BY <2>1 DEF Reading
  <2>3. /\ new \in TokenAccount
        /\ new.available = tokens[h].available + tokens[h].pending
        /\ new.decryptable = read[h].available + read[h].pending
        /\ new.agrees = (read[h].credits = tokens[h].credits)
        /\ new.late = ~read[h].latest
    BY <1>0, <2>1, <2>2, AppliedFields
  <2>4. /\ tokens' = [tokens EXCEPT ![h] = new]
        /\ read' = [read EXCEPT ![h] = [read[h] EXCEPT !.latest = FALSE]]
    BY <1>3 DEF ApplyPending, Landed
  <2> HIDE DEF new
  <2>5. k = h => ApplyOf(k)
    BY <2>1, <2>3, <2>4, Zenon DEF ApplyOf
  <2>6. k # h => Unchanged(k)
    BY <2>4 DEF Unchanged
  <2>7. QED
    BY <2>4, <2>5, <2>6 DEF AccountStep
<1>4. ASSUME NEW h \in Holders, NEW amount \in Amounts, Shield(h, amount)
      PROVE  /\ AccountStep(k)
             /\ DOMAIN tokens' = Holders /\ tokens' = [x \in Holders |-> tokens'[x]]
             /\ DOMAIN read' = Holders /\ read' = [x \in Holders |-> read'[x]]
  <2> DEFINE paid == InPublic(tokens[h], tokens[h].public - amount)
             new  == Credited(paid, amount)
  <2>1. tokens[h].public - amount \in Nat
    BY <1>0, <1>4 DEF Shield, TokenAccount
  <2>2. /\ paid \in TokenAccount
        /\ paid.credits = tokens[h].credits
        /\ paid.available = tokens[h].available
        /\ paid.decryptable = tokens[h].decryptable
        /\ paid.agrees = tokens[h].agrees
        /\ paid.late = tokens[h].late
    BY <2>1, InPublicFields
  <2>3. tokens' = [tokens EXCEPT ![h] = new] /\ read' = read
    BY <1>4 DEF Shield
  <2>4. tokens[h].credits < MaxCredits
    BY <1>4 DEF Shield
  <2> HIDE DEF paid
  <2>5. /\ new \in TokenAccount
        /\ new.credits = paid.credits + 1
        /\ new.available = paid.available
        /\ new.decryptable = paid.decryptable
        /\ new.agrees = paid.agrees
        /\ new.late = paid.late
    BY <1>0, <2>2, <2>4, CreditedFields
  <2> HIDE DEF new
  <2>6. k = h => CreditOf(k)
    BY <2>2, <2>3, <2>5, Zenon DEF CreditOf
  <2>7. k # h => Unchanged(k)
    BY <2>3 DEF Unchanged
  <2>8. QED
    BY <2>3, <2>6, <2>7 DEF AccountStep
<1>5. ASSUME NEW h \in Holders, NEW amount \in Amounts, Withdraw(h, amount)
      PROVE  /\ AccountStep(k)
             /\ DOMAIN tokens' = Holders /\ tokens' = [x \in Holders |-> tokens'[x]]
             /\ DOMAIN read' = Holders /\ read' = [x \in Holders |-> read'[x]]
  <2> DEFINE less == Debited(h, amount)
             new  == InPublic(less, tokens[h].public + amount)
  <2>1. Provable(h, amount)
    BY <1>5 DEF Withdraw
  <2>2. less \in TokenAccount /\ less.decryptable = less.available
    BY <1>0, <2>1, DebitedFields
  <2>3. /\ tokens' = [tokens EXCEPT ![h] = new]
        /\ read' = [read EXCEPT ![h] = [read[h] EXCEPT !.latest = FALSE]]
    BY <1>5 DEF Withdraw, Landed
  <2> HIDE DEF less
  <2>4. tokens[h].public + amount \in Nat
    BY <1>0 DEF TokenAccount
  <2>5. new \in TokenAccount /\ new.decryptable = new.available
    BY <2>2, <2>4, InPublicFields
  <2> HIDE DEF new
  <2>6. k = h => DebitOf(k)
    BY <2>1, <2>3, <2>5 DEF DebitOf, Provable
  <2>7. k # h => Unchanged(k)
    BY <2>3 DEF Unchanged
  <2>8. QED
    BY <2>3, <2>6, <2>7 DEF AccountStep
<1>6. ASSUME NEW h \in Holders, NEW to \in Holders, NEW amount \in Amounts,
             ConfidentialTransfer(h, to, amount)
      PROVE  /\ AccountStep(k)
             /\ DOMAIN tokens' = Holders /\ tokens' = [x \in Holders |-> tokens'[x]]
             /\ DOMAIN read' = Holders /\ read' = [x \in Holders |-> read'[x]]
  <2> DEFINE less == Debited(h, amount)
             more == Credited(tokens[to], amount)
  <2>1. Provable(h, amount) /\ tokens[to].credits < MaxCredits
    BY <1>6 DEF ConfidentialTransfer
  <2>2. less \in TokenAccount /\ less.decryptable = less.available
    BY <1>0, <2>1, DebitedFields
  <2>3. read' = [read EXCEPT ![h] = [read[h] EXCEPT !.latest = FALSE]]
    BY <1>6 DEF ConfidentialTransfer, Landed
  <2>4. CASE to = h
    <3> DEFINE new == Credited(less, amount)
    <3>1. less.credits < MaxCredits
      BY <1>0, <2>1, <2>4, DebitedFields
    <3>2. tokens' = [tokens EXCEPT ![h] = new]
      BY <1>6, <2>4 DEF ConfidentialTransfer
    <3> HIDE DEF less
    <3>3. new \in TokenAccount /\ new.decryptable = new.available
      BY <1>0, <2>2, <3>1, CreditedFields
    <3> HIDE DEF new
    <3>4. k = h => DebitOf(k)
      BY <2>1, <2>3, <3>2, <3>3 DEF DebitOf, Provable
    <3>5. k # h => Unchanged(k)
      BY <2>3, <3>2 DEF Unchanged
    <3>6. QED
      BY <2>3, <3>2, <3>4, <3>5 DEF AccountStep
  <2>5. CASE to # h
    <3>1. /\ more \in TokenAccount
          /\ more.credits = tokens[to].credits + 1
          /\ more.available = tokens[to].available
          /\ more.decryptable = tokens[to].decryptable
          /\ more.agrees = tokens[to].agrees
          /\ more.late = tokens[to].late
      BY <1>0, <2>1, CreditedFields
    <3>2. tokens' = [tokens EXCEPT ![h] = less, ![to] = more]
      BY <1>6, <2>5 DEF ConfidentialTransfer
    <3> HIDE DEF less, more
    <3>3. k = h => DebitOf(k)
      BY <2>1, <2>2, <2>3, <2>5, <3>2 DEF DebitOf, Provable
    <3>4. k = to => CreditOf(k)
      <4>1. tokens'[to] = more /\ read'[to] = read[to]
        BY <2>3, <2>5, <3>2
      <4>2. QED
        BY <3>1, <4>1, Zenon DEF CreditOf
    <3>5. k # h /\ k # to => Unchanged(k)
      BY <2>3, <3>2 DEF Unchanged
    <3>6. QED
      BY <2>3, <3>2, <3>3, <3>4, <3>5 DEF AccountStep
  <2>6. QED
    BY <2>4, <2>5
<1>7. QED
  BY <1>1, <1>2, <1>3, <1>4, <1>5, <1>6 DEF Next

-----------------------------------------------------------------------------
(***************************************************************************)
(* Type correctness: above all, no debit takes more than there is, though  *)
(* it was computed from what the account held at some earlier time.        *)
(***************************************************************************)
LEMMA InitTypes == Init => TypeOK
<1> SUFFICES ASSUME Init
             PROVE  TypeOK
  OBVIOUS
<1>1. ConfigTypeOK
  BY DEF Init, ConfigInit, ConfigTypeOK
<1>2. ASSUME NEW n \in Nat
      PROVE  [public |-> n, pending |-> 0, available |-> 0, credits |-> 0,
              decryptable |-> 0, agrees |-> TRUE, late |-> FALSE] \in TokenAccount
  BY LedgerAssumption DEF TokenAccount
<1>3. tokens \in [Holders -> TokenAccount]
  BY <1>2, LedgerAssumption DEF Init
<1>4. QED
  BY <1>1, <1>3 DEF Init, TypeOK

LEMMA EventTypes ==
  ASSUME withdrawals \subseteq Event, Next
  PROVE  withdrawals' \subseteq Event
<1>1. ASSUME NEW h \in Holders, NEW amount \in Amounts, Withdraw(h, amount)
      PROVE  withdrawals' \subseteq Event
  <2>1. PICK entry \in BOOLEAN :
          withdrawals' = withdrawals \cup {[amount |-> amount, auditor_cosigned |-> entry]}
    BY <1>1 DEF Withdraw
  <2>2. [amount |-> amount, auditor_cosigned |-> entry] \in Event
    BY LedgerAssumption DEF Event
  <2>3. QED
    BY <2>1, <2>2
<1>2. withdrawals' = withdrawals
      \/ \E h \in Holders, amount \in Amounts : Withdraw(h, amount)
  BY DEF Next, Read, ApplyPending, Shield, ConfidentialTransfer
<1>3. QED
  BY <1>1, <1>2

LEMMA NextTypes == TypeOK /\ [Next]_vars => TypeOK'
<1> SUFFICES ASSUME TypeOK, [Next]_vars
             PROVE  TypeOK'
  OBVIOUS
<1>1. CASE UNCHANGED vars
  BY <1>1 DEF vars, TypeOK, ConfigTypeOK
<1>2. CASE Next
  <2>1. LedgerTypes
    BY DEF TypeOK, LedgerTypes
  <2>2. ConfigTypeOK'
    <3>1. ConfigNext \/ config' = config
      BY <1>2 DEF Next, Read, ApplyPending, Shield, Withdraw, ConfidentialTransfer
    <3>2. QED
      BY <3>1, ConfigStepType DEF TypeOK, ConfigTypeOK
  <2>3. withdrawals' \subseteq Event
    BY <1>2, EventTypes DEF TypeOK
  <2>4. ASSUME NEW k \in Holders
        PROVE  tokens'[k] \in TokenAccount /\ read'[k] \in Reading \cup {NotRead}
    <3>1. tokens[k] \in TokenAccount /\ read[k] \in Reading \cup {NotRead}
      BY <2>1 DEF LedgerTypes
    <3>2. ReadBy(k) => read'[k] \in Reading
      BY <3>1 DEF ReadBy, TokenAccount, Reading
    <3>3. DebitOf(k) \/ ApplyOf(k) => read'[k] \in Reading
      BY <3>1 DEF DebitOf, ApplyOf, Reading
    <3>4. AccountStep(k)
      BY <1>2, <2>1, EveryStepIsAnAccountStep
    <3>5. QED
      BY <3>1, <3>2, <3>3, <3>4
      DEF AccountStep, Unchanged, ReadBy, CreditOf, DebitOf, ApplyOf
  <2>5. /\ tokens' \in [Holders -> TokenAccount]
        /\ read' \in [Holders -> Reading \cup {NotRead}]
    <3>1. CASE Holders = {}
      BY <1>2, <3>1, <2>1
      DEF Next, LedgerTypes
    <3>2. CASE Holders # {}
      BY <1>2, <2>1, <2>4, <3>2, EveryStepIsAnAccountStep
    <3>3. QED
      BY <3>1, <3>2
  <2>6. QED
    BY <2>2, <2>3, <2>5 DEF TypeOK
<1>3. QED
  BY <1>1, <1>2

(* Accounts, readings and events have their types, and no balance is ever  *)
(* negative: withdraw and confidential_transfer pass proofs about the      *)
(* balance that is there.                                                  *)
THEOREM TypeCorrect == Spec => []TypeOK
<1>1. QED
  BY InitTypes, NextTypes, PTL DEF Spec

-----------------------------------------------------------------------------
(***************************************************************************)
(* A reading that no instruction of the owner's has overtaken tells the    *)
(* available balance, and tells the pending one as long as the counter is  *)
(* the one that was read: whatever is credited in between moves it.        *)
(***************************************************************************)
ReadingsAgree ==
  \A h \in Holders :
    read[h] # NotRead /\ read[h].latest =>
      /\ read[h].available = tokens[h].available
      /\ read[h].credits <= tokens[h].credits
      /\ read[h].credits = tokens[h].credits => read[h].pending = tokens[h].pending

IInv == TypeOK /\ ReadingsAgree /\ StaleBalanceIsNoticed

LEMMA NextReadingsAgree ==
  ASSUME LedgerTypes, ReadingsAgree, Next
  PROVE  ReadingsAgree'
<1> SUFFICES ASSUME NEW k \in Holders, read'[k] # NotRead, read'[k].latest
             PROVE  /\ read'[k].available = tokens'[k].available
                    /\ read'[k].credits <= tokens'[k].credits
                    /\ read'[k].credits = tokens'[k].credits
                         => read'[k].pending = tokens'[k].pending
  BY DEF ReadingsAgree
<1>1. tokens[k] \in TokenAccount /\ read[k] \in Reading \cup {NotRead}
  BY DEF LedgerTypes
<1>2. CASE Unchanged(k)
  BY <1>2 DEF Unchanged, ReadingsAgree
<1>3. CASE ReadBy(k)
  BY <1>1, <1>3 DEF ReadBy, TokenAccount
<1>4. CASE CreditOf(k)
  <2>1. read[k] \in Reading /\ read[k].credits <= tokens[k].credits
    BY <1>1, <1>4 DEF CreditOf, ReadingsAgree
  <2>2. read[k].credits \in Int /\ tokens[k].credits \in Int
    BY <1>1, <2>1 DEF Reading, TokenAccount
  <2>3. read[k].credits <= tokens[k].credits + 1 /\ read[k].credits # tokens[k].credits + 1
    BY <2>1, <2>2
  <2>4. QED
    BY <1>4, <2>3 DEF CreditOf, ReadingsAgree
<1>5. CASE DebitOf(k) \/ ApplyOf(k)
  BY <1>1, <1>5 DEF DebitOf, ApplyOf, Reading
<1>6. QED
  BY <1>2, <1>3, <1>4, <1>5, EveryStepIsAnAccountStep DEF AccountStep

LEMMA NextNoticed ==
  ASSUME LedgerTypes, ReadingsAgree, StaleBalanceIsNoticed, Next
  PROVE  StaleBalanceIsNoticed'
<1> SUFFICES ASSUME NEW k \in Holders, tokens'[k].agrees, ~tokens'[k].late
             PROVE  tokens'[k].decryptable = tokens'[k].available
  BY DEF StaleBalanceIsNoticed
<1>1. CASE Unchanged(k) \/ ReadBy(k) \/ CreditOf(k)
  BY <1>1 DEF Unchanged, ReadBy, CreditOf, StaleBalanceIsNoticed
<1>2. CASE DebitOf(k)
  BY <1>2 DEF DebitOf
<1>3. CASE ApplyOf(k)
  <2>1. read[k].credits = tokens[k].credits /\ read[k].latest /\ read[k] # NotRead
    BY <1>3 DEF ApplyOf
  <2>2. read[k].available = tokens[k].available /\ read[k].pending = tokens[k].pending
    BY <2>1 DEF ReadingsAgree
  <2>3. QED
    BY <1>3, <2>2 DEF ApplyOf
<1>4. QED
  BY <1>1, <1>2, <1>3, EveryStepIsAnAccountStep DEF AccountStep

LEMMA InitIInv == Init => IInv
BY InitTypes DEF Init, IInv, ReadingsAgree, StaleBalanceIsNoticed

LEMMA NextIInv == IInv /\ [Next]_vars => IInv'
<1> SUFFICES ASSUME IInv, [Next]_vars
             PROVE  IInv'
  OBVIOUS
<1>1. TypeOK'
  BY NextTypes DEF IInv
<1>2. CASE UNCHANGED vars
  BY <1>1, <1>2 DEF IInv, vars, ReadingsAgree, StaleBalanceIsNoticed
<1>3. CASE Next
  <2>1. LedgerTypes
    BY DEF IInv, TypeOK, LedgerTypes
  <2>2. QED
    BY <1>1, <1>3, <2>1, NextReadingsAgree, NextNoticed DEF IInv
<1>4. QED
  BY <1>2, <1>3

(* Whenever the decryptable balance is wrong the owner can tell, from the  *)
(* counters apply_pending leaves or because she overtook herself.          *)
THEOREM StaleBalancesAreNoticed == Spec => []StaleBalanceIsNoticed
<1>1. IInv => StaleBalanceIsNoticed
  BY DEF IInv
<1>2. QED
  BY <1>1, InitIInv, NextIInv, PTL DEF Spec

-----------------------------------------------------------------------------
(***************************************************************************)
(* ConfidentialLedger implements ShieldedAccounts.                         *)
(***************************************************************************)

(***************************************************************************)
(* The money in an account after each of the four changes of it.           *)
(***************************************************************************)
LEMMA InPublicMoney ==
  ASSUME NEW acc \in TokenAccount, NEW n \in Nat
  PROVE  /\ InPublic(acc, n).public = n
         /\ InPublic(acc, n).pending = acc.pending
         /\ InPublic(acc, n).available = acc.available
BY DEF InPublic, TokenAccount

LEMMA CreditedMoney ==
  ASSUME NEW acc \in TokenAccount, NEW amount \in Nat
  PROVE  /\ Credited(acc, amount).public = acc.public
         /\ Credited(acc, amount).pending = acc.pending + amount
         /\ Credited(acc, amount).available = acc.available
BY DEF Credited, TokenAccount

LEMMA DebitedMoney ==
  ASSUME NEW h \in Holders, tokens[h] \in TokenAccount, NEW amount \in Nat
  PROVE  /\ Debited(h, amount).public = tokens[h].public
         /\ Debited(h, amount).pending = tokens[h].pending
         /\ Debited(h, amount).available = tokens[h].available - amount
<1> DEFINE acc == tokens[h]
           n   == acc.available - amount
           d   == read[h].available - amount
<1>1. Debited(h, amount) = [acc EXCEPT !.available = n, !.decryptable = d]
  BY Zenon DEF Debited
<1>2. acc \in TokenAccount
  OBVIOUS
<1> HIDE DEF acc, n, d
<1>3. QED
  BY <1>1, <1>2 DEF TokenAccount, acc, n

LEMMA AppliedMoney ==
  ASSUME NEW h \in Holders, tokens[h] \in TokenAccount, NEW c, NEW b
  PROVE  /\ Applied(h, c, b).public = tokens[h].public
         /\ Applied(h, c, b).pending = 0
         /\ Applied(h, c, b).available = tokens[h].available + tokens[h].pending
<1> DEFINE acc == tokens[h]
           n   == acc.available + acc.pending
           e   == (AppliedCounter(h, c) = acc.credits)
           l   == ~read[h].latest
<1>1. Applied(h, c, b) = [acc EXCEPT !.available = n, !.pending = 0, !.credits = 0,
                                     !.decryptable = b, !.agrees = e, !.late = l]
  BY Zenon DEF Applied
<1>2. acc \in TokenAccount
  OBVIOUS
<1> HIDE DEF acc, n, e, l
<1>3. QED
  BY <1>1, <1>2 DEF TokenAccount, acc, n

-----------------------------------------------------------------------------
Money(acc) == acc.pending + acc.available

(* A step that changes one account changes the money of that owner only.   *)
LEMMA MoneyOfOne ==
  ASSUME tokens \in [Holders -> TokenAccount], NEW h \in Holders, NEW new,
         tokens' = [tokens EXCEPT ![h] = new]
  PROVE  /\ openBar' = [openBar EXCEPT ![h] = new.public]
         /\ hiddenBar' = [hiddenBar EXCEPT ![h] = Money(new)]
BY DEF openBar, hiddenBar, Money

(* What the bars are made of.                                              *)
LEMMA Bars ==
  ASSUME tokens \in [Holders -> TokenAccount]
  PROVE  /\ openBar \in [Holders -> Nat] /\ hiddenBar \in [Holders -> Nat]
         /\ \A h \in Holders : openBar[h] = tokens[h].public
         /\ \A h \in Holders : hiddenBar[h] = tokens[h].pending + tokens[h].available
BY DEF openBar, hiddenBar, TokenAccount

MoneyStep == Accounts!Next \/ UNCHANGED <<openBar, hiddenBar>>

(* A unit is positive, so that what passes assert_dust_free is whole units.*)
LEMMA DustFreeUnits ==
  ASSUME NEW amount \in Nat, DustFree(amount)
  PROVE  Accounts!WholeUnits(amount) /\ amount > 0
BY ConfigAssumption DEF DustFree, Accounts!WholeUnits

LEMMA ShieldMoves ==
  ASSUME tokens \in [Holders -> TokenAccount], NEW h \in Holders, NEW amount \in Amounts,
         Shield(h, amount)
  PROVE  MoneyStep
<1> DEFINE paid == InPublic(tokens[h], tokens[h].public - amount)
           new  == Credited(paid, amount)
<1>1. amount \in Nat /\ amount <= tokens[h].public /\ tokens[h] \in TokenAccount
  BY LedgerAssumption DEF Shield
<1>2. tokens[h].public - amount \in Nat
  BY <1>1 DEF TokenAccount
<1>3. /\ paid \in TokenAccount
      /\ paid.public = tokens[h].public - amount
      /\ paid.pending = tokens[h].pending /\ paid.available = tokens[h].available
  BY <1>1, <1>2, InPublicFields, InPublicMoney
<1>4. tokens' = [tokens EXCEPT ![h] = new]
  BY DEF Shield
<1> HIDE DEF paid
<1>5. /\ new.public = paid.public
      /\ new.pending = paid.pending + amount /\ new.available = paid.available
  BY <1>1, <1>3, CreditedMoney
<1> HIDE DEF new
<1>6. /\ openBar' = [openBar EXCEPT ![h] = openBar[h] - amount]
      /\ hiddenBar' = [hiddenBar EXCEPT ![h] = hiddenBar[h] + amount]
  <2>1. new.public = openBar[h] - amount /\ Money(new) = hiddenBar[h] + amount
    BY <1>1, <1>3, <1>5, Bars DEF Money, TokenAccount
  <2>2. /\ openBar' = [openBar EXCEPT ![h] = new.public]
        /\ hiddenBar' = [hiddenBar EXCEPT ![h] = Money(new)]
    BY <1>4, MoneyOfOne, Zenon
  <2>3. QED
    BY <2>1, <2>2, Zenon
<1>7. amount \in 1..openBar[h] /\ Accounts!WholeUnits(amount)
  BY <1>1, Bars, DustFreeUnits DEF Shield, TokenAccount
<1>8. Accounts!Hide(h, amount)
  BY <1>6, <1>7 DEF Accounts!Hide
<1>9. QED
  BY <1>7, <1>8 DEF MoneyStep, Accounts!Next

LEMMA WithdrawMoves ==
  ASSUME tokens \in [Holders -> TokenAccount], read \in [Holders -> Reading \cup {NotRead}],
         NEW h \in Holders, NEW amount \in Amounts, Withdraw(h, amount)
  PROVE  MoneyStep
<1> DEFINE less == Debited(h, amount)
           new  == InPublic(less, tokens[h].public + amount)
<1>1. /\ amount \in Nat /\ amount <= tokens[h].available
      /\ tokens[h] \in TokenAccount /\ Provable(h, amount)
  BY LedgerAssumption DEF Withdraw, Provable
<1>2. /\ less \in TokenAccount
      /\ less.pending = tokens[h].pending
      /\ less.available = tokens[h].available - amount
  BY <1>1, DebitedFields, DebitedMoney
<1>3. tokens[h].public + amount \in Nat
  BY <1>1 DEF TokenAccount
<1>4. tokens' = [tokens EXCEPT ![h] = new]
  BY DEF Withdraw
<1> HIDE DEF less
<1>5. /\ new.public = tokens[h].public + amount
      /\ new.pending = less.pending /\ new.available = less.available
  BY <1>2, <1>3, InPublicMoney
<1> HIDE DEF new
<1>6. /\ openBar' = [openBar EXCEPT ![h] = openBar[h] + amount]
      /\ hiddenBar' = [hiddenBar EXCEPT ![h] = hiddenBar[h] - amount]
  <2>1. new.public = openBar[h] + amount /\ Money(new) = hiddenBar[h] - amount
    BY <1>1, <1>2, <1>5, Bars DEF Money, TokenAccount
  <2>2. /\ openBar' = [openBar EXCEPT ![h] = new.public]
        /\ hiddenBar' = [hiddenBar EXCEPT ![h] = Money(new)]
    BY <1>4, MoneyOfOne, Zenon
  <2>3. QED
    BY <2>1, <2>2, Zenon
<1>7. amount \in 1..hiddenBar[h] /\ Accounts!WholeUnits(amount)
  BY <1>1, Bars, DustFreeUnits DEF Withdraw, TokenAccount
<1>8. Accounts!Unhide(h, amount)
  BY <1>6, <1>7 DEF Accounts!Unhide
<1>9. QED
  BY <1>7, <1>8 DEF MoneyStep, Accounts!Next

LEMMA TransferMoves ==
  ASSUME tokens \in [Holders -> TokenAccount], read \in [Holders -> Reading \cup {NotRead}],
         NEW h \in Holders, NEW to \in Holders, NEW amount \in Amounts,
         ConfidentialTransfer(h, to, amount)
  PROVE  MoneyStep
<1> DEFINE less == Debited(h, amount)
           more == Credited(tokens[to], amount)
<1>1. /\ amount \in Nat /\ amount <= tokens[h].available
      /\ tokens[h] \in TokenAccount /\ tokens[to] \in TokenAccount
  BY LedgerAssumption DEF ConfidentialTransfer, Provable
<1>2. /\ less.public = tokens[h].public
      /\ less.pending = tokens[h].pending
      /\ less.available = tokens[h].available - amount
  BY <1>1, DebitedMoney
<1>3. /\ more.public = tokens[to].public
      /\ more.pending = tokens[to].pending + amount
      /\ more.available = tokens[to].available
  BY <1>1, CreditedMoney
<1>4. CASE to = h
  <2> DEFINE new == Credited(less, amount)
  <2>1. less \in TokenAccount
    BY <1>1, DebitedFields DEF ConfidentialTransfer
  <2>2. tokens' = [tokens EXCEPT ![h] = new]
    BY <1>4 DEF ConfidentialTransfer
  <2> HIDE DEF less
  <2>3. /\ new.public = less.public
        /\ new.pending = less.pending + amount /\ new.available = less.available
    BY <1>1, <2>1, CreditedMoney
  <2> HIDE DEF new
  <2>4. new.public = openBar[h] /\ Money(new) = hiddenBar[h]
    BY <1>1, <1>2, <2>3, Bars DEF Money, TokenAccount
  <2>5. /\ openBar' = [openBar EXCEPT ![h] = openBar[h]]
        /\ hiddenBar' = [hiddenBar EXCEPT ![h] = hiddenBar[h]]
    BY <2>2, <2>4, MoneyOfOne
  <2>6. QED
    BY <2>5, Bars DEF MoneyStep
<1>5. ASSUME to # h
      PROVE  /\ openBar' = openBar
             /\ hiddenBar' = [hiddenBar EXCEPT ![h] = hiddenBar[h] - amount,
                                               ![to] = hiddenBar[to] + amount]
  <2>0. tokens' = [tokens EXCEPT ![h] = less, ![to] = more]
    BY <1>5 DEF ConfidentialTransfer
  <2> HIDE DEF less, more
  <2>1. /\ less.public = openBar[h] /\ more.public = openBar[to]
        /\ Money(less) = hiddenBar[h] - amount /\ Money(more) = hiddenBar[to] + amount
    BY <1>1, <1>2, <1>3, Bars DEF Money, TokenAccount
  <2>2. /\ openBar' = [openBar EXCEPT ![h] = less.public, ![to] = more.public]
        /\ hiddenBar' = [hiddenBar EXCEPT ![h] = Money(less), ![to] = Money(more)]
    BY <1>1, <1>5, <2>0 DEF openBar, hiddenBar, Money
  <2>3. openBar' = [openBar EXCEPT ![h] = openBar[h], ![to] = openBar[to]]
    BY <2>1, <2>2, Zenon
  <2>4. openBar' = openBar
    BY <2>3, Bars
  <2>5. QED
    BY <2>1, <2>2, <2>4, Zenon
<1>6. CASE to # h /\ amount = 0
  <2>1. hiddenBar' = hiddenBar
    BY <1>5, <1>6, Bars
  <2>2. QED
    BY <1>5, <1>6, <2>1 DEF MoneyStep
<1>7. CASE to # h /\ amount # 0
  <2>1. amount \in 1..hiddenBar[h]
    BY <1>1, <1>7, Bars DEF TokenAccount
  <2>2. Accounts!Pay(h, to, amount)
    BY <1>1, <1>5, <1>7, Bars DEF Accounts!Pay
  <2>3. QED
    BY <2>1, <2>2 DEF MoneyStep, Accounts!Next
<1>8. QED
  BY <1>4, <1>6, <1>7

LEMMA ApplyKeepsTheMoney ==
  ASSUME tokens \in [Holders -> TokenAccount], NEW h \in Holders, ApplyPending(h)
  PROVE  UNCHANGED <<openBar, hiddenBar>>
<1> DEFINE new == Applied(h, read[h].credits, read[h].available + read[h].pending)
<1>1. tokens[h] \in TokenAccount
  OBVIOUS
<1>2. /\ new.public = tokens[h].public /\ new.pending = 0
      /\ new.available = tokens[h].available + tokens[h].pending
  BY <1>1, AppliedMoney
<1>3. tokens' = [tokens EXCEPT ![h] = new]
  BY DEF ApplyPending
<1> HIDE DEF new
<1>4. new.public = openBar[h] /\ Money(new) = hiddenBar[h]
  BY <1>1, <1>2, Bars DEF Money, TokenAccount
<1>5. /\ openBar' = [openBar EXCEPT ![h] = openBar[h]]
      /\ hiddenBar' = [hiddenBar EXCEPT ![h] = hiddenBar[h]]
  BY <1>3, <1>4, MoneyOfOne
<1>6. QED
  BY <1>5, Bars

LEMMA NextMoney ==
  ASSUME TypeOK, [Next]_vars
  PROVE  [Accounts!Next]_<<openBar, hiddenBar>>
<1>1. /\ tokens \in [Holders -> TokenAccount]
      /\ read \in [Holders -> Reading \cup {NotRead}]
  BY DEF TypeOK
<1>2. ASSUME UNCHANGED tokens
      PROVE  UNCHANGED <<openBar, hiddenBar>>
  BY <1>2 DEF openBar, hiddenBar
<1>3. CASE UNCHANGED tokens
  BY <1>2, <1>3
<1>4. CASE \E h \in Holders : ApplyPending(h)
  BY <1>1, <1>4, ApplyKeepsTheMoney
<1>5. CASE \E h \in Holders, amount \in Amounts : Shield(h, amount)
  BY <1>1, <1>5, ShieldMoves DEF MoneyStep
<1>6. CASE \E h \in Holders, amount \in Amounts : Withdraw(h, amount)
  BY <1>1, <1>6, WithdrawMoves DEF MoneyStep
<1>7. CASE \E h \in Holders, to \in Holders, amount \in Amounts :
             ConfidentialTransfer(h, to, amount)
  BY <1>1, <1>7, TransferMoves DEF MoneyStep
<1>8. QED
  BY <1>3, <1>4, <1>5, <1>6, <1>7 DEF Next, Read, vars

LEMMA InitMoney == Init => Accounts!Init
<1> SUFFICES ASSUME Init
             PROVE  Accounts!Init
  OBVIOUS
<1>1. openBar = [h \in Holders |-> Supply[h]] /\ hiddenBar = [h \in Holders |-> 0]
  BY DEF Init, openBar, hiddenBar
<1>2. Supply = [h \in Holders |-> Supply[h]]
  BY LedgerAssumption
<1>3. QED
  BY <1>1, <1>2 DEF Accounts!Init

(* No money is made or lost and nobody pays what she has not got, by any   *)
(* order of shield, apply_pending, confidential_transfer and withdraw, and *)
(* only whole units are shielded or withdrawn.                             *)
THEOREM Refinement == Spec => KeepsTheMoney
<1>1. TypeOK /\ [Next]_vars => [Accounts!Next]_<<openBar, hiddenBar>>
  BY NextMoney
<1>2. QED
  BY <1>1, InitMoney, TypeCorrect, PTL
  DEF Spec, KeepsTheMoney, Accounts!Spec, Accounts!balances

-----------------------------------------------------------------------------
(***************************************************************************)
(* What the balances add up to.                                            *)
(***************************************************************************)
(* The account that a sum over a set of accounts takes first.              *)
First(T) == CHOOSE h \in T : TRUE

(* What the fold computes for every set of accounts.                       *)
SumsOf(t, H) ==
  {g \in [SUBSET H -> Int] :
     g[{}] = 0 /\ \A T \in SUBSET H : T # {} => g[T] = t[First(T)] + g[T \ {First(T)}]}

(* The recursion of the fold.                                              *)
Folds(f, t, H) == f = [T \in SUBSET H |-> IF T = {} THEN 0 ELSE t[First(T)] + f[T \ {First(T)}]]

(* It defines a function.                                                  *)
LEMMA SumsExist ==
  ASSUME NEW H, IsFiniteSet(H), NEW t \in [H -> Int]
  PROVE  \E f : Folds(f, t, H)
<1> DEFINE D == SUBSET H
           Body == [g \in [D -> Int] |->
                      [T \in D |-> IF T = {} THEN 0 ELSE t[First(T)] + g[T \ {First(T)}]]]
<1>1. D = SUBSET H
  OBVIOUS
<1>2. ASSUME NEW T \in D, T # {}
      PROVE  First(T) \in T /\ t[First(T)] \in Int /\ T \ {First(T)} \in D /\ T \ {First(T)} # T
  BY <1>2 DEF First
<1> HIDE DEF D
<1>3. ASSUME NEW g \in [D -> Int]
      PROVE  [T \in D |-> IF T = {} THEN 0 ELSE t[First(T)] + g[T \ {First(T)}]] \in [D -> Int]
  BY <1>2
<1>4. Body \in [[D -> Int] -> [D -> Int]]
  BY <1>3
<1>5. ASSUME NEW g \in [D -> Int], NEW T \in D
      PROVE  Body[g][T] = IF T = {} THEN 0 ELSE t[First(T)] + g[T \ {First(T)}]
  OBVIOUS
<1> HIDE DEF Body
<1>6. ASSUME NEW g \in [D -> Int], NEW h \in [D -> Int], NEW T \in D,
             \A U \in D : U \subseteq T /\ U # T => g[U] = h[U]
      PROVE  Body[g][T] = Body[h][T]
  <2>1. CASE T = {}
    BY <1>5, <2>1
  <2>2. CASE T # {}
    <3>1. T \ {First(T)} \subseteq T
      OBVIOUS
    <3>2. g[T \ {First(T)}] = h[T \ {First(T)}]
      BY <1>2, <1>6, <2>2, <3>1
    <3>3. QED
      BY <1>5, <2>2, <3>2
  <2>3. QED
    BY <2>1, <2>2
<1>7. \E g \in [D -> Int] : \A T \in D : g[T] = Body[g][T]
  <2>1. Int # {}
    OBVIOUS
  <2>2. RecursiveOnSubsets(H, D, Int, Body)
    BY <1>1, <1>4, <1>6, <2>1, Zenon DEF RecursiveOnSubsets
  <2>3. QED
    BY <2>2, RecursionOnSubsets
<1>8. PICK g \in [D -> Int] : \A T \in D : g[T] = Body[g][T]
  BY <1>7
<1>9. g = [T \in D |-> IF T = {} THEN 0 ELSE t[First(T)] + g[T \ {First(T)}]]
  BY <1>5, <1>8
<1>10. Folds(g, t, H)
  BY <1>9 DEF D, Folds
<1>11. QED
  BY <1>10

(* Total is what such a function gives all accounts.                       *)
LEMMA TotalUnfolds ==
  ASSUME NEW H, IsFiniteSet(H), NEW t \in [H -> Int]
  PROVE  \E g \in SumsOf(t, H) : Total(t) = g[H]
<1> DEFINE g == CHOOSE f : Folds(f, t, H)
<1>1. DOMAIN t = H
  OBVIOUS
<1>2. Total(t) = g[H]
  BY <1>1, Zenon DEF Total, MapThenSumSet, MapThenFoldSet, First, Folds
<1>3. Folds(g, t, H)
  BY SumsExist, Zenon
<1> HIDE DEF g
<1>4. /\ g[{}] = 0
      /\ \A T \in SUBSET H : T # {} => g[T] = t[First(T)] + g[T \ {First(T)}]
      /\ DOMAIN g = SUBSET H
  BY <1>3 DEF Folds
<1> DEFINE P == {T \in SUBSET H : g[T] \in Int}
<1>5. ASSUME NEW T, T \subseteq H, \A x \in T : T \ {x} \in P
      PROVE  T \in P
  <2>1. CASE T = {}
    BY <1>4, <2>1
  <2>2. CASE T # {}
    <3>1. First(T) \in T
      BY <2>2 DEF First
    <3>2. g[T] = t[First(T)] + g[T \ {First(T)}] /\ g[T \ {First(T)}] \in Int
      BY <1>4, <1>5, <2>2, <3>1
    <3>3. QED
      BY <1>5, <3>1, <3>2
  <2>3. QED
    BY <2>1, <2>2
<1> HIDE DEF P
<1>6. \A T : T \subseteq H => T \in P
  BY <1>5, FiniteInductionOnSets
<1>7. \A T \in SUBSET H : g[T] \in Int
  BY <1>6 DEF P
<1>8. g \in [SUBSET H -> Int]
  BY <1>3, <1>7 DEF Folds
<1>9. g \in SumsOf(t, H)
  BY <1>4, <1>8 DEF SumsOf
<1>10. QED
  BY <1>2, <1>9

(* It changes by what the balance of one account changes.                  *)
LEMMA TotalChanges ==
  ASSUME NEW H, IsFiniteSet(H), NEW t \in [H -> Int], NEW u \in [H -> Int], NEW x \in H,
         \A y \in H \ {x} : u[y] = t[y]
  PROVE  Total(t) \in Int /\ Total(u) = Total(t) + u[x] - t[x]
<1>1. PICK g \in SumsOf(t, H) : Total(t) = g[H]
  BY TotalUnfolds
<1>2. PICK k \in SumsOf(u, H) : Total(u) = k[H]
  BY TotalUnfolds
<1>3. /\ g \in [SUBSET H -> Int] /\ k \in [SUBSET H -> Int] /\ g[{}] = 0 /\ k[{}] = 0
      /\ \A T \in SUBSET H : T # {} =>
           g[T] = t[First(T)] + g[T \ {First(T)}] /\ k[T] = u[First(T)] + k[T \ {First(T)}]
  BY DEF SumsOf
<1> DEFINE P == {T \in SUBSET H : k[T] = g[T] + IF x \in T THEN u[x] - t[x] ELSE 0}
<1>4. {} \in P
  BY <1>3
<1>5. ASSUME NEW T, T \subseteq H, \A y \in T : T \ {y} \in P
      PROVE  T \in P
  <2>1. CASE T = {}
    BY <1>4, <2>1
  <2>2. CASE T # {}
    <3>1. PICK y \in T : y = First(T)
      BY <2>2 DEF First
    <3>2. PICK U \in SUBSET H : U = T \ {y}
      BY <1>5
    <3>3. U \in P
      BY <1>5, <3>1, <3>2
    <3>4. k[U] = g[U] + IF x \in U THEN u[x] - t[x] ELSE 0
      BY <3>3
    <3>5. k[T] = u[y] + k[U] /\ g[T] = t[y] + g[U]
      BY <1>3, <1>5, <2>2, <3>1, <3>2
    <3>6. u[y] \in Int /\ t[y] \in Int /\ u[x] \in Int /\ t[x] \in Int /\ g[U] \in Int /\ k[U] \in Int
      BY <1>3, <1>5, <3>1, <3>2
    <3>7. k[T] = g[T] + IF x \in T THEN u[x] - t[x] ELSE 0
      <4>1. CASE y = x
        <5>1. x \notin U /\ x \in T
          BY <3>1, <3>2, <4>1
        <5>2. k[U] = g[U]
          BY <3>4, <3>6, <5>1
        <5>3. QED
          BY <3>5, <3>6, <4>1, <5>1, <5>2
      <4>2. CASE y # x
        <5>1. u[y] = t[y] /\ (x \in U <=> x \in T)
          BY <1>5, <3>1, <3>2, <4>2
        <5>2. QED
          BY <3>4, <3>5, <3>6, <5>1
      <4>3. QED
        BY <4>1, <4>2
    <3>8. QED
      BY <1>5, <3>7
  <2>3. QED
    BY <2>1, <2>2
<1> HIDE DEF P
<1>6. \A T : T \subseteq H => T \in P
  BY <1>5, FiniteInductionOnSets
<1>7. H \in P
  BY <1>6
<1>9. k[H] = g[H] + (u[x] - t[x])
  BY <1>7 DEF P
<1>10. g[H] \in Int /\ u[x] \in Int /\ t[x] \in Int /\ k[H] = g[H] + (u[x] - t[x])
  BY <1>3, <1>9
<1>11. QED
  BY <1>1, <1>2, <1>10

(* Nothing adds up to nothing.                                             *)
LEMMA TotalOfNothing ==
  ASSUME NEW H, IsFiniteSet(H), NEW t \in [H -> Int], \A h \in H : t[h] = 0
  PROVE  Total(t) = 0
<1>1. PICK g \in SumsOf(t, H) : Total(t) = g[H]
  BY TotalUnfolds
<1>2. /\ g \in [SUBSET H -> Int] /\ g[{}] = 0
      /\ \A T \in SUBSET H : T # {} => g[T] = t[First(T)] + g[T \ {First(T)}]
  BY DEF SumsOf
<1> DEFINE P == {T \in SUBSET H : g[T] = 0}
<1>3. ASSUME NEW T, T \subseteq H, \A y \in T : T \ {y} \in P
      PROVE  T \in P
  <2>1. CASE T = {}
    BY <1>2, <2>1
  <2>2. CASE T # {}
    <3>1. First(T) \in T
      BY <2>2 DEF First
    <3>2. g[T] = t[First(T)] + g[T \ {First(T)}] /\ g[T \ {First(T)}] = 0 /\ t[First(T)] = 0
      BY <1>2, <1>3, <2>2, <3>1
    <3>3. QED
      BY <1>3, <3>2
  <2>3. QED
    BY <2>1, <2>2
<1> HIDE DEF P
<1>4. \A T : T \subseteq H => T \in P
  BY <1>3, FiniteInductionOnSets
<1>5. H \in P
  BY <1>4
<1>6. QED
  BY <1>1, <1>5 DEF P

(* The balance of one owner becomes n, the others stay.                    *)
Only(t, u, o, n) ==
  /\ t \in [Holders -> Int] /\ u \in [Holders -> Int]
  /\ u[o] = n
  /\ \A h \in Holders \ {o} : u[h] = t[h]

LEMMA ExceptIsOnly ==
  ASSUME NEW t \in [Holders -> Int], NEW o \in Holders, NEW n \in Int
  PROVE  Only(t, [t EXCEPT ![o] = n], o, n)
BY DEF Only

LEMMA TotalAfterPayment ==
  ASSUME NEW t, NEW u, NEW o \in Holders, NEW n \in Int, Only(t, u, o, n)
  PROVE  Total(t) \in Int /\ Total(u) = Total(t) + n - t[o]
<1>1. /\ t \in [Holders -> Int] /\ u \in [Holders -> Int] /\ u[o] = n
      /\ \A h \in Holders \ {o} : u[h] = t[h]
  BY DEF Only
<1>2. IsFiniteSet(Holders)
  BY LedgerAssumption
<1>3. Total(t) \in Int /\ Total(u) = Total(t) + u[o] - t[o]
  BY <1>1, <1>2, TotalChanges
<1>4. QED
  BY <1>1, <1>3

AllBalances ==
  /\ openBar \in [Holders -> Int] /\ hiddenBar \in [Holders -> Int]
  /\ Total(openBar) \in Int /\ Total(hiddenBar) \in Int

(* What a step of ShieldedAccounts does to the two totals.                 *)
LEMMA MoveTotals ==
  ASSUME AllBalances, Accounts!Next
  PROVE  /\ Total(openBar)' + Total(hiddenBar)' = Total(openBar) + Total(hiddenBar)
         /\ Total(hiddenBar) % DUST_FREE_UNIT = 0 => Total(hiddenBar)' % DUST_FREE_UNIT = 0
<1>0. /\ openBar \in [Holders -> Int] /\ hiddenBar \in [Holders -> Int]
      /\ Total(openBar) \in Int /\ Total(hiddenBar) \in Int
      /\ DUST_FREE_UNIT \in Nat \ {0}
  BY ConfigAssumption DEF AllBalances
<1>1. ASSUME NEW o \in Holders, NEW amount \in Int, Accounts!Hide(o, amount)
      PROVE  /\ Total(openBar)' = Total(openBar) - amount
             /\ Total(hiddenBar)' = Total(hiddenBar) + amount
             /\ amount % DUST_FREE_UNIT = 0
  <2>1. /\ openBar' = [openBar EXCEPT ![o] = openBar[o] - amount]
        /\ hiddenBar' = [hiddenBar EXCEPT ![o] = hiddenBar[o] + amount]
        /\ amount % DUST_FREE_UNIT = 0
    BY <1>1 DEF Accounts!Hide, Accounts!WholeUnits
  <2>2. openBar[o] - amount \in Int /\ hiddenBar[o] + amount \in Int
        /\ openBar[o] \in Int /\ hiddenBar[o] \in Int
    BY <1>0
  <2>3. Total(openBar') = Total(openBar) + (openBar[o] - amount) - openBar[o]
    <3>1. Only(openBar, openBar', o, openBar[o] - amount)
      BY <1>0, <2>1, <2>2, ExceptIsOnly, Zenon
    <3>2. QED
      BY <2>2, <3>1, TotalAfterPayment, Zenon
  <2>4. Total(hiddenBar') = Total(hiddenBar) + (hiddenBar[o] + amount) - hiddenBar[o]
    <3>1. Only(hiddenBar, hiddenBar', o, hiddenBar[o] + amount)
      BY <1>0, <2>1, <2>2, ExceptIsOnly, Zenon
    <3>2. QED
      BY <2>2, <3>1, TotalAfterPayment, Zenon
  <2>5. QED
    BY <1>0, <2>1, <2>2, <2>3, <2>4
<1>2. ASSUME NEW o \in Holders, NEW amount \in Int, Accounts!Unhide(o, amount)
      PROVE  /\ Total(openBar)' = Total(openBar) + amount
             /\ Total(hiddenBar)' = Total(hiddenBar) - amount
             /\ amount % DUST_FREE_UNIT = 0
  <2>1. /\ openBar' = [openBar EXCEPT ![o] = openBar[o] + amount]
        /\ hiddenBar' = [hiddenBar EXCEPT ![o] = hiddenBar[o] - amount]
        /\ amount % DUST_FREE_UNIT = 0
    BY <1>2 DEF Accounts!Unhide, Accounts!WholeUnits
  <2>2. openBar[o] + amount \in Int /\ hiddenBar[o] - amount \in Int
        /\ openBar[o] \in Int /\ hiddenBar[o] \in Int
    BY <1>0
  <2>3. Total(openBar') = Total(openBar) + (openBar[o] + amount) - openBar[o]
    <3>1. Only(openBar, openBar', o, openBar[o] + amount)
      BY <1>0, <2>1, <2>2, ExceptIsOnly, Zenon
    <3>2. QED
      BY <2>2, <3>1, TotalAfterPayment, Zenon
  <2>4. Total(hiddenBar') = Total(hiddenBar) + (hiddenBar[o] - amount) - hiddenBar[o]
    <3>1. Only(hiddenBar, hiddenBar', o, hiddenBar[o] - amount)
      BY <1>0, <2>1, <2>2, ExceptIsOnly, Zenon
    <3>2. QED
      BY <2>2, <3>1, TotalAfterPayment, Zenon
  <2>5. QED
    BY <1>0, <2>1, <2>2, <2>3, <2>4
<1>3. ASSUME NEW o \in Holders, NEW to \in Holders, NEW amount \in Int,
             Accounts!Pay(o, to, amount)
      PROVE  Total(openBar)' = Total(openBar) /\ Total(hiddenBar)' = Total(hiddenBar)
  <2>1. PICK mid : mid = [hiddenBar EXCEPT ![o] = hiddenBar[o] - amount]
    OBVIOUS
  <2>2. openBar' = openBar /\ hiddenBar' = [mid EXCEPT ![to] = mid[to] + amount]
    BY <2>1, <1>3 DEF Accounts!Pay
  <2>3. hiddenBar[o] - amount \in Int /\ hiddenBar[o] \in Int
    BY <1>0
  <2>5. /\ mid \in [Holders -> Int]
        /\ Total(mid) = Total(hiddenBar) + (hiddenBar[o] - amount) - hiddenBar[o]
    <3>1. Only(hiddenBar, mid, o, hiddenBar[o] - amount)
      BY <1>0, <2>1, <2>3, ExceptIsOnly, Zenon
    <3>2. mid \in [Holders -> Int]
      BY <3>1 DEF Only
    <3>3. QED
      BY <2>3, <3>1, <3>2, TotalAfterPayment, Zenon
  <2>4. mid[to] \in Int /\ mid[to] + amount \in Int
    BY <2>5
  <2>6. Total(mid) \in Int /\ Total(hiddenBar') = Total(mid) + (mid[to] + amount) - mid[to]
    <3>1. Only(mid, hiddenBar', to, mid[to] + amount)
      BY <2>2, <2>4, <2>5, ExceptIsOnly, Zenon
    <3>2. QED
      BY <2>4, <3>1, TotalAfterPayment, Zenon
  <2>7. Total(hiddenBar') = Total(hiddenBar)
    BY <1>0, <2>3, <2>4, <2>5, <2>6
  <2>8. QED
    BY <2>2, <2>7
<1>4. ASSUME NEW o \in Holders, NEW amount \in Int,
             Accounts!Hide(o, amount) \/ Accounts!Unhide(o, amount)
      PROVE  /\ Total(openBar)' + Total(hiddenBar)' = Total(openBar) + Total(hiddenBar)
             /\ Total(hiddenBar) % DUST_FREE_UNIT = 0 => Total(hiddenBar)' % DUST_FREE_UNIT = 0
  <2>1. PICK x \in Int, y \in Int : x = Total(openBar) /\ y = Total(hiddenBar)
    BY <1>0
  <2>2. amount % DUST_FREE_UNIT = 0
        /\ \/ Total(openBar)' = x - amount /\ Total(hiddenBar)' = y + amount
           \/ Total(openBar)' = x + amount /\ Total(hiddenBar)' = y - amount
    BY <1>1, <1>2, <1>4, <2>1
  <2>3. y % DUST_FREE_UNIT = 0 =>
          (y + amount) % DUST_FREE_UNIT = 0 /\ (y - amount) % DUST_FREE_UNIT = 0
    BY <1>0, <2>1, <2>2, MultiplesAdd, Zenon
  <2>4. QED
    BY <2>1, <2>2, <2>3
<1>5. QED
  BY <1>0, <1>3, <1>4, Bars DEF Accounts!Next

SupplyInv == TypeOK /\ ShieldedSupplyIsAligned /\ MoneyIsConserved

(* The totals are numbers.                                                 *)
LEMMA TotalsAreNumbers ==
  ASSUME TypeOK
  PROVE  AllBalances
<1>1. openBar \in [Holders -> Int] /\ hiddenBar \in [Holders -> Int]
  BY Bars DEF TypeOK
<1>2. ASSUME NEW t \in [Holders -> Int]
      PROVE  Total(t) \in Int
  <2>1. IsFiniteSet(Holders)
    BY LedgerAssumption
  <2>2. PICK g \in SumsOf(t, Holders) : Total(t) = g[Holders]
    BY <2>1, TotalUnfolds
  <2>3. QED
    BY <2>2 DEF SumsOf
<1>3. QED
  BY <1>1, <1>2 DEF AllBalances

LEMMA InitSupply ==
  ASSUME Init, TypeOK
  PROVE  ShieldedSupplyIsAligned /\ MoneyIsConserved
<1>1. openBar = Supply /\ hiddenBar = [h \in Holders |-> 0]
  BY InitMoney DEF Accounts!Init
<1>2. hiddenBar \in [Holders -> Int] /\ \A h \in Holders : hiddenBar[h] = 0
  BY <1>1
<1>3. IsFiniteSet(Holders)
  BY LedgerAssumption
<1>4. Total(hiddenBar) = 0
  BY <1>2, <1>3, TotalOfNothing
<1>5. Total(openBar) \in Int
  BY TotalsAreNumbers DEF AllBalances
<1>6. Shielded = 0
  BY <1>4 DEF Shielded, hiddenBar
<1>7. 0 % DUST_FREE_UNIT = 0
  BY ConfigAssumption
<1>8. ShieldedSupplyIsAligned
  BY <1>6, <1>7 DEF ShieldedSupplyIsAligned
<1>9. MoneyIsConserved
  BY <1>1, <1>4, <1>5 DEF MoneyIsConserved
<1>10. QED
  BY <1>8, <1>9

LEMMA NextSupply ==
  ASSUME SupplyInv, [Next]_vars
  PROVE  SupplyInv'
<1>1. TypeOK'
  BY NextTypes DEF SupplyInv
<1>2. AllBalances
  BY TotalsAreNumbers DEF SupplyInv
<1>3. [Accounts!Next]_<<openBar, hiddenBar>>
  BY NextMoney DEF SupplyInv
<1>4. /\ Total(openBar)' + Total(hiddenBar)' = Total(openBar) + Total(hiddenBar)
      /\ Total(hiddenBar) % DUST_FREE_UNIT = 0 => Total(hiddenBar)' % DUST_FREE_UNIT = 0
  <2>1. CASE Accounts!Next
    BY <1>2, <2>1, MoveTotals
  <2>2. CASE openBar' = openBar /\ hiddenBar' = hiddenBar
    BY <2>2
  <2>3. QED
    BY <1>3, <2>1, <2>2
<1>5. Shielded = Total(hiddenBar) /\ Shielded' = Total(hiddenBar)'
  BY DEF Shielded, hiddenBar
<1>6. ShieldedSupplyIsAligned'
  BY <1>4, <1>5 DEF SupplyInv, ShieldedSupplyIsAligned
<1>7. MoneyIsConserved'
  BY <1>4 DEF SupplyInv, MoneyIsConserved
<1>8. QED
  BY <1>1, <1>6, <1>7 DEF SupplyInv

(* The two totals stay right whatever the order of the instructions.       *)
THEOREM SupplyInvariant == Spec => []SupplyInv
<1>1. Init => SupplyInv
  BY InitTypes, InitSupply DEF SupplyInv
<1>2. SupplyInv /\ [Next]_vars => SupplyInv'
  BY NextSupply
<1>3. QED
  BY <1>1, <1>2, PTL DEF Spec

(* shield and withdraw move whole units, transfers split what is shielded  *)
(* in any way, and the sum over all accounts stays a multiple of the unit. *)
THEOREM SupplyIsAligned == Spec => []ShieldedSupplyIsAligned
<1>1. SupplyInv => ShieldedSupplyIsAligned
  BY DEF SupplyInv
<1>2. QED
  BY <1>1, SupplyInvariant, PTL

(* shield, apply_pending, confidential_transfer and withdraw, in any order  *)
(* and computed from any readings, keep the sum of all balances.           *)
THEOREM Conservation == Spec => []MoneyIsConserved
<1>1. SupplyInv => MoneyIsConserved
  BY DEF SupplyInv
<1>2. QED
  BY <1>1, SupplyInvariant, PTL
=============================================================================
