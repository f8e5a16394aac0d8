--------------------------- MODULE MixRound_proofs --------------------------
(***************************************************************************)
(* Theorems about MixRound, for every value of its constants.              *)
(***************************************************************************)
EXTENDS MixRoundRefinement, GhosConfig_proofs, FiniteSetTheorems

(***************************************************************************)
(* What each helper of the model returns.                                  *)
(***************************************************************************)
LEMMA SatAddType ==
  ASSUME NEW a \in Time, NEW b \in Int, b > 0
  PROVE  SatAdd(a, b) \in Time /\ SatAdd(a, b) >= a
BY ClockAssumption DEF SatAdd, Time

LEMMA AfterCommitType ==
  ASSUME NEW round \in Round, now \in Time
  PROVE  /\ AfterCommit(round) \in Round
         /\ AfterCommit(round).committed = round.committed + 1
         /\ AfterCommit(round).revealed = round.revealed
         /\ AfterCommit(round).capacity = round.capacity
         /\ AfterCommit(round).commit_close_at = round.commit_close_at
         /\ AfterCommit(round).reveal_close_at = round.reveal_close_at
         /\ AfterCommit(round).settled_at = round.settled_at
         /\ AfterCommit(round).phase \in {round.phase, "Reveal"}
<1>1. PhaseAfterCommit(round) \in {round.phase, "Reveal"}
  BY DEF PhaseAfterCommit
<1>2. PhaseAfterCommit(round) \in Phases
  BY <1>1 DEF Round, Phases
<1>3. round.committed + 1 \in Nat
  BY DEF Round
<1>4. ASSUME NEW n \in Nat, NEW ph \in Phases
      PROVE  [round EXCEPT !.committed = n, !.phase = ph] \in Round
  BY DEF Round
<1>5. AfterCommit(round) \in Round
  BY <1>2, <1>3, <1>4 DEF AfterCommit
<1>6. QED
  BY <1>1, <1>5 DEF AfterCommit, Round

LEMMA AfterRevealType ==
  ASSUME NEW round \in Round
  PROVE  /\ AfterReveal(round) \in Round
         /\ AfterReveal(round).revealed = round.revealed + 1
         /\ AfterReveal(round).committed = round.committed
         /\ AfterReveal(round).capacity = round.capacity
         /\ AfterReveal(round).commit_close_at = round.commit_close_at
         /\ AfterReveal(round).reveal_close_at = round.reveal_close_at
         /\ AfterReveal(round).settled_at = round.settled_at
         /\ AfterReveal(round).phase \in {round.phase, "Settling"}
<1>1. PhaseAfterReveal(round) \in {round.phase, "Settling"}
  BY DEF PhaseAfterReveal
<1>2. PhaseAfterReveal(round) \in Phases
  BY <1>1 DEF Round, Phases
<1>3. round.revealed + 1 \in Nat
  BY DEF Round
<1>4. ASSUME NEW n \in Nat, NEW ph \in Phases
      PROVE  [round EXCEPT !.revealed = n, !.phase = ph] \in Round
  BY DEF Round
<1>5. AfterReveal(round) \in Round
  BY <1>2, <1>3, <1>4 DEF AfterReveal
<1>6. QED
  BY <1>1, <1>5 DEF AfterReveal, Round

LEMMA NewEntryType ==
  ASSUME NEW p \in Participants, NEW round \in Round, NEW bytes \in CommitmentBytes,
         now \in Time
  PROVE  /\ NewEntry(p, round, bytes) \in Commitment
         /\ ~NewEntry(p, round, bytes).revealed
         /\ NewEntry(p, round, bytes).committed_at = now
         /\ NewEntry(p, round, bytes).index = round.committed
BY ClockAssumption DEF NewEntry, Commitment, Round, Time

-----------------------------------------------------------------------------
(***************************************************************************)
(* Type correctness.                                                       *)
(***************************************************************************)
LEMMA NewRoundType ==
  ASSUME NEW h \in Hosts, NEW d \in Nat, NEW c \in Nat, NEW w \in Int, w > 0, now \in Time,
         config \in GhosConfigRecord, config.mix_reveal_window > 0
  PROVE  /\ NewRound(h, d, c, w) \in Round
         /\ NewRound(h, d, c, w).phase = "Commit"
         /\ NewRound(h, d, c, w).committed = 0
         /\ NewRound(h, d, c, w).revealed = 0
         /\ NewRound(h, d, c, w).capacity = c
<1> DEFINE close == SatAdd(now, w)
           over  == SatAdd(close, config.mix_reveal_window)
<1>1. config.mix_reveal_window \in Int
  BY DEF GhosConfigRecord
<1>2. close \in Time
  BY SatAddType
<1>3. over \in Time
  BY <1>1, <1>2, SatAddType
<1>4. 0 \in Time
  BY ClockAssumption DEF Time
<1>5. NewRound(h, d, c, w) =
        [ denomination |-> d, host |-> h, capacity |-> c, committed |-> 0, revealed |-> 0,
          phase |-> "Commit", opened_at |-> now, commit_close_at |-> close,
          reveal_close_at |-> over, settled_at |-> 0 ]
  BY DEF NewRound
<1> HIDE DEF close, over
<1>6. QED
  BY <1>2, <1>3, <1>4, <1>5 DEF Round, Phases

LEMMA MixInitType ==
  ASSUME TypeOK, KnobsInRange, NEW h \in Hosts, NEW r \in RoundIds, NEW d \in Denominations,
         NEW c \in Capacities, NEW w \in CommitWindows, MixInit(h, r, d, c, w)
  PROVE  /\ NewRound(h, d, c, w) \in Round
         /\ NewRound(h, d, c, w).phase = "Commit"
         /\ NewRound(h, d, c, w).committed = 0
         /\ NewRound(h, d, c, w).revealed = 0
         /\ NewRound(h, d, c, w).capacity = c
         /\ c \in Nat /\ c >= 2
         /\ rounds' = [rounds EXCEPT ![r] = NewRound(h, d, c, w)]
<1>1. config \in GhosConfigRecord /\ config.mix_reveal_window > 0
  BY DEF TypeOK, ConfigTypeOK, KnobsInRange, MixInit, NotPaused, ConfigExists
<1>2. now \in Time /\ w \in Int /\ w > 0 /\ d \in Nat
  BY MixAssumption DEF TypeOK, MixInit
<1>3. c \in Nat /\ c >= 2
  BY MixAssumption, ConfigAssumption DEF MixInit
<1>4. rounds' = [rounds EXCEPT ![r] = NewRound(h, d, c, w)]
  BY DEF MixInit
<1>5. QED
  BY <1>1, <1>2, <1>3, <1>4, NewRoundType

LEMMA MixCommitType ==
  ASSUME TypeOK, NEW p \in Participants, NEW r \in RoundIds, NEW b \in CommitmentBytes,
         MixCommit(p, r, b)
  PROVE  /\ rounds[r] \in Round
         /\ rounds' = [rounds EXCEPT ![r] = AfterCommit(rounds[r])]
         /\ AfterCommit(rounds[r]) \in Round
         /\ commitments' = [commitments EXCEPT ![<<r, p>>] = NewEntry(p, rounds[r], b)]
         /\ NewEntry(p, rounds[r], b) \in Commitment
<1>1. rounds[r] \in Round /\ now \in Time
  BY DEF TypeOK, MixCommit
<1>2. AfterCommit(rounds[r]) \in Round
  BY <1>1, AfterCommitType
<1>3. NewEntry(p, rounds[r], b) \in Commitment
  BY <1>1, NewEntryType
<1>4. QED
  BY <1>1, <1>2, <1>3 DEF MixCommit

LEMMA RevealedEntryType ==
  ASSUME NEW entry \in Commitment, NEW s \in Signals, now \in Time
  PROVE  /\ RevealedEntry(entry, s) \in Commitment
         /\ RevealedEntry(entry, s).revealed
         /\ RevealedEntry(entry, s).revealed_at = now
         /\ RevealedEntry(entry, s).reveal_signal = s
         /\ RevealedEntry(entry, s).committed_at = entry.committed_at
         /\ RevealedEntry(entry, s).index = entry.index
BY DEF RevealedEntry, Commitment

LEMMA MixRevealType ==
  ASSUME TypeOK, NEW p \in Participants, NEW r \in RoundIds, NEW x \in Preimages,
         NEW s \in Signals, MixReveal(p, r, x, s)
  PROVE  /\ rounds[r] \in Round
         /\ rounds' = [rounds EXCEPT ![r] = AfterReveal(rounds[r])]
         /\ AfterReveal(rounds[r]) \in Round
         /\ commitments[r, p] \in Commitment
         /\ commitments' = [commitments EXCEPT ![<<r, p>>] = RevealedEntry(commitments[r, p], s)]
         /\ RevealedEntry(commitments[r, p], s) \in Commitment
<1>1. rounds[r] \in Round /\ commitments[r, p] \in Commitment
  BY DEF TypeOK, MixReveal
<1>2. QED
  BY <1>1, AfterRevealType, RevealedEntryType DEF TypeOK, MixReveal

LEMMA DecidedType ==
  ASSUME NEW round \in Round, NEW outcome \in {"Settled", "Aborted"}, now \in Time
  PROVE  /\ Decided(round, outcome) \in Round
         /\ Decided(round, outcome).phase = outcome
         /\ Decided(round, outcome).settled_at = now
         /\ Decided(round, outcome).revealed = round.revealed
         /\ Decided(round, outcome).committed = round.committed
         /\ Decided(round, outcome).capacity = round.capacity
         /\ Decided(round, outcome).commit_close_at = round.commit_close_at
         /\ Decided(round, outcome).reveal_close_at = round.reveal_close_at
<1>1. outcome \in Phases
  BY DEF Phases
<1>2. QED
  BY <1>1 DEF Decided, Round

LEMMA MixSettleType ==
  ASSUME TypeOK, NEW h \in Hosts, NEW r \in RoundIds, MixSettle(h, r)
  PROVE  /\ rounds[r] \in Round
         /\ \E outcome \in {"Settled", "Aborted"} :
              /\ Decides(rounds[r], outcome)
              /\ Decided(rounds[r], outcome) \in Round
              /\ rounds' = [rounds EXCEPT ![r] = Decided(rounds[r], outcome)]
<1>1. rounds[r] \in Round
  BY DEF TypeOK, MixSettle
<1>2. PICK outcome \in {"Settled", "Aborted"} :
        /\ Decides(rounds[r], outcome)
        /\ rounds' = [rounds EXCEPT ![r] = Decided(rounds[r], outcome)]
  BY DEF MixSettle
<1>3. Decided(rounds[r], outcome) \in Round
  BY <1>1, DecidedType DEF TypeOK
<1>4. QED
  BY <1>1, <1>2, <1>3

-----------------------------------------------------------------------------
TypeInv == TypeOK /\ KnobsInRange

LEMMA InitTypeInv == Init => TypeInv
<1> SUFFICES ASSUME Init PROVE TypeInv
  OBVIOUS
<1>1. now \in Time
  BY ClockAssumption DEF Init, ClockInit, Time
<1>2. QED
  BY <1>1 DEF Init, ConfigInit, TypeInv, TypeOK, ConfigTypeOK, KnobsInRange, ConfigExists

LEMMA NextTypeInv == TypeInv /\ [Next]_vars => TypeInv'
<1> SUFFICES ASSUME TypeInv, [Next]_vars PROVE TypeInv'
  OBVIOUS
<1>1. TypeOK /\ KnobsInRange
  BY DEF TypeInv
<1> DEFINE Keep == UNCHANGED <<now, config>>
<1>2. ASSUME Keep, rounds' \in [RoundIds -> Round \cup {NoAccount}],
             commitments' \in [RoundIds \X Participants -> Commitment \cup {NoAccount}]
      PROVE  TypeInv'
  BY <1>1, <1>2 DEF TypeInv, TypeOK, ConfigTypeOK, KnobsInRange, ConfigExists
<1>3. ASSUME NEW h \in Hosts, NEW r \in RoundIds, NEW d \in Denominations,
             NEW c \in Capacities, NEW w \in CommitWindows, MixInit(h, r, d, c, w)
      PROVE  TypeInv'
  <2>1. NewRound(h, d, c, w) \in Round /\ rounds' = [rounds EXCEPT ![r] = NewRound(h, d, c, w)]
    BY <1>1, <1>3, MixInitType
  <2>2. QED
    BY <1>1, <1>2, <1>3, <2>1 DEF MixInit, TypeOK
<1>4. ASSUME NEW p \in Participants, NEW r \in RoundIds, NEW b \in CommitmentBytes,
             MixCommit(p, r, b)
      PROVE  TypeInv'
  <2>1. UNCHANGED <<now, config>>
    BY <1>4 DEF MixCommit
  <2>2. QED
    BY <1>1, <1>2, <1>4, <2>1, MixCommitType DEF TypeOK
<1>5. ASSUME NEW p \in Participants, NEW r \in RoundIds, NEW x \in Preimages,
             NEW s \in Signals, MixReveal(p, r, x, s)
      PROVE  TypeInv'
  <2>1. UNCHANGED <<now, config>>
    BY <1>5 DEF MixReveal
  <2>2. QED
    BY <1>1, <1>2, <1>5, <2>1, MixRevealType DEF TypeOK
<1>6. ASSUME NEW h \in Hosts, NEW r \in RoundIds, MixSettle(h, r)
      PROVE  TypeInv'
  <2>1. UNCHANGED <<now, config, commitments>>
    BY <1>6 DEF MixSettle
  <2>2. QED
    BY <1>1, <1>2, <1>6, <2>1, MixSettleType DEF TypeOK
<1>7. ASSUME ConfigNext, UNCHANGED <<now, rounds, commitments>>
      PROVE  TypeInv'
  BY <1>1, <1>7, ConfigStepType, ConfigStepKnobs DEF TypeInv, TypeOK
<1>8. ASSUME Tick, UNCHANGED <<config, rounds, commitments>>
      PROVE  TypeInv'
  <2>1. now' \in Time
    BY <1>1, <1>8, ClockAssumption DEF Tick, Time, TypeOK
  <2>2. QED
    BY <1>1, <1>8, <2>1 DEF TypeInv, TypeOK, ConfigTypeOK, KnobsInRange, ConfigExists
<1>9. CASE UNCHANGED vars
  BY <1>1, <1>2, <1>9 DEF vars, TypeOK
<1>10. QED
  BY <1>3, <1>4, <1>5, <1>6, <1>7, <1>8, <1>9 DEF Next, MixNext

\* The accounts of every reachable state have the types of state.rs: every
\* deadline a handler stores is an i64, every phase one of MixPhase.
THEOREM TypeCorrect == Spec => []TypeOK
<1>1. Init => TypeInv
  BY InitTypeInv
<1>2. TypeInv /\ [Next]_vars => TypeInv'
  BY NextTypeInv
<1>3. TypeInv => TypeOK
  BY DEF TypeInv
<1>4. QED
  BY <1>1, <1>2, <1>3, PTL DEF Spec

\* Whatever the admins submit, the knobs of the config stay usable: mix_init and
\* mix_settle rely on two of them.
THEOREM KnobsCorrect == Spec => []KnobsInRange
<1>1. Init => TypeInv
  BY InitTypeInv
<1>2. TypeInv /\ [Next]_vars => TypeInv'
  BY NextTypeInv
<1>3. TypeInv => KnobsInRange
  BY DEF TypeInv
<1>4. QED
  BY <1>1, <1>2, <1>3, PTL DEF Spec

-----------------------------------------------------------------------------
(***************************************************************************)
(* What a step does to one round.  Every step of Next leaves a given round *)
(* alone or does one of four things to it; the invariants below are proved *)
(* from these five cases, and no longer from the actions.                  *)
(***************************************************************************)
Untouched(r) ==
  /\ rounds'[r] = rounds[r]
  /\ Committers(r)' = Committers(r)
  /\ Revealers(r)' = Revealers(r)

OpenedNow(r) ==
  /\ ~Opened(r)
  /\ rounds'[r] \in Round
  /\ rounds'[r].phase = "Commit"
  /\ rounds'[r].committed = 0
  /\ rounds'[r].revealed = 0
  /\ rounds'[r].capacity >= 2
  /\ Committers(r)' = Committers(r)
  /\ Revealers(r)' = Revealers(r)

CommittedNow(r) ==
  /\ rounds[r] \in Round
  /\ AcceptsCommit(rounds[r])
  /\ rounds'[r] = AfterCommit(rounds[r])
  /\ rounds'[r] \in Round
  /\ \E p \in Participants \ Committers(r) : Committers(r)' = Committers(r) \cup {p}
  /\ Revealers(r)' = Revealers(r)

RevealedNow(r) ==
  /\ rounds[r] \in Round
  /\ AcceptsReveal(rounds[r])
  /\ rounds'[r] = AfterReveal(rounds[r])
  /\ rounds'[r] \in Round
  /\ Committers(r)' = Committers(r)
  /\ \E p \in Committers(r) \ Revealers(r) : Revealers(r)' = Revealers(r) \cup {p}

DecidedNow(r) ==
  /\ rounds[r] \in Round
  /\ config.mix_min_participants >= 2
  /\ config \in GhosConfigRecord
  /\ \E outcome \in {"Settled", "Aborted"} :
       /\ Decides(rounds[r], outcome)
       /\ rounds'[r] = Decided(rounds[r], outcome)
  /\ rounds'[r] \in Round
  /\ Committers(r)' = Committers(r)
  /\ Revealers(r)' = Revealers(r)

RoundStep(r) ==
  Untouched(r) \/ OpenedNow(r) \/ CommittedNow(r) \/ RevealedNow(r) \/ DecidedNow(r)

LEMMA SameEntries ==
  ASSUME NEW r \in RoundIds,
         \A p \in Participants : commitments'[r, p] = commitments[r, p]
  PROVE  Committers(r)' = Committers(r) /\ Revealers(r)' = Revealers(r)
BY DEF Committers, Revealers

LEMMA CommitIsRoundStep ==
  ASSUME TypeInv, NEW q \in RoundIds, NEW p \in Participants, NEW r \in RoundIds,
         NEW b \in CommitmentBytes, MixCommit(p, r, b)
  PROVE  RoundStep(q)
<1>1. TypeOK
  BY DEF TypeInv
<1> DEFINE entry == NewEntry(p, rounds[r], b)
<1>2. /\ rounds[r] \in Round
      /\ rounds' = [rounds EXCEPT ![r] = AfterCommit(rounds[r])]
      /\ AfterCommit(rounds[r]) \in Round
      /\ commitments' = [commitments EXCEPT ![<<r, p>>] = entry]
      /\ entry \in Commitment
  BY <1>1, MixCommitType
<1>3. entry # NoAccount /\ ~entry.revealed
  BY <1>1, <1>2, MixAssumption DEF NewEntry
<1> HIDE DEF entry
<1>4. CASE q = r
  <2>1. AcceptsCommit(rounds[r])
    BY DEF MixCommit
  <2>2. CASE commitments[r, p] = NoAccount
    <3>1. p \in Participants \ Committers(r)
      BY <2>2 DEF Committers
    <3>2. \A k \in Participants :
            commitments'[r, k] = IF k = p THEN entry ELSE commitments[r, k]
      BY <1>1, <1>2 DEF TypeOK
    <3>3. Committers(r)' = Committers(r) \cup {p}
      BY <1>3, <3>2 DEF Committers
    <3>4. Revealers(r)' = Revealers(r)
      BY <1>3, <2>2, <3>2 DEF Committers, Revealers
    <3>5. rounds'[r] = AfterCommit(rounds[r])
      BY <1>1, <1>2 DEF TypeOK
    <3>6. QED
      BY <1>2, <1>4, <2>1, <3>1, <3>3, <3>4, <3>5 DEF RoundStep, CommittedNow
  <2>3. QED
    BY <2>2 DEF MixCommit, FreshEntry
<1>5. CASE q # r
  <2>1. rounds'[q] = rounds[q]
    BY <1>1, <1>2, <1>5 DEF TypeOK
  <2>2. \A k \in Participants : commitments'[q, k] = commitments[q, k]
    BY <1>1, <1>2, <1>5 DEF TypeOK
  <2>3. QED
    BY <2>1, <2>2, SameEntries DEF RoundStep, Untouched
<1>6. QED
  BY <1>4, <1>5

LEMMA RevealIsRoundStep ==
  ASSUME TypeInv, NEW q \in RoundIds, NEW p \in Participants, NEW r \in RoundIds,
         NEW x \in Preimages, NEW s \in Signals, MixReveal(p, r, x, s)
  PROVE  RoundStep(q)
<1>1. TypeOK
  BY DEF TypeInv
<1> DEFINE entry == RevealedEntry(commitments[r, p], s)
<1>2. /\ rounds[r] \in Round
      /\ rounds' = [rounds EXCEPT ![r] = AfterReveal(rounds[r])]
      /\ AfterReveal(rounds[r]) \in Round
      /\ commitments[r, p] \in Commitment
      /\ commitments' = [commitments EXCEPT ![<<r, p>>] = entry]
      /\ entry \in Commitment
  BY <1>1, MixRevealType
<1>3. entry # NoAccount /\ entry.revealed
  BY <1>1, <1>2, MixAssumption, RevealedEntryType DEF TypeOK
<1>4. commitments[r, p] # NoAccount /\ ~commitments[r, p].revealed /\ AcceptsReveal(rounds[r])
  BY DEF MixReveal, Opens
<1> HIDE DEF entry
<1>5. CASE q = r
  <2>1. p \in Committers(r) \ Revealers(r)
    BY <1>4 DEF Committers, Revealers
  <2>2. \A k \in Participants :
          commitments'[r, k] = IF k = p THEN entry ELSE commitments[r, k]
    BY <1>1, <1>2 DEF TypeOK
  <2>3. Committers(r)' = Committers(r)
    BY <1>3, <1>4, <2>2 DEF Committers
  <2>4. Revealers(r)' = Revealers(r) \cup {p}
    BY <1>3, <2>1, <2>2, <2>3 DEF Committers, Revealers
  <2>5. rounds'[r] = AfterReveal(rounds[r])
    BY <1>1, <1>2 DEF TypeOK
  <2>6. QED
    BY <1>2, <1>4, <1>5, <2>1, <2>3, <2>4, <2>5 DEF RoundStep, RevealedNow
<1>6. CASE q # r
  <2>1. rounds'[q] = rounds[q]
    BY <1>1, <1>2, <1>6 DEF TypeOK
  <2>2. \A k \in Participants : commitments'[q, k] = commitments[q, k]
    BY <1>1, <1>2, <1>6 DEF TypeOK
  <2>3. QED
    BY <2>1, <2>2, SameEntries DEF RoundStep, Untouched
<1>7. QED
  BY <1>5, <1>6

LEMMA EveryStepIsARoundStep ==
  ASSUME TypeInv, [Next]_vars, NEW q \in RoundIds
  PROVE  RoundStep(q)
<1>1. TypeOK /\ KnobsInRange
  BY DEF TypeInv
<1>2. ASSUME UNCHANGED <<rounds, commitments>>
      PROVE  RoundStep(q)
  BY <1>2, SameEntries DEF RoundStep, Untouched
<1>3. ASSUME NEW h \in Hosts, NEW r \in RoundIds, NEW d \in Denominations,
             NEW c \in Capacities, NEW w \in CommitWindows, MixInit(h, r, d, c, w)
      PROVE  RoundStep(q)
  <2>1. /\ NewRound(h, d, c, w) \in Round
        /\ NewRound(h, d, c, w).phase = "Commit"
        /\ NewRound(h, d, c, w).committed = 0
        /\ NewRound(h, d, c, w).revealed = 0
        /\ NewRound(h, d, c, w).capacity >= 2
        /\ rounds' = [rounds EXCEPT ![r] = NewRound(h, d, c, w)]
    BY <1>1, <1>3, MixInitType
  <2>2. ~Opened(r) /\ UNCHANGED commitments
    BY <1>3 DEF MixInit, Opened
  <2>3. Committers(q)' = Committers(q) /\ Revealers(q)' = Revealers(q)
    BY <2>2, SameEntries
  <2>4. CASE q = r
    BY <1>1, <2>1, <2>2, <2>3, <2>4 DEF RoundStep, OpenedNow, TypeOK
  <2>5. CASE q # r
    BY <1>1, <2>1, <2>3, <2>5 DEF RoundStep, Untouched, TypeOK
  <2>6. QED
    BY <2>4, <2>5
<1>4. ASSUME NEW h \in Hosts, NEW r \in RoundIds, MixSettle(h, r)
      PROVE  RoundStep(q)
  <2>1. UNCHANGED commitments
    BY <1>4 DEF MixSettle
  <2>2. Committers(q)' = Committers(q) /\ Revealers(q)' = Revealers(q)
    BY <2>1, SameEntries
  <2>3. config \in GhosConfigRecord /\ config.mix_min_participants >= 2
    BY <1>1, <1>4 DEF MixSettle, NotPaused, ConfigExists, TypeOK, ConfigTypeOK, KnobsInRange
  <2>4. rounds[r] \in Round
    BY <1>1, <1>4, MixSettleType
  <2>5. PICK outcome \in {"Settled", "Aborted"} :
          /\ Decides(rounds[r], outcome)
          /\ Decided(rounds[r], outcome) \in Round
          /\ rounds' = [rounds EXCEPT ![r] = Decided(rounds[r], outcome)]
    BY <1>1, <1>4, MixSettleType
  <2>6. CASE q = r
    <3>1. rounds'[q] = Decided(rounds[q], outcome)
      BY <1>1, <2>5, <2>6 DEF TypeOK
    <3>2. QED
      BY <2>2, <2>3, <2>4, <2>5, <2>6, <3>1 DEF RoundStep, DecidedNow
  <2>7. CASE q # r
    BY <1>1, <2>2, <2>5, <2>7 DEF RoundStep, Untouched, TypeOK
  <2>8. QED
    BY <2>6, <2>7
<1>5. QED
  BY <1>2, <1>3, <1>4, CommitIsRoundStep, RevealIsRoundStep DEF Next, MixNext, vars

-----------------------------------------------------------------------------
(***************************************************************************)
(* The inductive invariant.  Besides the two counters and the phase, it    *)
(* remembers of a decided round what Decides looked at: mix_settle itself  *)
(* leaves no trace of the minimum or of the clock it decided with.         *)
(***************************************************************************)
DecisionInv ==
  \A r \in RoundIds :
    Opened(r) =>
      /\ rounds[r].phase # "Open"
      /\ rounds[r].phase = "Settled" => rounds[r].revealed >= 2
      /\ rounds[r].phase \in {"Settled", "Aborted"} =>
           \/ rounds[r].phase = "Settled" /\ rounds[r].revealed = rounds[r].committed
           \/ rounds[r].settled_at > rounds[r].reveal_close_at

IInv == TypeInv /\ CountersMatchEntries /\ PhaseMatchesCounters /\ DecisionInv

LEMMA EntrySetsAreFinite ==
  ASSUME NEW r \in RoundIds
  PROVE  /\ IsFiniteSet(Committers(r)) /\ IsFiniteSet(Revealers(r))
         /\ Cardinality(Committers(r)) \in Nat /\ Cardinality(Revealers(r)) \in Nat
         /\ Revealers(r) \subseteq Committers(r)
<1>1. Committers(r) \subseteq Participants /\ Revealers(r) \subseteq Participants
  BY DEF Committers, Revealers
<1>2. QED
  BY <1>1, MixAssumption, FS_Subset, FS_CardinalityType DEF Revealers

LEMMA CountersStep ==
  ASSUME IInv, [Next]_vars
  PROVE  CountersMatchEntries'
<1> SUFFICES ASSUME NEW r \in RoundIds
             PROVE  /\ ~Opened(r)' => Committers(r)' = {}
                    /\ Opened(r)' => /\ rounds'[r].committed = Cardinality(Committers(r)')
                                     /\ rounds'[r].revealed = Cardinality(Revealers(r)')
  BY DEF CountersMatchEntries
<1>1. RoundStep(r)
  BY EveryStepIsARoundStep DEF IInv
<1>2. /\ ~Opened(r) => Committers(r) = {}
      /\ Opened(r) => /\ rounds[r].committed = Cardinality(Committers(r))
                      /\ rounds[r].revealed = Cardinality(Revealers(r))
  BY DEF IInv, CountersMatchEntries
<1>3. now \in Time
  BY DEF IInv, TypeInv, TypeOK
<1>4. CASE Untouched(r)
  BY <1>2, <1>4 DEF Untouched, Opened
<1>5. CASE OpenedNow(r)
  <2>1. Committers(r)' = {} /\ Revealers(r)' = {}
    BY <1>2, <1>5, EntrySetsAreFinite DEF OpenedNow
  <2>2. rounds'[r] # NoAccount
    BY <1>5, MixAssumption DEF OpenedNow
  <2>3. QED
    BY <1>5, <2>1, <2>2, FS_EmptySet DEF OpenedNow, Opened
<1>6. CASE CommittedNow(r)
  <2>1. Opened(r) /\ Opened(r)'
    BY <1>6, MixAssumption DEF CommittedNow, Opened
  <2>2. PICK p \in Participants \ Committers(r) : Committers(r)' = Committers(r) \cup {p}
    BY <1>6 DEF CommittedNow
  <2>3. Cardinality(Committers(r)') = Cardinality(Committers(r)) + 1
    BY <2>2, EntrySetsAreFinite, FS_AddElement
  <2>4. rounds'[r].committed = rounds[r].committed + 1 /\ rounds'[r].revealed = rounds[r].revealed
    BY <1>3, <1>6, AfterCommitType DEF CommittedNow
  <2>5. Revealers(r)' = Revealers(r)
    BY <1>6 DEF CommittedNow
  <2>6. QED
    BY <1>2, <2>1, <2>3, <2>4, <2>5
<1>7. CASE RevealedNow(r)
  <2>1. Opened(r) /\ Opened(r)'
    BY <1>7, MixAssumption DEF RevealedNow, Opened
  <2>2. PICK p \in Committers(r) \ Revealers(r) : Revealers(r)' = Revealers(r) \cup {p}
    BY <1>7 DEF RevealedNow
  <2>3. Cardinality(Revealers(r)') = Cardinality(Revealers(r)) + 1
    BY <2>2, EntrySetsAreFinite, FS_AddElement
  <2>4. rounds'[r].revealed = rounds[r].revealed + 1 /\ rounds'[r].committed = rounds[r].committed
    BY <1>7, AfterRevealType DEF RevealedNow
  <2>5. Committers(r)' = Committers(r)
    BY <1>7 DEF RevealedNow
  <2>6. QED
    BY <1>2, <2>1, <2>3, <2>4, <2>5
<1>8. CASE DecidedNow(r)
  <2>1. Opened(r) /\ Opened(r)'
    BY <1>8, MixAssumption DEF DecidedNow, Opened
  <2>2. rounds'[r].committed = rounds[r].committed /\ rounds'[r].revealed = rounds[r].revealed
    BY <1>3, <1>8, DecidedType DEF DecidedNow
  <2>3. Committers(r)' = Committers(r) /\ Revealers(r)' = Revealers(r)
    BY <1>8 DEF DecidedNow
  <2>4. QED
    BY <1>2, <2>1, <2>2, <2>3
<1>9. QED
  BY <1>1, <1>4, <1>5, <1>6, <1>7, <1>8 DEF RoundStep

LEMMA PhaseStep ==
  ASSUME IInv, [Next]_vars
  PROVE  PhaseMatchesCounters' /\ DecisionInv'
<1> DEFINE
      PhaseOK(round) ==
        /\ round.phase = "Commit" => round.revealed = 0 /\ round.committed < round.capacity
        /\ round.phase # "Commit" => round.committed = round.capacity
        /\ round.phase \in {"Reveal", "Aborted"} => round.revealed < round.committed
        /\ round.phase = "Settling" => round.revealed = round.committed
      DecisionOK(round) ==
        /\ round.phase # "Open"
        /\ round.phase = "Settled" => round.revealed >= 2
        /\ round.phase \in {"Settled", "Aborted"} =>
             \/ round.phase = "Settled" /\ round.revealed = round.committed
             \/ round.settled_at > round.reveal_close_at
<1> SUFFICES ASSUME NEW r \in RoundIds, rounds'[r] # NoAccount
             PROVE  PhaseOK(rounds'[r]) /\ DecisionOK(rounds'[r])
  BY DEF PhaseMatchesCounters, DecisionInv, Opened
<1>1. RoundStep(r)
  BY EveryStepIsARoundStep DEF IInv
<1>2. rounds[r] # NoAccount => PhaseOK(rounds[r]) /\ DecisionOK(rounds[r])
  BY DEF IInv, PhaseMatchesCounters, DecisionInv, Opened
<1>3. now \in Time
  BY DEF IInv, TypeInv, TypeOK
<1>4. CASE Untouched(r)
  BY <1>2, <1>4 DEF Untouched
<1>5. CASE OpenedNow(r)
  BY <1>5 DEF OpenedNow, Round
<1>6. CASE CommittedNow(r)
  <2> DEFINE old == rounds[r]
             new == rounds'[r]
  <2>1. /\ old \in Round /\ new \in Round
        /\ old.phase = "Commit" /\ now < old.commit_close_at /\ old.committed < old.capacity
        /\ new = AfterCommit(old)
    BY <1>6 DEF CommittedNow, AcceptsCommit
  <2>2. old # NoAccount
    BY <2>1, MixAssumption
  <2>3. /\ new.committed = old.committed + 1 /\ new.revealed = old.revealed
        /\ new.capacity = old.capacity
    BY <1>3, <2>1, AfterCommitType
  <2>4. /\ new.phase = PhaseAfterCommit(old)
    BY <2>1 DEF AfterCommit, Round
  <2>5. old.revealed = 0
    BY <1>2, <2>1, <2>2
  <2>6. old.committed \in Nat /\ old.capacity \in Nat /\ old.commit_close_at \in Int /\ now \in Int
    BY <1>3, <2>1 DEF Round, Time
  <2> HIDE DEF old, new
  <2>7. /\ old.committed + 1 = old.capacity => new.phase = "Reveal"
        /\ old.committed + 1 # old.capacity => new.phase = "Commit"
    BY <2>1, <2>4, <2>6 DEF PhaseAfterCommit
  <2>8. PhaseOK(new) /\ DecisionOK(new)
    BY <2>1, <2>3, <2>5, <2>6, <2>7
  <2>9. QED
    BY <2>8 DEF new
<1>7. CASE RevealedNow(r)
  <2> DEFINE old == rounds[r]
             new == rounds'[r]
  <2>1. old \in Round /\ new \in Round /\ old.phase = "Reveal" /\ new = AfterReveal(old)
    BY <1>7 DEF RevealedNow, AcceptsReveal
  <2>2. old # NoAccount
    BY <2>1, MixAssumption
  <2>3. /\ new.revealed = old.revealed + 1 /\ new.committed = old.committed
        /\ new.capacity = old.capacity
    BY <2>1, AfterRevealType
  <2>4. new.phase = PhaseAfterReveal(old)
    BY <2>1 DEF AfterReveal, Round
  <2>5. old.committed = old.capacity /\ old.revealed < old.committed
    BY <1>2, <2>1, <2>2
  <2>6. old.committed \in Nat /\ old.revealed \in Nat
    BY <2>1 DEF Round
  <2> HIDE DEF old, new
  <2>7. /\ old.revealed + 1 = old.committed => new.phase = "Settling"
        /\ old.revealed + 1 # old.committed => new.phase = "Reveal"
    BY <2>1, <2>4 DEF PhaseAfterReveal
  <2>8. PhaseOK(new) /\ DecisionOK(new)
    BY <2>3, <2>5, <2>6, <2>7
  <2>9. QED
    BY <2>8 DEF new
<1>8. CASE DecidedNow(r)
  <2> DEFINE old == rounds[r]
             new == rounds'[r]
  <2>1. PICK outcome \in {"Settled", "Aborted"} : Decides(old, outcome) /\ new = Decided(old, outcome)
    BY <1>8 DEF DecidedNow
  <2>2. old \in Round /\ old # NoAccount
    BY <1>8, MixAssumption DEF DecidedNow
  <2>3. /\ new.phase = outcome /\ new.settled_at = now /\ new.revealed = old.revealed
        /\ new.committed = old.committed /\ new.capacity = old.capacity
        /\ new.reveal_close_at = old.reveal_close_at
    BY <1>3, <2>1, <2>2, DecidedType
  <2>4. /\ old.committed \in Nat /\ old.revealed \in Nat /\ old.reveal_close_at \in Int
        /\ now \in Int /\ config.mix_min_participants \in Nat /\ config.mix_min_participants >= 2
    BY <1>3, <1>8, <2>2 DEF DecidedNow, Round, Time, GhosConfigRecord
  <2>5. PhaseOK(old)
    BY <1>2, <2>2
  <2> HIDE DEF old, new
  <2>6. ASSUME old.phase = "Settling"
        PROVE  PhaseOK(new) /\ DecisionOK(new)
    BY <2>1, <2>3, <2>4, <2>5, <2>6 DEF Decides, HasQuorum
  <2>7. ASSUME old.phase = "Reveal"
        PROVE  PhaseOK(new) /\ DecisionOK(new)
    <3>1. now > old.reveal_close_at /\ outcome = IF HasQuorum(old) THEN "Settled" ELSE "Aborted"
      BY <2>1, <2>7 DEF Decides, RevealWindowLapsed
    <3>2. outcome = "Settled" => old.revealed >= 2
      BY <2>4, <3>1 DEF HasQuorum
    <3>3. old.revealed < old.committed /\ old.committed = old.capacity
      BY <2>5, <2>7
    <3>4. new.settled_at > new.reveal_close_at
      BY <2>3, <3>1
    <3>5. QED
      BY <2>3, <3>2, <3>3, <3>4
  <2>8. PhaseOK(new) /\ DecisionOK(new)
    BY <2>1, <2>6, <2>7 DEF Decides
  <2>9. QED
    BY <2>8 DEF new
<1>9. QED
  BY <1>1, <1>4, <1>5, <1>6, <1>7, <1>8 DEF RoundStep

LEMMA InitIInv == Init => IInv
<1> SUFFICES ASSUME Init PROVE IInv
  OBVIOUS
<1>1. TypeInv
  BY InitTypeInv
<1>2. \A r \in RoundIds : ~Opened(r) /\ Committers(r) = {}
  BY DEF Init, Opened, Committers
<1>3. QED
  BY <1>1, <1>2 DEF IInv, CountersMatchEntries, PhaseMatchesCounters, DecisionInv

LEMMA NextIInv == IInv /\ [Next]_vars => IInv'
BY NextTypeInv, CountersStep, PhaseStep DEF IInv

THEOREM Invariance == Spec => []IInv
<1>1. QED
  BY InitIInv, NextIInv, PTL DEF Spec

-----------------------------------------------------------------------------
\* The counters a handler reads in the MixRound account never disagree with
\* the MixCommitment accounts, in any interleaving of joins and reveals.
THEOREM CountersCorrect == Spec => []CountersMatchEntries
<1>1. IInv => CountersMatchEntries
  BY DEF IInv
<1>2. QED
  BY <1>1, Invariance, PTL

\* Commit ends exactly when the round is full, and Reveal exactly when the last
\* participant has revealed.
THEOREM PhaseCorrect == Spec => []PhaseMatchesCounters
<1>1. IInv => PhaseMatchesCounters
  BY DEF IInv
<1>2. QED
  BY <1>1, Invariance, PTL

\* A settled round has an anonymity set of two at least, whatever updates of
\* the minimum surrounded it.
THEOREM SettledRoundsCorrect == Spec => []SettledRoundsMixSomething
<1>1. ASSUME IInv PROVE SettledRoundsMixSomething
  <2> SUFFICES ASSUME NEW r \in RoundIds, Opened(r), rounds[r].phase = "Settled"
               PROVE  Cardinality(Revealers(r)) >= 2
    BY DEF SettledRoundsMixSomething
  <2>1. rounds[r].revealed >= 2 /\ rounds[r].revealed = Cardinality(Revealers(r))
    BY <1>1 DEF IInv, DecisionInv, CountersMatchEntries
  <2>2. QED
    BY <2>1
<1>2. QED
  BY <1>1, Invariance, PTL

\* The deadline never races the last reveal: a round everybody revealed in is
\* not aborted, and one with reveals missing is not closed before its window.
THEOREM ClosingCorrect == Spec => []ClosedEarlyOnlyWhenComplete
<1>1. ASSUME IInv PROVE ClosedEarlyOnlyWhenComplete
  <2> SUFFICES ASSUME NEW r \in RoundIds, Terminal(r),
                      ~(rounds[r].settled_at > rounds[r].reveal_close_at)
               PROVE  rounds[r].phase = "Settled" /\ Revealers(r) = Committers(r)
    BY DEF ClosedEarlyOnlyWhenComplete
  <2>1. Opened(r) /\ rounds[r].phase \in {"Settled", "Aborted"}
    BY DEF Terminal
  <2>2. rounds[r].phase = "Settled" /\ rounds[r].revealed = rounds[r].committed
    BY <1>1, <2>1 DEF IInv, DecisionInv
  <2>3. Cardinality(Revealers(r)) = Cardinality(Committers(r))
    BY <1>1, <2>1, <2>2 DEF IInv, CountersMatchEntries
  <2>4. QED
    BY <2>2, <2>3, EntrySetsAreFinite, FS_Subset
<1>2. QED
  BY <1>1, Invariance, PTL

\* Commit-then-reveal: the set of participants is fixed before the first
\* opening is public.
THEOREM JoiningStopsAtTheFirstReveal == Spec => NobodyJoinsAfterAReveal
<1>1. ASSUME IInv, [Next]_vars
      PROVE  \A r \in RoundIds : Revealers(r) # {} => Committers(r)' = Committers(r)
  <2> SUFFICES ASSUME NEW r \in RoundIds, Revealers(r) # {}
               PROVE  Committers(r)' = Committers(r)
    OBVIOUS
  <2>1. RoundStep(r)
    BY <1>1, EveryStepIsARoundStep DEF IInv
  <2>2. ~CommittedNow(r)
    <3> SUFFICES ASSUME CommittedNow(r) PROVE FALSE
      OBVIOUS
    <3>1. Opened(r) /\ rounds[r].phase = "Commit"
      BY MixAssumption DEF CommittedNow, AcceptsCommit, Opened
    <3>2. Cardinality(Revealers(r)) = 0
      BY <1>1, <3>1 DEF IInv, CountersMatchEntries, PhaseMatchesCounters
    <3>3. QED
      BY <3>2, EntrySetsAreFinite, FS_EmptySet
  <2>3. QED
    BY <2>1, <2>2 DEF RoundStep, Untouched, OpenedNow, RevealedNow, DecidedNow
<1>2. IInv /\ [Next]_vars
        => [\A r \in RoundIds : Revealers(r) # {} => Committers(r)' = Committers(r)]_vars
  BY <1>1
<1>3. QED
  BY <1>2, Invariance, PTL DEF Spec, NobodyJoinsAfterAReveal

-----------------------------------------------------------------------------
\* What a step does to one entry: nothing, fill an empty PDA, or reveal it.
EntryStep(e) ==
  \/ commitments'[e] = commitments[e]
  \/ commitments[e] = NoAccount
  \/ /\ commitments[e] \in Commitment
     /\ ~commitments[e].revealed
     /\ \E s \in Signals : commitments'[e] = RevealedEntry(commitments[e], s)

LEMMA EveryStepIsAnEntryStep ==
  ASSUME TypeOK, [Next]_vars, NEW e \in RoundIds \X Participants
  PROVE  EntryStep(e)
<1>1. commitments \in [RoundIds \X Participants -> Commitment \cup {NoAccount}]
  BY DEF TypeOK
<1>2. ASSUME NEW p \in Participants, NEW r \in RoundIds, NEW b \in CommitmentBytes,
             MixCommit(p, r, b)
      PROVE  EntryStep(e)
  <2>1. commitments[<<r, p>>] = NoAccount
    BY <1>2 DEF MixCommit, FreshEntry
  <2>2. e # <<r, p>> => commitments'[e] = commitments[e]
    BY <1>1, <1>2 DEF MixCommit
  <2>3. QED
    BY <2>1, <2>2 DEF EntryStep
<1>3. ASSUME NEW p \in Participants, NEW r \in RoundIds, NEW x \in Preimages,
             NEW s \in Signals, MixReveal(p, r, x, s)
      PROVE  EntryStep(e)
  <2>1. /\ commitments[<<r, p>>] \in Commitment
        /\ ~commitments[<<r, p>>].revealed
    BY <1>1, <1>3 DEF MixReveal, Opens
  <2>2. commitments' = [commitments EXCEPT ![<<r, p>>] = RevealedEntry(commitments[<<r, p>>], s)]
    BY <1>3 DEF MixReveal
  <2>3. commitments'[<<r, p>>] = RevealedEntry(commitments[<<r, p>>], s)
    BY <1>1, <2>2
  <2>4. e # <<r, p>> => commitments'[e] = commitments[e]
    BY <1>1, <2>2
  <2>5. QED
    BY <2>1, <2>3, <2>4 DEF EntryStep
<1>4. ASSUME UNCHANGED commitments PROVE EntryStep(e)
  BY <1>4 DEF EntryStep
<1>5. QED
  BY <1>2, <1>3, <1>4 DEF Next, MixNext, MixInit, MixSettle, vars

\* A participant's commitment, index and dates stand from the step that stores
\* them; the reveal adds to them once and nothing takes it back.
THEOREM EntriesCorrect == Spec => EntriesAreWriteOnce
<1> DEFINE Kept(e) ==
      commitments[e] # NoAccount =>
        /\ commitments'[e] # NoAccount
        /\ \A f \in {"participant", "commitment", "index", "committed_at"} :
             commitments'[e][f] = commitments[e][f]
        /\ commitments[e].revealed => commitments'[e] = commitments[e]
<1>1. ASSUME TypeOK, [Next]_vars, NEW e \in RoundIds \X Participants PROVE Kept(e)
  <2>1. ASSUME commitments[e] \in Commitment, ~commitments[e].revealed, NEW s \in Signals,
               commitments'[e] = RevealedEntry(commitments[e], s)
        PROVE  Kept(e)
    <3>1. RevealedEntry(commitments[e], s).revealed
      BY <2>1 DEF RevealedEntry, Commitment
    <3>2. commitments'[e] # NoAccount
      <4>1. commitments'[e] \in Commitment
        BY <1>1, <2>1, RevealedEntryType DEF TypeOK
      <4>2. QED
        BY <4>1, MixAssumption
    <3>3. /\ commitments'[e].participant = commitments[e].participant
          /\ commitments'[e].commitment = commitments[e].commitment
          /\ commitments'[e].index = commitments[e].index
          /\ commitments'[e].committed_at = commitments[e].committed_at
      BY <2>1 DEF RevealedEntry, Commitment
    <3>4. QED
      BY <2>1, <3>2, <3>3
  <2>2. QED
    BY <1>1, <2>1, EveryStepIsAnEntryStep DEF EntryStep
<1>2. TypeOK /\ [Next]_vars => [\A e \in RoundIds \X Participants : Kept(e)]_vars
  BY <1>1
<1>3. QED
  BY <1>2, TypeCorrect, PTL DEF Spec, EntriesAreWriteOnce

\* A decided round is history: neither its account nor an entry of it changes.
THEOREM DecidedRoundsStay == Spec => TerminalRoundsAreFrozen
<1> DEFINE Frozen(r) ==
      Terminal(r) =>
        /\ rounds'[r] = rounds[r]
        /\ \A p \in Participants : commitments'[r, p] = commitments[r, p]
<1>1. ASSUME TypeOK, [Next]_vars, NEW r \in RoundIds PROVE Frozen(r)
  <2> SUFFICES ASSUME Terminal(r)
               PROVE  /\ rounds'[r] = rounds[r]
                      /\ \A p \in Participants : commitments'[r, p] = commitments[r, p]
    OBVIOUS
  <2>1. rounds[r] # NoAccount /\ rounds[r].phase \in {"Settled", "Aborted"}
    BY DEF Terminal, Opened
  <2>2. /\ rounds \in [RoundIds -> Round \cup {NoAccount}]
        /\ commitments \in [RoundIds \X Participants -> Commitment \cup {NoAccount}]
    BY <1>1 DEF TypeOK
  <2>3. ASSUME NEW h \in Hosts, NEW q \in RoundIds, NEW d \in Denominations,
               NEW c \in Capacities, NEW w \in CommitWindows, MixInit(h, q, d, c, w)
        PROVE  rounds'[r] = rounds[r] /\ UNCHANGED commitments
    BY <2>1, <2>2, <2>3 DEF MixInit
  <2>4. ASSUME NEW p \in Participants, NEW q \in RoundIds,
               q # r,
               \E new : rounds' = [rounds EXCEPT ![q] = new],
               \E new : commitments' = [commitments EXCEPT ![<<q, p>>] = new]
        PROVE  /\ rounds'[r] = rounds[r]
               /\ \A k \in Participants : commitments'[<<r, k>>] = commitments[<<r, k>>]
    BY <2>2, <2>4
  <2>5. ASSUME NEW p \in Participants, NEW q \in RoundIds, NEW b \in CommitmentBytes,
               MixCommit(p, q, b)
        PROVE  /\ rounds'[r] = rounds[r]
               /\ \A k \in Participants : commitments'[<<r, k>>] = commitments[<<r, k>>]
    <3>1. q # r
      BY <2>1, <2>5 DEF MixCommit, AcceptsCommit
    <3>2. QED
      BY <2>4, <2>5, <3>1 DEF MixCommit
  <2>6. ASSUME NEW p \in Participants, NEW q \in RoundIds, NEW x \in Preimages,
               NEW s \in Signals, MixReveal(p, q, x, s)
        PROVE  /\ rounds'[r] = rounds[r]
               /\ \A k \in Participants : commitments'[<<r, k>>] = commitments[<<r, k>>]
    <3>1. q # r
      BY <2>1, <2>6 DEF MixReveal, AcceptsReveal
    <3>2. commitments' = [commitments EXCEPT ![<<q, p>>] = RevealedEntry(commitments[<<q, p>>], s)]
      BY <2>6 DEF MixReveal
    <3>3. rounds' = [rounds EXCEPT ![q] = AfterReveal(rounds[q])]
      BY <2>6 DEF MixReveal
    <3>4. QED
      BY <2>4, <3>1, <3>2, <3>3
  <2>7. ASSUME NEW h \in Hosts, NEW q \in RoundIds, MixSettle(h, q)
        PROVE  rounds'[r] = rounds[r] /\ UNCHANGED commitments
    <3>1. q # r
      BY <2>1, <2>7 DEF MixSettle, Decides
    <3>2. QED
      BY <2>2, <2>7, <3>1 DEF MixSettle
  <2>8. QED
    BY <1>1, <2>3, <2>5, <2>6, <2>7 DEF Next, MixNext, vars
<1>2. TypeOK /\ [Next]_vars => [\A r \in RoundIds : Frozen(r)]_vars
  BY <1>1
<1>3. QED
  BY <1>2, TypeCorrect, PTL DEF Spec, TerminalRoundsAreFrozen

-----------------------------------------------------------------------------
(***************************************************************************)
(* What a step does to the entries of one round, with the fields of the    *)
(* entry it writes: nothing, one more entry, or one more opening.          *)
(***************************************************************************)
SameTerms(r) ==
  /\ Opened(r) /\ rounds'[r] # NoAccount
  /\ rounds'[r].committed = rounds[r].committed
  /\ rounds'[r].commit_close_at = rounds[r].commit_close_at
  /\ rounds'[r].reveal_close_at = rounds[r].reveal_close_at

OthersKept(r, p) == \A q \in Participants \ {p} : commitments'[<<r, q>>] = commitments[<<r, q>>]

EntriesKept(r) ==
  /\ \A q \in Participants : commitments'[<<r, q>>] = commitments[<<r, q>>]
  /\ \/ rounds'[r] = rounds[r]
     \/ ~Opened(r) /\ rounds'[r] # NoAccount /\ rounds'[r].committed = 0
     \/ SameTerms(r)

EntryAdded(r) ==
  \E p \in Participants :
    /\ Opened(r) /\ AcceptsCommit(rounds[r])
    /\ rounds'[r] # NoAccount
    /\ rounds'[r].committed = rounds[r].committed + 1
    /\ rounds'[r].commit_close_at = rounds[r].commit_close_at
    /\ rounds'[r].reveal_close_at = rounds[r].reveal_close_at
    /\ commitments[<<r, p>>] = NoAccount
    /\ commitments'[<<r, p>>] # NoAccount
    /\ ~commitments'[<<r, p>>].revealed
    /\ commitments'[<<r, p>>].index = rounds[r].committed
    /\ commitments'[<<r, p>>].committed_at = now
    /\ OthersKept(r, p)

EntryOpened(r) ==
  \E p \in Participants :
    /\ SameTerms(r) /\ AcceptsReveal(rounds[r])
    /\ commitments[<<r, p>>] # NoAccount
    /\ commitments'[<<r, p>>] # NoAccount
    /\ commitments'[<<r, p>>].revealed
    /\ commitments'[<<r, p>>].revealed_at = now
    /\ commitments'[<<r, p>>].index = commitments[<<r, p>>].index
    /\ commitments'[<<r, p>>].committed_at = commitments[<<r, p>>].committed_at
    /\ OthersKept(r, p)

(* Every instruction, and the clock, does one of the three to every round.  *)
LEMMA EveryStepIsAnEntriesStep ==
  ASSUME TypeInv, [Next]_vars, NEW q \in RoundIds
  PROVE  (EntriesKept(q) \/ EntryAdded(q) \/ EntryOpened(q)) /\ now \in Time /\ now <= now'
         /\ (EntriesKept(q) \/ now' = now)
<1>1. TypeOK /\ KnobsInRange /\ now \in Time
  BY DEF TypeInv, TypeOK
<1>2. /\ rounds \in [RoundIds -> Round \cup {NoAccount}]
      /\ commitments \in [RoundIds \X Participants -> Commitment \cup {NoAccount}]
  BY <1>1 DEF TypeOK
<1>3. ASSUME NEW h \in Hosts, NEW r \in RoundIds, NEW d \in Denominations,
             NEW c \in Capacities, NEW w \in CommitWindows, MixInit(h, r, d, c, w)
      PROVE  EntriesKept(q) /\ now' = now
  <2>1. /\ NewRound(h, d, c, w) \in Round /\ NewRound(h, d, c, w).committed = 0
        /\ rounds' = [rounds EXCEPT ![r] = NewRound(h, d, c, w)]
    BY <1>1, <1>3, MixInitType
  <2>2. NewRound(h, d, c, w) # NoAccount
    BY <2>1, MixAssumption
  <2>3. rounds[r] = NoAccount /\ UNCHANGED <<now, commitments>>
    BY <1>3 DEF MixInit
  <2>4. CASE q = r
    BY <1>2, <2>1, <2>2, <2>3, <2>4 DEF EntriesKept, Opened
  <2>5. CASE q # r
    BY <1>2, <2>1, <2>3, <2>5 DEF EntriesKept
  <2>6. QED
    BY <2>3, <2>4, <2>5
<1>4. ASSUME NEW p \in Participants, NEW r \in RoundIds, NEW b \in CommitmentBytes,
             MixCommit(p, r, b)
      PROVE  (EntriesKept(q) \/ EntryAdded(q)) /\ now' = now
  <2>1. /\ rounds[r] \in Round
        /\ rounds' = [rounds EXCEPT ![r] = AfterCommit(rounds[r])]
        /\ AfterCommit(rounds[r]) \in Round
        /\ commitments' = [commitments EXCEPT ![<<r, p>>] = NewEntry(p, rounds[r], b)]
        /\ NewEntry(p, rounds[r], b) \in Commitment
    BY <1>1, <1>4, MixCommitType
  <2>2. now' = now /\ rounds[r] # NoAccount /\ commitments[<<r, p>>] = NoAccount /\ AcceptsCommit(rounds[r])
    BY <1>4 DEF MixCommit, FreshEntry
  <2>3. CASE q = r
    <3>1. rounds'[r] = AfterCommit(rounds[r]) /\ rounds'[r] # NoAccount
      BY <1>2, <2>1, MixAssumption
    <3>2. commitments'[<<r, p>>] = NewEntry(p, rounds[r], b) /\ commitments'[<<r, p>>] # NoAccount
      BY <1>2, <2>1, MixAssumption
    <3>3. OthersKept(r, p)
      BY <1>2, <2>1 DEF OthersKept
    <3>4. /\ ~NewEntry(p, rounds[r], b).revealed
          /\ NewEntry(p, rounds[r], b).committed_at = now
          /\ NewEntry(p, rounds[r], b).index = rounds[r].committed
      BY <1>1, <2>1, NewEntryType
    <3>5. /\ AfterCommit(rounds[r]).committed = rounds[r].committed + 1
          /\ AfterCommit(rounds[r]).commit_close_at = rounds[r].commit_close_at
          /\ AfterCommit(rounds[r]).reveal_close_at = rounds[r].reveal_close_at
      BY <1>1, <2>1, AfterCommitType
    <3>6. EntryAdded(r)
      BY <2>2, <3>1, <3>2, <3>3, <3>4, <3>5, Zenon DEF EntryAdded, Opened
    <3>7. QED
      BY <2>2, <2>3, <3>6
  <2>4. CASE q # r
    BY <1>2, <2>1, <2>2, <2>4 DEF EntriesKept
  <2>5. QED
    BY <2>3, <2>4
<1>5. ASSUME NEW p \in Participants, NEW r \in RoundIds, NEW x \in Preimages,
             NEW s \in Signals, MixReveal(p, r, x, s)
      PROVE  (EntriesKept(q) \/ EntryOpened(q)) /\ now' = now
  <2>1. /\ rounds[r] \in Round
        /\ rounds' = [rounds EXCEPT ![r] = AfterReveal(rounds[r])]
        /\ AfterReveal(rounds[r]) \in Round
        /\ commitments[r, p] \in Commitment
        /\ commitments' = [commitments EXCEPT ![<<r, p>>] = RevealedEntry(commitments[r, p], s)]
        /\ RevealedEntry(commitments[r, p], s) \in Commitment
    BY <1>1, <1>5, MixRevealType
  <2>2. now' = now /\ rounds[r] # NoAccount /\ commitments[<<r, p>>] # NoAccount
        /\ AcceptsReveal(rounds[r])
    BY <1>5 DEF MixReveal
  <2>3. CASE q = r
    <3>1. rounds'[r] = AfterReveal(rounds[r]) /\ rounds'[r] # NoAccount
      BY <1>2, <2>1, MixAssumption
    <3>2. commitments'[<<r, p>>] = RevealedEntry(commitments[<<r, p>>], s)
          /\ commitments'[<<r, p>>] # NoAccount
      BY <1>2, <2>1, MixAssumption
    <3>3. OthersKept(r, p)
      BY <1>2, <2>1 DEF OthersKept
    <3>4. /\ RevealedEntry(commitments[<<r, p>>], s).revealed
          /\ RevealedEntry(commitments[<<r, p>>], s).revealed_at = now
          /\ RevealedEntry(commitments[<<r, p>>], s).committed_at = commitments[<<r, p>>].committed_at
          /\ RevealedEntry(commitments[<<r, p>>], s).index = commitments[<<r, p>>].index
      BY <1>1, <2>1, RevealedEntryType
    <3>5. SameTerms(r)
      BY <2>1, <2>2, <3>1, AfterRevealType DEF SameTerms, Opened
    <3>6. EntryOpened(r)
      BY <2>2, <3>2, <3>3, <3>4, <3>5, Zenon DEF EntryOpened
    <3>7. QED
      BY <2>2, <2>3, <3>6
  <2>4. CASE q # r
    BY <1>2, <2>1, <2>2, <2>4 DEF EntriesKept
  <2>5. QED
    BY <2>3, <2>4
<1>6. ASSUME NEW h \in Hosts, NEW r \in RoundIds, MixSettle(h, r)
      PROVE  EntriesKept(q) /\ now' = now
  <2>1. rounds[r] \in Round /\ rounds[r] # NoAccount /\ UNCHANGED <<now, commitments>>
    BY <1>1, <1>6, MixSettleType DEF MixSettle
  <2>2. PICK outcome \in {"Settled", "Aborted"} :
          /\ Decided(rounds[r], outcome) \in Round
          /\ rounds' = [rounds EXCEPT ![r] = Decided(rounds[r], outcome)]
    BY <1>1, <1>6, MixSettleType
  <2>3. CASE q = r
    <3>1. rounds'[r] = Decided(rounds[r], outcome) /\ rounds'[r] # NoAccount
      BY <1>2, <2>2, MixAssumption
    <3>2. SameTerms(r)
      BY <1>1, <2>1, <3>1, DecidedType DEF SameTerms, Opened
    <3>3. QED
      BY <2>1, <2>3, <3>2 DEF EntriesKept
  <2>4. CASE q # r
    BY <1>2, <2>1, <2>2, <2>4 DEF EntriesKept
  <2>5. QED
    BY <2>1, <2>3, <2>4
<1>7. ASSUME UNCHANGED <<rounds, commitments>>
      PROVE  EntriesKept(q)
  BY <1>7 DEF EntriesKept
<1>8. ASSUME ConfigNext, UNCHANGED <<now, rounds, commitments>>
      PROVE  EntriesKept(q) /\ now' = now
  BY <1>7, <1>8
<1>9. ASSUME Tick, UNCHANGED <<config, rounds, commitments>>
      PROVE  EntriesKept(q) /\ now <= now'
  BY <1>1, <1>7, <1>9 DEF Tick, Time
<1>10. CASE UNCHANGED vars
  BY <1>1, <1>7, <1>10 DEF vars, Time
<1>11. now' = now => now <= now'
  BY <1>1 DEF Time
<1>12. QED
  BY <1>1, <1>3, <1>4, <1>5, <1>6, <1>8, <1>9, <1>10, <1>11 DEF Next, MixNext

-----------------------------------------------------------------------------
(***************************************************************************)
(* The numbering and the order of commits and reveals.                     *)
(***************************************************************************)

(* An entry is not from the future and was made inside the commit window,   *)
(* whether or not anybody has revealed yet.                                *)
CommitsAreInTime ==
  \A r \in RoundIds : \A q \in Committers(r) :
    /\ commitments[<<r, q>>].committed_at < rounds[r].commit_close_at
    /\ commitments[<<r, q>>].committed_at <= now

Numbered(r) ==
  Opened(r) =>
    /\ {commitments[<<r, p>>].index : p \in Committers(r)} = 0 .. rounds[r].committed - 1
    /\ \A p, q \in Committers(r) :
         commitments[<<r, p>>].index = commitments[<<r, q>>].index => p = q

LEMMA IndicesAreNumbers == IndicesNumberTheEntries <=> \A r \in RoundIds : Numbered(r)
BY DEF IndicesNumberTheEntries, Numbered

LEMMA NumberedStep ==
  ASSUME IInv, [Next]_vars, IndicesNumberTheEntries, NEW r \in RoundIds
  PROVE  Numbered(r)'
<1>1. Numbered(r)
  BY IndicesAreNumbers
<1>2. EntriesKept(r) \/ EntryAdded(r) \/ EntryOpened(r)
  BY EveryStepIsAnEntriesStep DEF IInv
<1>3. ~Opened(r) => Committers(r) = {}
  BY DEF IInv, CountersMatchEntries
<1>4. CASE EntriesKept(r)
  <2>1. \A q \in Participants : commitments'[<<r, q>>] = commitments[<<r, q>>]
    BY <1>4 DEF EntriesKept
  <2>2. Committers(r)' = Committers(r)
    BY <2>1 DEF Committers
  <2>3. {commitments'[<<r, q>>].index : q \in Committers(r)} = {commitments[<<r, q>>].index : q \in Committers(r)}
    BY <2>1 DEF Committers
  <2>4. \A p \in Committers(r) : commitments'[<<r, p>>].index = commitments[<<r, p>>].index
    BY <2>1 DEF Committers
  <2>5. CASE ~Opened(r) /\ rounds'[r].committed = 0
    <3>1. Committers(r)' = {}
      BY <1>3, <2>2, <2>5
    <3>2. {commitments'[<<r, q>>].index : q \in Committers(r)'} = {}
      BY <3>1
    <3>3. 0 .. rounds'[r].committed - 1 = {}
      BY <2>5
    <3>4. QED
      BY <3>1, <3>2, <3>3 DEF Numbered
  <2>6. CASE Opened(r) /\ rounds'[r].committed = rounds[r].committed
    BY <1>1, <2>2, <2>3, <2>4, <2>6 DEF Numbered
  <2>7. CASE ~Opened(r)'
    BY <2>7 DEF Numbered
  <2>8. QED
    BY <1>4, <2>5, <2>6, <2>7 DEF EntriesKept, SameTerms, Opened
<1>5. CASE EntryAdded(r)
  <2>1. PICK p \in Participants :
          /\ Opened(r)
          /\ rounds'[r].committed = rounds[r].committed + 1
          /\ commitments[<<r, p>>] = NoAccount
          /\ commitments'[<<r, p>>] # NoAccount
          /\ commitments'[<<r, p>>].index = rounds[r].committed
          /\ OthersKept(r, p)
    BY <1>5 DEF EntryAdded
  <2> DEFINE n == rounds[r].committed
  <2>2. n \in Nat
    BY <2>1 DEF Opened, IInv, TypeInv, TypeOK, Round
  <2>3. Committers(r)' = Committers(r) \cup {p} /\ p \notin Committers(r)
    <3>1. \A q \in Participants :
            commitments'[<<r, q>>] # NoAccount <=> (q = p \/ commitments[<<r, q>>] # NoAccount)
      BY <2>1 DEF OthersKept
    <3>2. QED
      BY <2>1, <3>1 DEF Committers
  <2>4. \A q \in Committers(r) : commitments'[<<r, q>>].index = commitments[<<r, q>>].index
    BY <2>1, <2>3 DEF Committers, OthersKept
  <2>5. {commitments[<<r, q>>].index : q \in Committers(r)} = 0 .. n - 1
    BY <1>1, <2>1 DEF Numbered
  <2>6. \A q \in Committers(r) : commitments[<<r, q>>].index \in 0 .. n - 1
    BY <2>5
  <2>7. {commitments'[<<r, q>>].index : q \in Committers(r) \cup {p}} = (0 .. n - 1) \cup {n}
    BY <2>1, <2>4, <2>5
  <2>8. (0 .. n - 1) \cup {n} = 0 .. (n + 1) - 1
    BY <2>2
  <2>9. ASSUME NEW a \in Committers(r) \cup {p}, NEW b \in Committers(r) \cup {p},
               commitments'[<<r, a>>].index = commitments'[<<r, b>>].index
        PROVE  a = b
    <3>1. CASE a \in Committers(r) /\ b \in Committers(r)
      BY <1>1, <2>1, <2>4, <2>9, <3>1 DEF Numbered
    <3>2. ASSUME NEW q \in Committers(r)
          PROVE  commitments'[<<r, q>>].index # commitments'[<<r, p>>].index
      BY <2>1, <2>2, <2>4, <2>6, <3>2
    <3>3. QED
      BY <2>9, <3>1, <3>2
  <2>10. {commitments'[<<r, q>>].index : q \in Committers(r)'} = 0 .. rounds'[r].committed - 1
    BY <2>1, <2>3, <2>7, <2>8
  <2>11. QED
    BY <2>3, <2>9, <2>10 DEF Numbered
<1>6. CASE EntryOpened(r)
  <2>1. PICK p \in Participants :
          /\ SameTerms(r)
          /\ commitments[<<r, p>>] # NoAccount
          /\ commitments'[<<r, p>>] # NoAccount
          /\ commitments'[<<r, p>>].index = commitments[<<r, p>>].index
          /\ OthersKept(r, p)
    BY <1>6 DEF EntryOpened
  <2>2. Committers(r)' = Committers(r)
    BY <2>1 DEF Committers, OthersKept
  <2>3. \A q \in Committers(r) : commitments'[<<r, q>>].index = commitments[<<r, q>>].index
    BY <2>1 DEF Committers, OthersKept
  <2>4. {commitments'[<<r, q>>].index : q \in Committers(r)} = {commitments[<<r, q>>].index : q \in Committers(r)}
    BY <2>3
  <2>5. QED
    BY <1>1, <2>1, <2>2, <2>3, <2>4, ZenonT(60) DEF Numbered, SameTerms
<1>7. QED
  BY <1>2, <1>4, <1>5, <1>6

(* An entry is added before anything is revealed, and opened after all were *)
(* added; the clock has not gone back in between.                          *)
LEMMA OrderStep ==
  ASSUME IInv, [Next]_vars, CommitsAreInTime, RevealsFollowCommits
  PROVE  CommitsAreInTime' /\ RevealsFollowCommits'
<1> DEFINE Timely(r, q) ==
             /\ commitments[<<r, q>>].committed_at < rounds[r].commit_close_at
             /\ commitments[<<r, q>>].committed_at <= now
           Ordered(r, p, q) ==
             commitments[<<r, q>>].committed_at <= commitments[<<r, p>>].revealed_at
           Prompt(r, p) ==
             commitments[<<r, p>>].revealed_at <= rounds[r].reveal_close_at
<1> SUFFICES ASSUME NEW r \in RoundIds
             PROVE  /\ \A q \in Committers(r)' : Timely(r, q)'
                    /\ \A p \in Revealers(r)' :
                         Prompt(r, p)' /\ \A q \in Committers(r)' : Ordered(r, p, q)'
  BY DEF CommitsAreInTime, RevealsFollowCommits
<1>1. /\ EntriesKept(r) \/ EntryAdded(r) \/ EntryOpened(r)
      /\ now \in Time /\ now <= now'
      /\ EntriesKept(r) \/ now' = now
  BY EveryStepIsAnEntriesStep DEF IInv
<1>2. /\ \A q \in Committers(r) : Timely(r, q)
      /\ \A p \in Revealers(r) : Prompt(r, p) /\ \A q \in Committers(r) : Ordered(r, p, q)
  BY DEF CommitsAreInTime, RevealsFollowCommits
<1>3. ~Opened(r) => Committers(r) = {}
  BY DEF IInv, CountersMatchEntries
<1>4. \A q \in Committers(r) : commitments[<<r, q>>].committed_at \in Int
  <2>1. \A q \in Committers(r) : commitments[<<r, q>>] \in Commitment
    BY DEF Committers, IInv, TypeInv, TypeOK
  <2>2. \A e \in Commitment : e.committed_at \in Int
    BY DEF Commitment, Time
  <2>3. QED
    BY <2>1, <2>2
<1>5. now \in Int /\ now' \in Int
  BY <1>1, NextTypeInv DEF IInv, TypeInv, TypeOK, Time
<1>6. CASE EntriesKept(r)
  <2>1. \A q \in Participants : commitments'[<<r, q>>] = commitments[<<r, q>>]
    BY <1>6 DEF EntriesKept
  <2>2. Committers(r)' = Committers(r) /\ Revealers(r)' = Revealers(r)
    BY <2>1 DEF Committers, Revealers
  <2>3. CASE Committers(r) = {}
    BY <2>2, <2>3 DEF Revealers
  <2>4. CASE /\ rounds'[r].commit_close_at = rounds[r].commit_close_at
             /\ rounds'[r].reveal_close_at = rounds[r].reveal_close_at
    <3>1. ASSUME NEW q \in Committers(r) PROVE Timely(r, q)'
      <4>1. commitments'[<<r, q>>].committed_at = commitments[<<r, q>>].committed_at
        BY <2>1 DEF Committers
      <4>2. Timely(r, q) /\ commitments[<<r, q>>].committed_at \in Int
        BY <1>2, <1>4
      <4>3. commitments[<<r, q>>].committed_at <= now'
        BY <4>2, <1>1, <1>5
      <4>4. QED
        BY <2>4, <4>1, <4>2, <4>3
    <3>2. ASSUME NEW p \in Revealers(r)
          PROVE  Prompt(r, p)' /\ \A q \in Committers(r) : Ordered(r, p, q)'
      BY <3>2, <1>2, <2>1, <2>4 DEF Committers, Revealers
    <3>3. QED
      BY <2>2, <3>1, <3>2
  <2>5. QED
    BY <1>3, <1>6, <2>3, <2>4 DEF EntriesKept, SameTerms
<1>7. CASE EntryAdded(r) /\ now' = now
  <2>1. PICK p \in Participants :
          /\ Opened(r) /\ AcceptsCommit(rounds[r])
          /\ rounds'[r].commit_close_at = rounds[r].commit_close_at
          /\ commitments[<<r, p>>] = NoAccount
          /\ commitments'[<<r, p>>] # NoAccount
          /\ ~commitments'[<<r, p>>].revealed
          /\ commitments'[<<r, p>>].committed_at = now
          /\ OthersKept(r, p)
    BY <1>7 DEF EntryAdded
  <2>2. Committers(r)' = Committers(r) \cup {p} /\ p \notin Committers(r)
    <3>1. \A q \in Participants :
            commitments'[<<r, q>>] # NoAccount <=> (q = p \/ commitments[<<r, q>>] # NoAccount)
      BY <2>1 DEF OthersKept
    <3>2. QED
      BY <2>1, <3>1 DEF Committers
  <2>3. Revealers(r) = {}
    <3>1. rounds[r].revealed = 0 /\ rounds[r].revealed = Cardinality(Revealers(r))
      BY <2>1 DEF AcceptsCommit, IInv, PhaseMatchesCounters, CountersMatchEntries
    <3>2. QED
      BY <3>1, EntrySetsAreFinite, FS_EmptySet
  <2>4. Revealers(r)' = {}
    BY <2>1, <2>2, <2>3 DEF Revealers, OthersKept, Committers
  <2>5. ASSUME NEW q \in Committers(r) PROVE Timely(r, q)'
    <3>1. commitments'[<<r, q>>] = commitments[<<r, q>>]
      BY <2>1, <2>2 DEF Committers, OthersKept
    <3>2. QED
      BY <1>2, <1>7, <2>1, <3>1
  <2>6. Timely(r, p)'
    BY <1>5, <1>7, <2>1 DEF AcceptsCommit
  <2>7. QED
    BY <2>2, <2>4, <2>5, <2>6
<1>8. CASE EntryOpened(r) /\ now' = now
  <2>1. PICK p \in Participants :
          /\ SameTerms(r) /\ AcceptsReveal(rounds[r])
          /\ commitments[<<r, p>>] # NoAccount
          /\ commitments'[<<r, p>>] # NoAccount
          /\ commitments'[<<r, p>>].revealed_at = now
          /\ commitments'[<<r, p>>].committed_at = commitments[<<r, p>>].committed_at
          /\ OthersKept(r, p)
    BY <1>8 DEF EntryOpened
  <2>2. Committers(r)' = Committers(r) /\ p \in Committers(r)
    BY <2>1 DEF Committers, OthersKept
  <2>3. \A q \in Committers(r) :
          commitments'[<<r, q>>].committed_at = commitments[<<r, q>>].committed_at
    BY <2>1 DEF Committers, OthersKept
  <2>4. \A k \in Revealers(r)' : k = p \/ (k \in Revealers(r) /\ commitments'[<<r, k>>] = commitments[<<r, k>>])
    BY <2>1, <2>2 DEF Revealers, Committers, OthersKept
  <2>5. ASSUME NEW q \in Committers(r) PROVE Timely(r, q)'
    BY <1>2, <1>8, <2>1, <2>3, <2>5 DEF SameTerms
  <2>6. ASSUME NEW k \in Revealers(r)'
        PROVE  Prompt(r, k)' /\ \A q \in Committers(r) : Ordered(r, k, q)'
    <3>1. CASE k = p
      <4>1. Prompt(r, p)'
        BY <2>1 DEF AcceptsReveal, SameTerms
      <4>2. \A q \in Committers(r) : Ordered(r, p, q)'
        BY <1>2, <2>1, <2>3
      <4>3. QED
        BY <3>1, <4>1, <4>2
    <3>2. CASE k \in Revealers(r) /\ commitments'[<<r, k>>] = commitments[<<r, k>>]
      BY <1>2, <2>1, <2>3, <3>2 DEF SameTerms
    <3>3. QED
      BY <2>4, <2>6, <3>1, <3>2
  <2>7. QED
    BY <2>2, <2>5, <2>6
<1>9. QED
  BY <1>1, <1>6, <1>7, <1>8

HistoryInv == IInv /\ IndicesNumberTheEntries /\ CommitsAreInTime /\ RevealsFollowCommits

(* The numbering, the dates and the order of a round hold together.        *)
THEOREM HistoryInvariance == Spec => []HistoryInv
<1>1. Init => HistoryInv
  <2> SUFFICES ASSUME Init PROVE HistoryInv
    OBVIOUS
  <2>1. \A r \in RoundIds : ~Opened(r) /\ Committers(r) = {} /\ Revealers(r) = {}
    BY DEF Init, Opened, Committers, Revealers
  <2>2. QED
    BY <2>1, InitIInv
    DEF HistoryInv, IndicesNumberTheEntries, CommitsAreInTime, RevealsFollowCommits
<1>2. HistoryInv /\ [Next]_vars => HistoryInv'
  <2> SUFFICES ASSUME HistoryInv, [Next]_vars PROVE HistoryInv'
    OBVIOUS
  <2>1. \A r \in RoundIds : Numbered(r)'
    BY NumberedStep DEF HistoryInv
  <2>2. IndicesNumberTheEntries'
    BY <2>1 DEF IndicesNumberTheEntries, Numbered
  <2>3. QED
    BY <2>2, NextIInv, OrderStep DEF HistoryInv
<1>3. QED
  BY <1>1, <1>2, PTL DEF Spec

\* The indices of a round are 0 .. committed - 1, each given once, in every
\* interleaving of the participants' mix_commit.
THEOREM IndicesCorrect == Spec => []IndicesNumberTheEntries
<1>1. HistoryInv => IndicesNumberTheEntries
  BY DEF HistoryInv
<1>2. QED
  BY <1>1, HistoryInvariance, PTL

\* In every round all commitments are older than every reveal, and every reveal
\* is inside the window mix_init set.
THEOREM OrderCorrect == Spec => []RevealsFollowCommits
<1>1. HistoryInv => RevealsFollowCommits
  BY DEF HistoryInv
<1>2. QED
  BY <1>1, HistoryInvariance, PTL

-----------------------------------------------------------------------------
(***************************************************************************)
(* MixRound implements CommitReveal: no clock, counter, pause or update of *)
(* the config can make a round do what the promise does not allow.         *)
(***************************************************************************)

Addresses == RoundIds \X Participants

\* An entry shows a signal exactly when it is revealed.
SignalInv ==
  \A e \in Addresses :
    commitments[e] # NoAccount =>
      (commitments[e].revealed <=> commitments[e].reveal_signal # NoSignal)

RInv == IInv /\ SignalInv

LEMMA NextSignalInv ==
  ASSUME RInv, [Next]_vars
  PROVE  SignalInv'
<1>1. TypeOK /\ SignalInv
  BY DEF RInv, IInv, TypeInv
<1>2. ASSUME UNCHANGED commitments
      PROVE  SignalInv'
  BY <1>1, <1>2 DEF SignalInv
<1>3. ASSUME NEW p \in Participants, NEW r \in RoundIds, NEW b \in CommitmentBytes,
             MixCommit(p, r, b)
      PROVE  SignalInv'
  <2> DEFINE entry == NewEntry(p, rounds[r], b)
  <2>1. commitments' = [commitments EXCEPT ![<<r, p>>] = entry]
    BY <1>1, <1>3, MixCommitType
  <2>2. ~entry.revealed /\ entry.reveal_signal = NoSignal
    BY DEF NewEntry
  <2> HIDE DEF entry
  <2>3. QED
    BY <1>1, <2>1, <2>2 DEF SignalInv, TypeOK, Addresses
<1>4. ASSUME NEW p \in Participants, NEW r \in RoundIds, NEW x \in Preimages,
             NEW s \in Signals, MixReveal(p, r, x, s)
      PROVE  SignalInv'
  <2> DEFINE entry == RevealedEntry(commitments[r, p], s)
  <2>1. /\ commitments[r, p] \in Commitment
        /\ commitments' = [commitments EXCEPT ![<<r, p>>] = entry]
    BY <1>1, <1>4, MixRevealType, ZenonT(60)
  <2>2. entry.revealed /\ entry.reveal_signal = s /\ s # NoSignal
    BY <1>1, <2>1, RevealedEntryType, MixAssumption DEF TypeOK
  <2> HIDE DEF entry
  <2>3. QED
    BY <1>1, <2>1, <2>2 DEF SignalInv, TypeOK, Addresses
<1>5. QED
  BY <1>2, <1>3, <1>4 DEF Next, MixNext, MixInit, MixSettle, vars

LEMMA RInvariance == Spec => []RInv
<1>1. Init => RInv
  BY InitIInv DEF RInv, SignalInv, Init, Addresses
<1>2. RInv /\ [Next]_vars => RInv'
  BY NextIInv, NextSignalInv DEF RInv
<1>3. QED
  BY <1>1, <1>2, PTL DEF Spec

-----------------------------------------------------------------------------
LEMMA InitRefines == Init => Promise!Init
BY DEF Init, Promise!Init, stageBar, sealedBar, openedBar, StageOf, SealedOf, OpenedOf

LEMMA MixInitRefines ==
  ASSUME RInv, NEW h \in Hosts, NEW r \in RoundIds, NEW d \in Denominations,
         NEW c \in Capacities, NEW w \in CommitWindows, MixInit(h, r, d, c, w)
  PROVE  Promise!Announce(r)
<1>1. TypeOK /\ KnobsInRange
  BY DEF RInv, IInv, TypeInv
<1>2. /\ NewRound(h, d, c, w) \in Round
      /\ NewRound(h, d, c, w).phase = "Commit"
      /\ rounds' = [rounds EXCEPT ![r] = NewRound(h, d, c, w)]
  BY <1>1, MixInitType
<1>3. StageOf(NewRound(h, d, c, w)) = "Collecting"
  BY <1>2, MixAssumption DEF StageOf
<1>4. stageBar' = [stageBar EXCEPT ![r] = "Collecting"]
  BY <1>1, <1>2, <1>3 DEF stageBar, TypeOK
<1>5. stageBar[r] = "None"
  BY DEF stageBar, StageOf, MixInit
<1>6. UNCHANGED <<sealedBar, openedBar>>
  BY DEF MixInit, sealedBar, openedBar
<1>7. QED
  BY <1>4, <1>5, <1>6 DEF Promise!Announce

LEMMA MixCommitRefines ==
  ASSUME RInv, NEW p \in Participants, NEW r \in RoundIds, NEW b \in CommitmentBytes,
         MixCommit(p, r, b)
  PROVE  Promise!Seal(r, p, b)
<1>1. TypeOK
  BY DEF RInv, IInv, TypeInv
<1> DEFINE entry == NewEntry(p, rounds[r], b)
           round == AfterCommit(rounds[r])
<1>2. /\ rounds[r] \in Round /\ rounds' = [rounds EXCEPT ![r] = round] /\ round \in Round
      /\ commitments' = [commitments EXCEPT ![<<r, p>>] = entry] /\ entry \in Commitment
  BY <1>1, MixCommitType
<1>3. entry.commitment = b /\ entry.reveal_signal = NoSignal
  BY DEF NewEntry
<1>4. round.phase \in {"Commit", "Reveal"}
  BY <1>1, <1>2, AfterCommitType DEF TypeOK, MixCommit, AcceptsCommit
<1>5. commitments[r, p] = NoAccount /\ rounds[r].phase = "Commit"
  BY DEF MixCommit, FreshEntry, AcceptsCommit
<1> HIDE DEF entry, round
<1>6. stageBar[r] = "Collecting" /\ sealedBar[r, p] = NoSignal
  BY <1>2, <1>5, MixAssumption DEF stageBar, sealedBar, StageOf, SealedOf
<1>7. StageOf(round) \in {"Collecting", "Opening"}
  BY <1>2, <1>4, MixAssumption DEF StageOf
<1>8. stageBar' = [stageBar EXCEPT ![r] = StageOf(round)]
  BY <1>1, <1>2 DEF stageBar, TypeOK
<1>9. stageBar' = stageBar \/ stageBar' = [stageBar EXCEPT ![r] = "Opening"]
  BY <1>6, <1>7, <1>8 DEF stageBar
<1>10. SealedOf(entry) = b /\ OpenedOf(entry) = NoSignal
  BY <1>2, <1>3, MixAssumption DEF SealedOf, OpenedOf
<1>11. sealedBar' = [sealedBar EXCEPT ![<<r, p>>] = b]
  BY <1>1, <1>2, <1>10 DEF sealedBar, TypeOK
<1>12. openedBar' = openedBar
  BY <1>1, <1>2, <1>5, <1>10 DEF openedBar, OpenedOf, TypeOK
<1>13. QED
  BY <1>6, <1>9, <1>11, <1>12 DEF Promise!Seal

LEMMA MixRevealRefines ==
  ASSUME RInv, NEW p \in Participants, NEW r \in RoundIds, NEW x \in Preimages,
         NEW s \in Signals, MixReveal(p, r, x, s)
  PROVE  Promise!OpenEnvelope(r, p, s)
<1>1. TypeOK /\ SignalInv
  BY DEF RInv, IInv, TypeInv
<1> DEFINE entry == RevealedEntry(commitments[r, p], s)
           round == AfterReveal(rounds[r])
<1>2. /\ rounds[r] \in Round /\ rounds' = [rounds EXCEPT ![r] = round] /\ round \in Round
      /\ commitments[r, p] \in Commitment
      /\ commitments' = [commitments EXCEPT ![<<r, p>>] = entry] /\ entry \in Commitment
  BY <1>1, MixRevealType, ZenonT(60)
<1>3. entry.reveal_signal = s /\ entry.commitment = commitments[r, p].commitment
  BY <1>1, <1>2, RevealedEntryType DEF TypeOK, RevealedEntry, Commitment
<1>4. round.phase \in {"Reveal", "Settling"} /\ rounds[r].phase = "Reveal"
  BY <1>2, AfterRevealType DEF MixReveal, AcceptsReveal
<1>5. /\ commitments[r, p] # NoAccount /\ ~commitments[r, p].revealed
      /\ Digest(x, s) = commitments[r, p].commitment
  BY DEF MixReveal, Opens
<1> HIDE DEF entry, round
<1>6. stageBar[r] = "Opening" /\ StageOf(round) = "Opening"
  BY <1>2, <1>4, MixAssumption DEF stageBar, StageOf
<1>7. sealedBar[r, p] = commitments[r, p].commitment /\ sealedBar[r, p] # NoSignal
  BY <1>2, <1>5, MixAssumption DEF sealedBar, SealedOf, Commitment
<1>8. openedBar[r, p] = NoSignal
  BY <1>1, <1>5 DEF openedBar, OpenedOf, SignalInv, Addresses
<1>9. FitsSignal(sealedBar[r, p], s)
  BY <1>5, <1>7 DEF FitsSignal
<1>10. stageBar' = stageBar
  BY <1>1, <1>2, <1>6 DEF stageBar, TypeOK
<1>11. SealedOf(entry) = commitments[r, p].commitment /\ OpenedOf(entry) = s
  BY <1>2, <1>3, MixAssumption DEF SealedOf, OpenedOf
<1>12. sealedBar' = sealedBar
  BY <1>1, <1>2, <1>5, <1>11 DEF sealedBar, SealedOf, TypeOK
<1>13. openedBar' = [openedBar EXCEPT ![<<r, p>>] = s]
  BY <1>1, <1>2, <1>11 DEF openedBar, TypeOK
<1>14. QED
  BY <1>6, <1>7, <1>8, <1>9, <1>10, <1>12, <1>13 DEF Promise!OpenEnvelope

LEMMA SameSets ==
  ASSUME RInv, NEW r \in RoundIds
  PROVE  Promise!Joined(r) = Committers(r) /\ Promise!HasOpened(r) = Revealers(r)
<1>1. \A p \in Participants : commitments[r, p] \in Commitment \cup {NoAccount}
  BY DEF RInv, IInv, TypeInv, TypeOK
<1>2. \A p \in Participants : (sealedBar[r, p] # NoSignal) <=> (commitments[r, p] # NoAccount)
  BY <1>1, MixAssumption DEF sealedBar, SealedOf, Commitment
<1>3. \A p \in Participants :
        (openedBar[r, p] # NoSignal)
          <=> (commitments[r, p] # NoAccount /\ commitments[r, p].revealed)
  BY DEF RInv, SignalInv, Addresses, openedBar, OpenedOf
<1>4. Promise!Joined(r) = Committers(r)
  BY <1>2 DEF Promise!Joined, Committers
<1>5. Promise!HasOpened(r) = {p \in Participants : openedBar[r, p] # NoSignal}
  BY DEF Promise!HasOpened
<1>6. Revealers(r) = {p \in Participants :
                       commitments[r, p] # NoAccount /\ commitments[r, p].revealed}
  BY DEF Committers, Revealers
<1>7. QED
  BY <1>3, <1>4, <1>5, <1>6

LEMMA TwoElements ==
  ASSUME NEW S, IsFiniteSet(S), Cardinality(S) >= 2
  PROVE  \E p, q \in S : p # q
<1>1. Cardinality(S) # 0 /\ Cardinality(S) # 1
  BY FS_CardinalityType
<1>2. S # {} /\ ~\E x : S = {x}
  BY <1>1, FS_EmptySet, FS_Singleton
<1>3. PICK p \in S : TRUE
  BY <1>2
<1>4. S # {p}
  BY <1>2
<1>5. PICK q \in S : q # p
  BY <1>3, <1>4
<1>6. QED
  BY <1>5

LEMMA MixSettleRefines ==
  ASSUME RInv, NEW h \in Hosts, NEW r \in RoundIds, MixSettle(h, r)
  PROVE  Promise!Settle(r) \/ Promise!GiveUp(r)
<1>1. TypeOK /\ KnobsInRange /\ CountersMatchEntries /\ PhaseMatchesCounters
  BY DEF RInv, IInv, TypeInv
<1>2. PICK outcome \in {"Settled", "Aborted"} :
        /\ Decides(rounds[r], outcome)
        /\ Decided(rounds[r], outcome) \in Round
        /\ rounds' = [rounds EXCEPT ![r] = Decided(rounds[r], outcome)]
  BY <1>1, MixSettleType
<1>3. rounds[r] \in Round /\ Opened(r) /\ now \in Time
  BY <1>1, MixSettleType DEF MixSettle, Opened, TypeOK
<1>4. StageOf(Decided(rounds[r], outcome)) = outcome
  <2>1. Decided(rounds[r], outcome).phase = outcome
    BY <1>3, DecidedType
  <2>2. Decided(rounds[r], outcome) # NoAccount
    BY <1>2, MixAssumption
  <2>3. QED
    BY <2>1, <2>2 DEF StageOf
<1>5. stageBar' = [stageBar EXCEPT ![r] = outcome]
  BY <1>1, <1>2, <1>4 DEF stageBar, TypeOK
<1>6. stageBar[r] = "Opening"
  BY <1>2, <1>3 DEF stageBar, StageOf, Decides, Opened
<1>7. UNCHANGED <<sealedBar, openedBar>>
  BY DEF MixSettle, sealedBar, openedBar
<1>8. CASE outcome = "Settled"
  <2>1. config \in GhosConfigRecord /\ config.mix_min_participants >= 2
    BY <1>1 DEF MixSettle, NotPaused, ConfigExists, TypeOK, ConfigTypeOK, KnobsInRange
  <2>2. rounds[r].revealed >= config.mix_min_participants
    BY <1>2, <1>8 DEF Decides, HasQuorum
  <2>3. rounds[r].revealed = Cardinality(Revealers(r)) /\ rounds[r].revealed \in Nat
    BY <1>1, <1>3 DEF CountersMatchEntries, Round
  <2>4. Cardinality(Revealers(r)) >= 2
    BY <2>1, <2>2, <2>3 DEF GhosConfigRecord
  <2>5. \E p, q \in Promise!HasOpened(r) : p # q
    BY <2>4, TwoElements, EntrySetsAreFinite, SameSets
  <2>6. QED
    BY <1>5, <1>6, <1>7, <1>8, <2>5 DEF Promise!Settle
<1>9. CASE outcome = "Aborted"
  <2>1. rounds[r].phase = "Reveal"
    BY <1>2, <1>9 DEF Decides
  <2>2. rounds[r].revealed < rounds[r].committed
    BY <1>1, <1>3, <2>1 DEF PhaseMatchesCounters
  <2>3. Cardinality(Revealers(r)) < Cardinality(Committers(r))
    BY <1>1, <1>3, <2>2 DEF CountersMatchEntries
  <2>4. Revealers(r) # Committers(r)
    BY <2>3, EntrySetsAreFinite
  <2>5. Promise!Joined(r) \ Promise!HasOpened(r) # {}
    BY <2>4, EntrySetsAreFinite, SameSets
  <2>6. QED
    BY <1>5, <1>6, <1>7, <1>9, <2>5 DEF Promise!GiveUp
<1>10. QED
  BY <1>8, <1>9

LEMMA NextRefines ==
  ASSUME RInv, [Next]_vars
  PROVE  [Promise!Next]_<<stageBar, sealedBar, openedBar>>
<1>1. ASSUME UNCHANGED <<rounds, commitments>>
      PROVE  UNCHANGED <<stageBar, sealedBar, openedBar>>
  BY <1>1 DEF stageBar, sealedBar, openedBar
<1>2. ASSUME NEW p \in Participants, NEW r \in RoundIds, NEW b \in CommitmentBytes,
             MixCommit(p, r, b)
      PROVE  Promise!Next
  BY <1>2, MixCommitRefines DEF Promise!Next
<1>3. ASSUME NEW p \in Participants, NEW r \in RoundIds, NEW x \in Preimages,
             NEW s \in Signals, MixReveal(p, r, x, s)
      PROVE  Promise!Next
  BY <1>3, MixRevealRefines DEF Promise!Next
<1>4. ASSUME NEW h \in Hosts, NEW r \in RoundIds, NEW d \in Denominations,
             NEW c \in Capacities, NEW w \in CommitWindows, MixInit(h, r, d, c, w)
      PROVE  Promise!Next
  BY <1>4, MixInitRefines DEF Promise!Next
<1>5. ASSUME NEW h \in Hosts, NEW r \in RoundIds, MixSettle(h, r)
      PROVE  Promise!Next
  BY <1>5, MixSettleRefines DEF Promise!Next
<1>6. QED
  BY <1>1, <1>2, <1>3, <1>4, <1>5 DEF Next, MixNext, vars

\* The four instructions, under any config and any clock, do to a round only
\* what the commit-reveal promise allows.
THEOREM Refinement == Spec => KeepsThePromise
<1>1. Init => Promise!Init
  BY InitRefines
<1>2. RInv /\ [Next]_vars => [Promise!Next]_<<stageBar, sealedBar, openedBar>>
  BY NextRefines
<1>3. QED
  BY <1>1, <1>2, RInvariance, PTL DEF Spec, KeepsThePromise, Promise!Spec
=============================================================================
