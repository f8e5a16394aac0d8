------------------------- MODULE MixRoundRefinement -------------------------
(***************************************************************************)
(* MixRound keeps the promise of CommitReveal, and what it promises about  *)
(* time.  The clock, the counters, the pause and every knob of the config  *)
(* disappear in the refinement; the steps that only move them stutter.     *)
(***************************************************************************)
EXTENDS MixRound

\* Commit is the collecting stage; Reveal and Settling both open envelopes.
StageOf(round) ==
  IF round = NoAccount THEN "None"
  ELSE IF round.phase = "Commit" THEN "Collecting"
  ELSE IF round.phase \in {"Reveal", "Settling"} THEN "Opening"
  ELSE round.phase

SealedOf(entry) == IF entry = NoAccount THEN NoSignal ELSE entry.commitment
OpenedOf(entry) == IF entry = NoAccount THEN NoSignal ELSE entry.reveal_signal

stageBar == [r \in RoundIds |-> StageOf(rounds[r])]
sealedBar == [e \in RoundIds \X Participants |-> SealedOf(commitments[e])]
openedBar == [e \in RoundIds \X Participants |-> OpenedOf(commitments[e])]

FitsSignal(bytes, signal) == \E x \in Preimages : Digest(x, signal) = bytes

Promise == INSTANCE CommitReveal
  WITH Envelopes <- CommitmentBytes, Contents <- Signals, Fits <- FitsSignal,
       Nothing <- NoSignal, stage <- stageBar, sealed <- sealedBar, opened <- openedBar

\* MixRound implements CommitReveal.
KeepsThePromise == Promise!Spec

-----------------------------------------------------------------------------
(***************************************************************************)
(* Fairness: the clock advances, and the host of a round keeps sending     *)
(* mix_settle until it is accepted (the host's one duty).  Nobody has to   *)
(* commit, to reveal, to pause or to unpause.                              *)
(***************************************************************************)
ClockStep == Tick /\ UNCHANGED <<config, rounds, commitments>>

FairSpec ==
  /\ Spec
  /\ WF_vars(ClockStep)
  /\ \A h \in Hosts, r \in RoundIds : WF_vars(MixSettle(h, r))

InPhase(r, phases) == Opened(r) /\ rounds[r].phase \in phases

\* The admin ends up leaving the round alone: not paused, and a minimum that
\* the capacity of the round can meet.
AdminSettlesDown(r) == <>[](NotPaused /\ (Opened(r) => config.mix_min_participants <= rounds[r].capacity))

\* A full round whose reveal deadline the clock reaches is decided, Settled or
\* Aborted, whoever fails to reveal: the host alone can force the decision.
FullRoundsAreDecided ==
  \A r \in RoundIds :
    AdminSettlesDown(r) =>
      (InPhase(r, {"Reveal", "Settling"}) /\ rounds[r].reveal_close_at < MaxTime) ~> Terminal(r)

\* docs/coinjoin.md: "Commit --> Aborted: commit_close_at reached AND
\* committed < min", and its table of failures, "Commit phase closes with
\* committed < min: Round Aborted".  A round that is not full when its commit
\* window closes is decided too.
UnfilledRoundsAreDecided ==
  \A r \in RoundIds :
    AdminSettlesDown(r) =>
      (InPhase(r, {"Commit"}) /\ rounds[r].commit_close_at < MaxTime) ~> ~InPhase(r, {"Commit"})
=============================================================================
