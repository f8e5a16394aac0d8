------------------------------ MODULE MixRound ------------------------------
(***************************************************************************)
(* CoinJoin rounds of the ghos program: the MixRound and MixCommitment     *)
(* accounts and the four instructions mix_init, mix_commit, mix_reveal and *)
(* mix_settle, together with the config account they read.  Every          *)
(* instruction is one Solana transaction, so it is one atomic step; the    *)
(* order in which the cluster executes them is arbitrary.                  *)
(*                                                                         *)
(* A PDA that does not exist holds NoAccount.  A round is addressed by its *)
(* seeds (mint, round_id), abstracted to a member of RoundIds; a           *)
(* commitment by (round, participant).  The mint, bump and reserved fields *)
(* are never read back and are left out.                                   *)
(***************************************************************************)
EXTENDS GhosConfig, Clock, FiniteSets

CONSTANTS
  RoundIds,       \* (mint, round_id) seeds of mix rounds
  Hosts,          \* the keys that open rounds in a model
  Participants,   \* the keys that join them
  Capacities,     \* capacity arguments of mix_init
  Denominations,  \* denomination arguments of mix_init
  CommitWindows,  \* commit_window_seconds arguments of mix_init
  Preimages,      \* preimage arguments of mix_reveal
  Signals,        \* reveal_signal arguments of mix_reveal
  NoSignal,       \* the [0u8; 32] of an entry that is not revealed
  Opaque          \* commitment bytes that are the hash of nothing anyone knows

VARIABLES
  rounds,         \* the MixRound account of each seed
  commitments     \* the MixCommitment account of each (round, participant)

vars == <<now, config, rounds, commitments>>

Phases == {"Open", "Commit", "Reveal", "Settling", "Settled", "Aborted"}

\* hashv(&[&preimage, &reveal_signal]): free of collisions, since the signal
\* is the last 32 bytes of what is hashed.
Digest(preimage, signal) == <<preimage, signal>>

CommitmentBytes == (Preimages \X Signals) \cup {Opaque}

Round ==
  [ denomination : Nat, host : Hosts, capacity : Nat, committed : Nat,
    revealed : Nat, phase : Phases, opened_at : Time, commit_close_at : Time,
    reveal_close_at : Time, settled_at : Time ]

Commitment ==
  [ participant : Participants, commitment : CommitmentBytes, revealed : BOOLEAN,
    reveal_signal : Signals \cup {NoSignal}, index : Nat,
    committed_at : Time, revealed_at : Time ]

ASSUME MixAssumption ==
  /\ Hosts \subseteq Keys
  /\ Participants \subseteq Keys
  /\ IsFiniteSet(Participants)
  /\ Capacities \subseteq Nat
  /\ Denominations \subseteq Nat
  /\ CommitWindows \subseteq Int
  /\ NoSignal \notin Signals
  /\ NoSignal \notin CommitmentBytes
  /\ NoAccount \notin Round
  /\ NoAccount \notin Commitment

-----------------------------------------------------------------------------
Init ==
  /\ ClockInit
  /\ ConfigInit
  /\ rounds = [r \in RoundIds |-> NoAccount]
  /\ commitments = [e \in RoundIds \X Participants |-> NoAccount]

-----------------------------------------------------------------------------
\* The account mix_init writes.  It starts in Commit (Open is never stored) and
\* takes a snapshot of the reveal window.
NewRound(host, denomination, capacity, commit_window) ==
  LET close == SatAdd(now, commit_window) IN
  [ denomination    |-> denomination,
    host            |-> host,
    capacity        |-> capacity,
    committed       |-> 0,
    revealed        |-> 0,
    phase           |-> "Commit",
    opened_at       |-> now,
    commit_close_at |-> close,
    reveal_close_at |-> SatAdd(close, config.mix_reveal_window),
    settled_at      |-> 0 ]

\* mix_init: anyone opens a round at seeds that hold no account.
MixInit(host, r, denomination, capacity, commit_window) ==
  /\ NotPaused
  /\ rounds[r] = NoAccount
  /\ capacity \in MIX_MIN_PARTICIPANTS .. MIX_MAX_PARTICIPANTS
  /\ denomination > 0
  /\ commit_window > 0
  /\ rounds' = [rounds EXCEPT ![r] = NewRound(host, denomination, capacity, commit_window)]
  /\ UNCHANGED <<now, config, commitments>>

-----------------------------------------------------------------------------
\* `init` on the PDA of (round, participant): there is no entry there yet.
\* Fault: init_if_needed, which lets a participant commit again.
FreshEntry_IfNeeded(r, p) == TRUE

FreshEntry(r, p) == commitments[r, p] = NoAccount

\* The three checks mix_commit makes on the round.
\* Fault: the window alone is checked.
AcceptsCommit_WindowOnly(round) == now < round.commit_close_at

AcceptsCommit(round) ==
  /\ round.phase = "Commit"
  /\ now < round.commit_close_at
  /\ round.committed < round.capacity

\* Fault: the entry is filled in after the counter moved.
NewEntry_CountedFirst(p, round, bytes) ==
  [ participant   |-> p,
    commitment    |-> bytes,
    revealed      |-> FALSE,
    reveal_signal |-> NoSignal,
    index         |-> round.committed + 1,
    committed_at  |-> now,
    revealed_at   |-> 0 ]

NewEntry(p, round, bytes) ==
  [ participant   |-> p,
    commitment    |-> bytes,
    revealed      |-> FALSE,
    reveal_signal |-> NoSignal,
    index         |-> round.committed,
    committed_at  |-> now,
    revealed_at   |-> 0 ]

\* Fault: the phase is decided before the counter moved.
PhaseAfterCommit_Uncounted(round) ==
  IF round.committed = round.capacity THEN "Reveal" ELSE round.phase

\* Reveal starts when the round is full.  The second disjunct is in the code
\* and cannot hold after AcceptsCommit.
PhaseAfterCommit(round) ==
  IF \/ round.committed + 1 = round.capacity
     \/ now >= round.commit_close_at
  THEN "Reveal" ELSE round.phase

AfterCommit(round) ==
  [round EXCEPT !.committed = @ + 1, !.phase = PhaseAfterCommit(round)]

\* mix_commit: the first and only entry of this participant in this round.
MixCommit(p, r, bytes) ==
  /\ NotPaused
  /\ rounds[r] # NoAccount
  /\ FreshEntry(r, p)
  /\ AcceptsCommit(rounds[r])
  /\ commitments' = [commitments EXCEPT ![<<r, p>>] = NewEntry(p, rounds[r], bytes)]
  /\ rounds' = [rounds EXCEPT ![r] = AfterCommit(rounds[r])]
  /\ UNCHANGED <<now, config>>

-----------------------------------------------------------------------------
\* Fault: the window is not checked.
AcceptsReveal_AnyTime(round) == round.phase = "Reveal"

AcceptsReveal(round) ==
  /\ round.phase = "Reveal"
  /\ now <= round.reveal_close_at

\* Settling starts with the last reveal.
PhaseAfterReveal(round) ==
  IF round.revealed + 1 = round.committed THEN "Settling" ELSE round.phase

AfterReveal(round) ==
  [round EXCEPT !.revealed = @ + 1, !.phase = PhaseAfterReveal(round)]

\* The checks mix_reveal makes on the entry.
\* Fault: an entry can be revealed again.
Opens_Again(entry, preimage, signal) == Digest(preimage, signal) = entry.commitment

Opens(entry, preimage, signal) ==
  /\ ~entry.revealed
  /\ Digest(preimage, signal) = entry.commitment

RevealedEntry(entry, signal) ==
  [entry EXCEPT !.revealed = TRUE, !.reveal_signal = signal, !.revealed_at = now]

\* mix_reveal: a participant opens its own entry.
MixReveal(p, r, preimage, signal) ==
  /\ NotPaused
  /\ rounds[r] # NoAccount
  /\ commitments[r, p] # NoAccount
  /\ AcceptsReveal(rounds[r])
  /\ commitments[r, p].participant = p
  /\ Opens(commitments[r, p], preimage, signal)
  /\ commitments' = [commitments EXCEPT ![<<r, p>>] = RevealedEntry(@, signal)]
  /\ rounds' = [rounds EXCEPT ![r] = AfterReveal(rounds[r])]
  /\ UNCHANGED <<now, config>>

-----------------------------------------------------------------------------
\* Fault: participants are counted when they commit.
HasQuorum_Committed(round) == round.committed >= config.mix_min_participants

\* Compared with the minimum the config holds now, not when the round opened.
HasQuorum(round) == round.revealed >= config.mix_min_participants

RevealWindowLapsed(round) == now > round.reveal_close_at

\* Fault: a Reveal round is decided without waiting for its window.
Decides_NoWait(round, outcome) ==
  /\ round.phase \in {"Settling", "Reveal"}
  /\ outcome = IF HasQuorum(round) THEN "Settled" ELSE "Aborted"

\* Fault: every phase after Commit is decided once the window is over.
Decides_AnyPhase(round, outcome) ==
  /\ round.phase # "Commit"
  /\ RevealWindowLapsed(round)
  /\ outcome = IF HasQuorum(round) THEN "Settled" ELSE "Aborted"

\* Fault: a round below the quorum is refused in both arms.
Decides_NoAbort(round, outcome) ==
  /\ round.phase = "Settling" \/ (round.phase = "Reveal" /\ RevealWindowLapsed(round))
  /\ HasQuorum(round)
  /\ outcome = "Settled"

\* The two arms of mix_settle; every other phase is an error.
Decides(round, outcome) ==
  \/ /\ round.phase = "Settling"
     /\ HasQuorum(round)
     /\ outcome = "Settled"
  \/ /\ round.phase = "Reveal"
     /\ RevealWindowLapsed(round)
     /\ outcome = IF HasQuorum(round) THEN "Settled" ELSE "Aborted"

Decided(round, outcome) == [round EXCEPT !.phase = outcome, !.settled_at = now]

\* mix_settle, by the host alone (has_one = host).
MixSettle(host, r) ==
  /\ NotPaused
  /\ rounds[r] # NoAccount
  /\ rounds[r].host = host
  /\ \E outcome \in {"Settled", "Aborted"} :
       /\ Decides(rounds[r], outcome)
       /\ rounds' = [rounds EXCEPT ![r] = Decided(rounds[r], outcome)]
  /\ UNCHANGED <<now, config, commitments>>

-----------------------------------------------------------------------------
MixNext ==
  \/ \E h \in Hosts, r \in RoundIds, d \in Denominations, c \in Capacities,
        w \in CommitWindows : MixInit(h, r, d, c, w)
  \/ \E p \in Participants, r \in RoundIds, b \in CommitmentBytes :
        MixCommit(p, r, b)
  \/ \E p \in Participants, r \in RoundIds, x \in Preimages, s \in Signals :
        MixReveal(p, r, x, s)
  \/ \E h \in Hosts, r \in RoundIds : MixSettle(h, r)

Next ==
  \/ MixNext
  \/ ConfigNext /\ UNCHANGED <<now, rounds, commitments>>
  \/ Tick /\ UNCHANGED <<config, rounds, commitments>>

Spec == Init /\ [][Next]_vars

-----------------------------------------------------------------------------
\* State functions the properties share.

Opened(r) == rounds[r] # NoAccount
Committers(r) == {p \in Participants : commitments[r, p] # NoAccount}
Revealers(r) == {p \in Committers(r) : commitments[r, p].revealed}
Terminal(r) == Opened(r) /\ rounds[r].phase \in {"Settled", "Aborted"}

-----------------------------------------------------------------------------
\* Type invariant of the accounts.
TypeOK ==
  /\ now \in Time
  /\ ConfigTypeOK
  /\ rounds \in [RoundIds -> Round \cup {NoAccount}]
  /\ commitments \in [RoundIds \X Participants -> Commitment \cup {NoAccount}]

\* The two counters of a round are the number of its MixCommitment accounts and
\* the number of them that are revealed: mix_commit and mix_reveal keep a
\* counter in one account and the facts it counts in others.
CountersMatchEntries ==
  \A r \in RoundIds :
    /\ ~Opened(r) => Committers(r) = {}
    /\ Opened(r) => /\ rounds[r].committed = Cardinality(Committers(r))
                    /\ rounds[r].revealed = Cardinality(Revealers(r))

\* The indices mix_commit hands out number the participants of a round
\* 0 .. committed - 1, each once: the position of an output in the settlement.
IndicesNumberTheEntries ==
  \A r \in RoundIds :
    Opened(r) =>
      /\ {commitments[r, p].index : p \in Committers(r)} = 0 .. rounds[r].committed - 1
      /\ \A p, q \in Committers(r) :
           commitments[r, p].index = commitments[r, q].index => p = q

\* The stored phase says how far commits and reveals have come: nobody has
\* revealed while a slot is open, Reveal lasts while somebody has not revealed,
\* and Settling means everybody has (mix_commit and mix_reveal move the phase
\* as a side effect of the last commit and the last reveal).
PhaseMatchesCounters ==
  \A r \in RoundIds :
    Opened(r) =>
      LET round == rounds[r] IN
      /\ round.phase = "Commit" => round.revealed = 0 /\ round.committed < round.capacity
      /\ round.phase # "Commit" => round.committed = round.capacity
      /\ round.phase \in {"Reveal", "Aborted"} => round.revealed < round.committed
      /\ round.phase = "Settling" => round.revealed = round.committed

\* No participant sees another's opening before its own commitment is fixed:
\* every commitment of a round is older than every reveal, and every reveal is
\* inside the window.
RevealsFollowCommits ==
  \A r \in RoundIds : \A p \in Revealers(r) :
    /\ commitments[r, p].revealed_at <= rounds[r].reveal_close_at
    /\ \A q \in Committers(r) :
         /\ commitments[r, q].committed_at < rounds[r].commit_close_at
         /\ commitments[r, q].committed_at <= commitments[r, p].revealed_at

\* mix_settle never throws away a round everybody revealed in, and closes a
\* round with reveals missing only after the window: the timeout does not race
\* the last reveal.
ClosedEarlyOnlyWhenComplete ==
  \A r \in RoundIds :
    Terminal(r) =>
      \/ rounds[r].phase = "Settled" /\ Revealers(r) = Committers(r)
      \/ rounds[r].settled_at > rounds[r].reveal_close_at

\* Whatever the admin did to the minimum while the round was running, a settled
\* round has two revealers at least.  That is all config_update leaves of the
\* minimum (config_update.rs:74); a round opened under the compiled one may
\* settle below it.
SettledRoundsMixSomething ==
  \A r \in RoundIds :
    Opened(r) /\ rounds[r].phase = "Settled" => Cardinality(Revealers(r)) >= 2

\* docs/faq.md: "4 by default, set by `MIX_MIN_PARTICIPANTS`. Any round with
\* fewer than 4 revealers aborts".
RoundsBelowTheMinimumAbort ==
  \A r \in RoundIds :
    Opened(r) /\ rounds[r].phase = "Settled" =>
      Cardinality(Revealers(r)) >= MIX_MIN_PARTICIPANTS

\* What a participant signed cannot be changed or taken back, by anybody, in
\* any phase: its entry stays, only the reveal fills it in, once.
EntriesAreWriteOnce ==
  [][\A e \in RoundIds \X Participants :
       commitments[e] # NoAccount =>
         /\ commitments'[e] # NoAccount
         /\ \A f \in {"participant", "commitment", "index", "committed_at"} :
              commitments'[e][f] = commitments[e][f]
         /\ commitments[e].revealed => commitments'[e] = commitments[e]]_vars

\* Once mix_settle has decided, nothing of the round moves again: no late
\* commit, no late reveal, no second decision.
TerminalRoundsAreFrozen ==
  [][\A r \in RoundIds :
       Terminal(r) =>
         /\ rounds'[r] = rounds[r]
         /\ \A p \in Participants : commitments'[r, p] = commitments[r, p]]_vars

\* Who is in the mix is fixed before the first opening is public: once an entry
\* of a round is revealed, nobody joins the round.
NobodyJoinsAfterAReveal ==
  [][\A r \in RoundIds : Revealers(r) # {} => Committers(r)' = Committers(r)]_vars
=============================================================================
