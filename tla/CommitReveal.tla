---------------------------- MODULE CommitReveal ----------------------------
(***************************************************************************)
(* What a mix round promises to the people who join it, with no clock, no  *)
(* counters, no accounts and no admin: a sealed-bid style exchange.        *)
(*                                                                         *)
(*   - while a round collects, whoever wants to seals one envelope;        *)
(*   - once it opens envelopes it takes no more of them, and an envelope   *)
(*     can be opened only to what was sealed in it;                        *)
(*   - it is settled only over two opened envelopes at least, and given up *)
(*     only if somebody did not open.                                      *)
(***************************************************************************)
EXTENDS Naturals, FiniteSets

CONSTANTS
  RoundIds, Participants,
  Envelopes,        \* what can be sealed
  Contents,         \* what an envelope can be opened to
  Fits(_, _),       \* Fits(e, c): envelope e was made for content c
  Nothing           \* no envelope, no content

VARIABLES
  stage,            \* of each round
  sealed,           \* the envelope of each (round, participant), or Nothing
  opened            \* the content it was opened to, or Nothing

Joined(r) == {p \in Participants : sealed[r, p] # Nothing}
HasOpened(r) == {p \in Participants : opened[r, p] # Nothing}

Init ==
  /\ stage = [r \in RoundIds |-> "None"]
  /\ sealed = [e \in RoundIds \X Participants |-> Nothing]
  /\ opened = [e \in RoundIds \X Participants |-> Nothing]

Announce(r) ==
  /\ stage[r] = "None"
  /\ stage' = [stage EXCEPT ![r] = "Collecting"]
  /\ UNCHANGED <<sealed, opened>>

Seal(r, p, e) ==
  /\ stage[r] = "Collecting"
  /\ sealed[r, p] = Nothing
  /\ sealed' = [sealed EXCEPT ![<<r, p>>] = e]
  /\ \/ stage' = stage
     \/ stage' = [stage EXCEPT ![r] = "Opening"]
  /\ UNCHANGED opened

OpenEnvelope(r, p, c) ==
  /\ stage[r] = "Opening"
  /\ sealed[r, p] # Nothing
  /\ opened[r, p] = Nothing
  /\ Fits(sealed[r, p], c)
  /\ opened' = [opened EXCEPT ![<<r, p>>] = c]
  /\ UNCHANGED <<stage, sealed>>

Settle(r) ==
  /\ stage[r] = "Opening"
  /\ \E p, q \in HasOpened(r) : p # q
  /\ stage' = [stage EXCEPT ![r] = "Settled"]
  /\ UNCHANGED <<sealed, opened>>

GiveUp(r) ==
  /\ stage[r] = "Opening"
  /\ Joined(r) \ HasOpened(r) # {}
  /\ stage' = [stage EXCEPT ![r] = "Aborted"]
  /\ UNCHANGED <<sealed, opened>>

Next ==
  \E r \in RoundIds :
    \/ Announce(r)
    \/ \E p \in Participants, e \in Envelopes : Seal(r, p, e)
    \/ \E p \in Participants, c \in Contents : OpenEnvelope(r, p, c)
    \/ Settle(r)
    \/ GiveUp(r)

Spec == Init /\ [][Next]_<<stage, sealed, opened>>
=============================================================================
