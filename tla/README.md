# ghos in TLA+

ghos is a Solana program (`programs/ghos`, Rust/Anchor) with a TypeScript SDK
(`sdk`) and a Python CLI (`cli`): confidential Token-2022 balances, burner
keys, a per-mint auditor key, and CoinJoin rounds by commit and reveal. This
directory specifies what the program does, checks it with TLC on small
instances and proves the results that matter for every instance with TLAPS.

## 1. The system

### Components

| component | state it keeps | operations | what is hard | what makes it correct |
| --- | --- | --- | --- | --- |
| protocol config (`initialize.rs`, `config_update.rs`) | one `GhosConfig` account: admin, pause, nine knobs | initialize, config_update | knobs change under handlers that run for days; the admin role moves | knobs stay usable in every order of updates |
| mix rounds (`mix_*.rs`) | a `MixRound` per (mint, round id), a `MixCommitment` per (round, participant) | mix_init, mix_commit, mix_reveal, mix_settle | many signers in any order, two deadlines, participants that vanish, one host | nobody joins after an opening; counters equal entries; the deadline never races the last reveal; a settled round mixes two at least; a full round is decided |
| auditor registry (`auditor_*.rs`) | an `AuditorEntry` per mint, its events | auditor_register, auditor_rotate | cooldown, handover of the admin role | keys are replaced a cooldown apart; the events tell which key held when |
| burner registry (`create_burner.rs`, `destroy_burner.rs`) | a `BurnerAccount` per (owner, nonce), its events | create_burner, destroy_burner | expiry against closing, the same nonce again | an entry's life is bounded and never lengthened; events and entries agree |
| proof contexts (`utils/zk.rs`) | accounts of the zk-token-proof program | verify_and_store | one context submitted twice, one proof in several contexts | each context backs one change |
| confidential balances (`shield.rs`, `apply_pending.rs`, `confidential_transfer.rs`, `withdraw.rs`, `utils/token22.rs`) | none of its own; Token-2022 keeps available and pending balance, credit counters and the decryptable balance of an account | shield, apply_pending, confidential_transfer, withdraw | an instruction is computed from an account that has changed by the time it lands | no debit leaves less than zero; a stale decryptable balance is noticed; what is shielded stays aligned; credits are applied in the end |
| SDK client (`client.ts`, `instructions/*`, `pdas.ts`) | the wallet and the options it was built with | one method per instruction, the encoders and derivations under them | fourteen hand-written encoders, each with its own behaviour out of range; each method decides who signs | the IDL reads what the caller asked for; whoever has to sign does; an address stands for one thing |
| SDK submission (`client.ts`, `utils.ts`, `errors.ts`) | none across calls; attempts, address and last error of a call | sendIx, sendAndConfirmWithRetry, retry, the classification of errors | lost answers, transactions signed again, errors told by their text | a creating call lands once; a confirmed call is final; every call returns |
| SDK watcher (`watcher.ts`, `examples/watcher_bot.ts`) | its subscriptions; the bot's counters | subscribe, subscribeAll, unsubscribe, the callback over the lines of a transaction; the bot's loop | handlers that throw or take long, connections that miss transactions, events that do not decode | handlers are called in log order; only a consumer's own faults cost it events; the bot stops at its limit |
| SDK cryptography (`crypto/*.ts`) | the generator H and the generator vectors, cached in the modules | encrypt, add, sub, scale, rerandomize, decrypt; three sigma proofs; the range proof | loop bounds, zeros, odd lengths, a generator replaced between two calls | what is decrypted is what was put in; honest proofs verify; two answers give the secret; folding loses nothing |
| CLI mix commands (`commands/mix.py`, `client.py`) | one file of reveal material per round and participant | join, status, settle | repeated, concurrent and interrupted runs; a confirmation that is not seen; a file that is emptied before it is filled | a whole file holds the salt committed on chain; a run that succeeded has its salt in the file |
| deployment (`migrations/deploy.ts`) | none; the config account decides | look, create, look again, report | several operators, runs that give up while their transaction may still land, transactions that are dropped with a fork | of the runs that wait for `confirmed` one claims to have created the config, and it did |
| remaining CLI, scripts, examples | a config file | one transaction, or a loop of them | parsing | – |

The handlers meet in three places: every one reads the **config** account (its
pause, its admin, its knobs), every deadline is compared with the one **clock**
of the cluster, and the registries and the balances write **proof context**
accounts that the clients create. Within the program there is no concurrency:
a Solana transaction is atomic and its handler runs alone on the accounts it
writes. The interleavings are those of transactions, sent by people who do not
know of each other. A handler that returns an error changes nothing, so a
refused transaction is no step of the models of the program.

The **clients** meet the program only through the cluster, and there a
transaction has a life of its own: it may be executed though its sender got an
error, or vanish with a fork after its sender saw it. An owner, too, computes
ciphertexts and proofs from an account she read, and others write to that
account before her instruction lands. The **watcher** sees what the program did
only as lines of text, transaction by transaction, through a connection that may
miss some.

### What is hard to test

`PROJECT.json` lists the hazards with the lines where they bite. The ones the
properties were written for: the phase of a round moves as a side effect of the
last commit and the last reveal; the counters are in one account and what they
count in others; both reveal and settlement compare with the same deadline;
the minimum is read when a round is settled and not when it opened, and may be lower by then than what people joined for; the commitment is computed in Python and checked in Rust; the cooldown
lives in an entry whose admin is not the config's any more; an error that carries
the wrong three digits is retried; the callback over the lines of a transaction
shares one loop with handlers it does not know; bytes are written by one piece of
code and read by another, in another language; arithmetic modulo a prime has
values, zero above all, on which the library throws.

## 2. Modules

    Clock            now, saturating deadlines, Tick
    GhosConfig       the config account, initialize, config_update (every knob)
      MixRound           EXTENDS GhosConfig, Clock: mix_init .. mix_settle
        MixRoundRefinement     INSTANCE CommitReveal, fairness, liveness
          MixRound_proofs
      AuditorRegistry    EXTENDS GhosConfig, Clock, ProofContexts
      BurnerRegistry     EXTENDS GhosConfig, Clock, ProofContexts
        Registries         both on one cluster
          Registries_proofs
      ConfidentialLedger EXTENDS GhosConfig: shield, apply_pending, transfer, withdraw
        LedgerRefinement       INSTANCE ShieldedAccounts
          ConfidentialLedger_proofs
      GhosConfig_proofs  lemmas about config_update, used by the proofs above
    CommitReveal     abstract: what a round promises, with no clock, no counter, no admin
    ShieldedAccounts abstract: what balances promise, with no ciphertext, proof or counter
    ProofContexts    the accounts utils/zk.rs has written
    Cluster          external: signed transactions, executed, refused, dropped, expired
      SdkSubmission      EXTENDS Cluster: a call of GhosClient with its retries
      CliJoin            EXTENDS Cluster: a run of `ghos mix join` with its file
        Clients            both on one cluster, fairness, liveness
    Watcher          subscriptions and their callbacks over a log of transactions
      Clients_proofs     about Clients and Watcher
      WatcherBot         EXTENDS Watcher: the example bot on the same log
    Wire             encoders, derived addresses, and how the IDL reads the bytes
      GhosClient         EXTENDS Wire: the methods up to the transaction they hand over
    Deploy           migrations/deploy.ts, several operators side by side
      Calls_proofs       about GhosClient and Deploy
    Ristretto        external: the group, and the scalars' arithmetic
      TwistedElGamal     the cipher and the life of one ciphertext
      SigmaProofs        the equality, pubkey and zero proofs
      RangeProof         the range prover, its folding, and what verify looks at
        Wallet_proofs      about the three
    Foundations_proofs   induction and recursion over data, remainders; used by the proofs
    MCMixRound, MCMixLive, MCRegistries, MCLedger, MCClients, MCSdk
                     values of the constants for TLC

A variable is the content of a family of accounts, a function from the seeds of
the PDA to the record or to `NoAccount`. `init` in an Anchor constraint is the
guard that the PDA holds `NoAccount`, `close` writes it back, `has_one` and
`seeds` are guards. An action is one instruction: constraints and `require!`s
are its conjuncts, assignments to account fields its primed variables. Fields
no handler reads back (bumps, reserved bytes, mints, `last_updated`) are left
out; so is `usage_count`, which no handler writes after creation.

Data are abstracted to what the guards distinguish. A commitment is the pair
(preimage, signal) that hashes to it, or `Opaque`, bytes nobody knows a preimage
of: the signal is the last 32 bytes of what is hashed, so two different pairs
have different hashes. A proof is valid or
there is no step; its bytes and the context account it is written to are two inputs of
an instruction, and a proof may be shown again with another context. Timestamps are
integers up to `I64Max`, and deadlines are built with `SatAdd`, as in the code.

In `ConfidentialLedger` a ciphertext is the amount it encrypts and Token-2022
does what its use in `utils/token22.rs` asks of it: a deposit adds to the pending
balance and its counter, an apply moves all that is pending and records the
expected counter beside the actual one, a debit needs proofs for the ciphertext
it finds. `read` is what the owner's client last read; an instruction is built
from it and may land after any number of others. `late` in an account and `latest` in a
reading are history, for the one property that needs to tell whose instruction came in
between.

In `Cluster` a call signs copies, one for each attempt, and a copy is `pending`,
`processed` (and back, when its fork is dropped), `executed`, `rejected` or
`expired`; one that never reached a node has expired from the start. A copy that
creates an account names it, and is not executed when the account exists. A client
sees the fate of its last copy or an error, and an error is told apart as the
code does, by words in its text: `Throw` lets the texts that quote a signature or
a log contain the digits the predicate looks for.

In `CliJoin` the salt of a commitment, with the key and the note hashed beside it, is
named by the run that drew it. `CommitHash` is what `commit_hash` of the CLI makes of
it and `RevealHash` what `mix_reveal` makes of the bytes it is shown: two digests
are equal when the functions and their inputs are. The file is emptied (`OpenFile`) and
filled (`WriteFile`) in two steps, and is `Torn` in between.

In `Deploy` the transaction of a run is `processed` on a fork, which may be dropped,
before it has `landed`, and may come to nothing in several ways; `waits` is the
commitment its provider waits for. `rpc()` returns at that commitment, and
`confirmTransaction` returns when the transaction has landed or has failed: the
script does not look which.

In `Watcher` a transaction is the sequence of what its lines start with: the name of
an event of the program or something else. A callback is one step, since
JavaScript lets nothing else run before it ends; a handler of a consumer returns a
promise, about which nothing more need be said because its rejection is swallowed,
or throws at once. The types of the events' fields are those of the IDL, because
whether an event decodes depends on them.

In `Wire` a number is written in digits of `Radix` values, so that overflow, the
lost sign and the two's complement come from the arithmetic of the code and not from
an assumption; a key, a hash or half a ciphertext is one cell. An address is what it
is derived from, the seeds one after another without a mark between them, as they are
hashed: two derivations agree when the joined seeds do.

In `Ristretto` the group is the integers modulo a prime, a point being its discrete
logarithm, which makes every equation of the sigma proofs and of the cipher the one
of the code. What a hash returns is chosen at will, so that what holds, holds for
every hash. The library throws when it multiplies by zero, which guards every multiplication
that the code does not guard itself.

Definitions with a suffix and the comment "Fault" (`FreshEntry_IfNeeded`,
`SatAdd_Plain`, ...) are what the definition after them would be with a plausible
bug. No specification uses them; substituted for the right one they break the
property they are listed with in `PROJECT.json`, which shows that the property
is sensitive to that code.

## 3. What TLC checks

| run | specification | instance | shows |
| --- | --- | --- | --- |
| `mix_safety` | `MixRound!Spec` | 1 round, 4 participants (symmetric), compiled minimum and maximum 3, capacities 2 and 4 (refused) and 3, clock 0..5 = `I64Max` so that deadlines saturate, pauses, a minimum lowered to 2 and raised again, every knob with an accepted and a refused value | all safety and action properties of the rounds, and the knobs |
| `mix_quorum` | `MixRound!Spec` | the same | **violated**: a round settles with fewer revealers than the documented minimum |
| `mix_live` | `FairSpec` | 1 round, 2 participants, 2 signals, clock 0..4, pauses, minimum up and down | the refinement of `CommitReveal`; `FullRoundsAreDecided` |
| `mix_unfilled` | `FairSpec` | the same without config updates | **violated**: an unfilled round stays in Commit |
| `registries` | `Registries!Spec` | 2 admins that hand over to each other, 1 mint, 2 keys, cooldowns -1, 1, 2, 1 owner, 2 nonces, 3 contexts, one proof of each kind, shown with every context, clock 0..3 = `I64Max` | events tell the history of keys and of burners, rotations are spaced, lifetimes only run down, one context backs one change |
| `auditor_handover` | `Registries!Spec` | the same | **violated**: nobody can rotate after a handover |
| `clients` | `MCClients!MCSpec` | one kind of client in each behaviour. Submission: 1 SDK call, creating or not, and 2 runs of `mix join`, 1 account, 1 retry, 2 polls. Subscription: a subscriber of everything and one of the commits. Bot: a limit of 2, without a filter and with one that hides frames. Both over 2 transactions of up to 2 lines with events that decode, one that does not, and other text | what is reported done is done, what is created is created once, the file and the chain agree, everything returns; handlers are called in log order; only a consumer's own faults cost it events; the bot stops |
| `join_reveals` | `MCClients!MCSpec` | the same | **violated**: what a successful join stored does not open its commitment |
| `watch_withdraw` | `MCClients!MCSpec` | the same | **violated**: a withdrawal's event reaches nobody |
| `ledger` | `ConfidentialLedger!FairSpec` | 2 owners with 4 and 0, unit 2, amounts 1, 2, 3, 2 credits at most, pauses | the refinement of `ShieldedAccounts`; staleness is noticed, what is shielded is aligned, credits are applied |
| `sdk` | `MCSdk!Spec` | one part in each behaviour. Cipher, proofs, range proof: a group of order 7, hashes of 6 bits, vectors of up to 4 entries and one length too many, every window of the discrete logarithm. Client: every pair of calls of 2 wallets, arguments at the ends of their types and past them, `Radix` 8. Deployment: 2 operators with 2 runs each (symmetric), both providers, both versions | `DecryptsToThePlaintext`, `HonestProofsAreAccepted`, `TwoAnswersGiveTheWitness`, `FoldingKeepsTheProduct`, `VerifyTakesSinglePowersOfTwo`; the bytes say what was asked; the right wallets sign; addresses tell calls apart; claims of runs that wait are true |
| `round_seeds` | `MCSdk!Spec` | the same | **violated**: SDK and program derive the account of a round from different seeds |

*Parts.* `MCClients` and `MCSdk` each hold several components that write no variable in common
(the subscriptions and the bot only read the log of transactions); `subject` says which of them a behaviour is about, so that their interleavings, which tell
nothing, are not enumerated.

*Bounds.* The compiled limits are scaled: capacities 4..16 become 2 or 3, the
reveal window of 600 s one tick, burner lifetimes of 60 s..30 d one and two
ticks. What the properties distinguish is whether a bound is met, missed by one
or not reached, and each happens: a capacity above the maximum is submitted and
refused; four participants are enough for one to come when the round is full, for one to
be late while two have revealed, and for a quorum with a reveal missing (capacity 3, the minimum lowered from 3 to 2
after they have joined); the
clock passes both deadlines of a round opened at 0 or 1 and ends before those of
a later one, so both sides of every comparison occur. One round is enough for
the per-round properties because no action reads another round; the proofs have
no such bound. Three contexts let a key be installed three times, or twice with
a burner closed in between. One retry and two polls give every call a first,
a repeated and a last attempt, and every run a poll that is not the last; two
runs of `mix join` and a call of the SDK that may name the same account are the
least that can overwrite, and refuse, each other. A supply of two units and the
amounts around one unit give a shield that is refused for its remainder, a transfer that
leaves one and transfers in both directions; two credits fill the counter. The
wrong decryptable balance needs a credit, or a debit, between a reading and its
apply, and each happens. A transaction of two lines is the shortest in which a
handler that throws can cost a later event of the same transaction, and two transactions
the fewest in which it could cost one of the next; two lines also let the bot pass its
limit in the middle of a transaction. In the group of seven every discrete
logarithm within and beyond each window is searched, and a hash of 6 bits leaves,
like one of 256 over the order of Ristretto255, values that reduce to zero. Vectors of
1, 2 and 4 entries fold without a remainder, those of 3 with one, and 5 is
beyond the generators. `Radix` 8 keeps the eight bytes of the code, and `SafeNumber`
8^6 lies below the largest eight-byte number as 2^53 does below 2^64. Two calls are
enough to compare what any two calls answer with; two operators let one win and
one lose a race, and two runs of each let a transaction of the first land, or be
dropped, during the second. `CHECK_DEADLOCK FALSE` everywhere: the clock of a model stops at `MaxTime`, a log, a history of calls or of
one ciphertext ends at its bound, and everything may have been done by then.

*Fairness* (`FairSpec`): the clock advances (`WF` on the tick), and the host of
a round keeps sending `mix_settle` until it is accepted (`WF` on `MixSettle` per
host and round). The first is what a cluster does; the second is the only thing
the program asks of anybody, and `has_one = host` lets nobody else do it. No
participant has to commit or reveal and no admin has to unpause, so these have no fairness; instead `FullRoundsAreDecided` has the
premise `AdminSettlesDown`, that the admin finally leaves the protocol unpaused
with a minimum the round's capacity can meet. Without it the property is false: a
Settling round whose minimum was raised is refused for good.

`Clients!FairSpec`, which `MCClients!MCSpec` repeats, assumes of the clients that an await ends, in a value or an
error (both HTTP clients give up after a time), and that a timer fires: `WF` on the
steps of each call and of each run. It assumes nothing of the cluster, which may
leave a transaction pending for ever, nor that a run of the CLI is not
interrupted. In `ConfidentialLedger!FairSpec` an owner keeps reading her account
and applying what she read (`WF` on `Read` and `ApplyPending`); nobody else has
to do anything. `CreditsAreApplied` has the premise that the protocol stays
unpaused in the end. It needs no fairness stronger than that because an apply is
not refused for credits that arrived late: it takes them along. `WatcherBot!BotSpec` has
`WF` on the one step that a timer makes, the bot's waking up; neither the log nor the
connection has to do anything.

*Violations.* Each states a sentence of the repository that the code does not
keep; `PROJECT.json` quotes the sentences with their lines. They are statements
about documentation and code disagreeing, and the passing runs describe what the
code does instead.

## 4. What is proved

`tlapm` checks eight modules, for every value of the constants that satisfies the named
assumptions. Every invariant, action property and refinement that a passing run checks
is stated by a theorem; the last paragraph says what is not.

**Rounds.** `MixRound_proofs`, from `ConfigAssumption`, `ClockAssumption` and
`MixAssumption`, which say of the constants only that they have their types, that `NoAccount` is no account, that
the set of participants is finite, and that the compiled minimum is 2 at least
and not above the maximum (it is 4, and 16).

1. `TypeCorrect`, `KnobsCorrect`: `TypeInv == TypeOK /\ KnobsInRange` is
   inductive. `KnobsInRange` is needed for the type of a deadline (a reveal
   window that is negative would break it) and for the quorum.
2. Every step leaves a given round alone or does one of four things to it
   (`RoundStep`, lemma `EveryStepIsARoundStep`): opens it, adds one committer,
   adds one revealer, decides it. The lemma goes through the actions once; after
   it the invariants are proved by these five cases, with sets of participants
   instead of accounts.
3. `IInv == TypeInv /\ CountersMatchEntries /\ PhaseMatchesCounters /\
   DecisionInv` is inductive. The counters alone are (`CountersStep`). The phase
   needs them not at all but its own strengthening, `DecisionInv`, which keeps what was
   true when a round was decided: a settled one had two reveals, one closed
   with reveals missing is past its deadline.
4. From `IInv`: `CountersCorrect`, `PhaseCorrect`, `SettledRoundsCorrect`,
   `ClosingCorrect` (equal cardinalities of a finite set and its subset make
   them equal) and the action property `JoiningStopsAtTheFirstReveal` (a reveal
   means the phase is not Commit).
5. `EntriesCorrect` and `DecidedRoundsStay` are action properties from `TypeOK`
   alone, by cases on the step (`EveryStepIsAnEntryStep`).
6. `HistoryInvariance`: `HistoryInv` adds the numbering and the dates of the entries.
   Its strengthening is `CommitsAreInTime`, that every entry was made inside the commit
   window whether or not anybody has revealed yet: `RevealsFollowCommits` speaks only
   of rounds with a reveal, too late to be inductive. From it `IndicesCorrect` and
   `OrderCorrect`.
7. `Refinement`: under the mapping of `MixRoundRefinement` the initial states
   map to initial states and every step to a step of `CommitReveal` or a stutter;
   `RInvariance` adds to `IInv` what the mapping needs, that an entry has an
   opening exactly when it is revealed.

**Balances.** `ConfidentialLedger_proofs`, from `ConfigAssumption` and
`LedgerAssumption` (constants have their types, an account takes one credit at
least):

1. Every step does one of five things to an account: its owner reads it, it is
   credited, debited or applied, or left alone (`EveryStepIsAnAccountStep`).
2. `TypeCorrect`: a debit is proved for the balance it finds, so it leaves a
   natural number; a credit needs room in the counter.
3. `StaleBalancesAreNoticed` is not inductive as it stands. `ReadingsAgree` says
   what a reading is worth: as long as no instruction of the owner's own has landed,
   the available balance is still the one she read, and the counter tells whether
   the pending one is. Then an apply with an agreeing counter is computed from
   what it finds, or it is late.

4. `Refinement`: openBar is what is public and hiddenBar what
   is pending and available together, so that an apply stutters; a deposit hides whole
   units, a withdrawal shows them, a transfer of something to somebody else pays, and a transfer of
   nothing, or to oneself, stutters. That the payer has what she pays is the guard of the proof: it
   verifies against the balance it finds only.
5. `SupplyIsAligned` and `Conservation`: the total of the accounts is a fold over the
   owners. What it computes is shown by induction on finite sets (`TotalUnfolds`);
   after that a payment between two owners leaves it alone, and a shield or a
   withdrawal moves it by what the counters of the totals move.

**Registries.** `Registries_proofs`, from `ConfigAssumption`, `ClockAssumption`,
`AuditorAssumption` and `BurnerAssumption`, for any number of mints, owners, nonces and keys:

1. `AuditorInv` (types, `LogTellsTheKeyHistory`, `RotationsAreSpaced`) is inductive: both
   speak of the last event and the entry together, so each is what the other needs.
2. `BurnerInv` needs two strengthenings: `EntriesAreDated`, that no entry is from the
   future and none was given more than the compiled lifetime, and `EntriesAreFinite`,
   without which the cardinalities of `LogCountsTheLiveEntries` mean nothing, for
   the set of nonces need not be finite.
3. `InductiveInvariant` puts them together; from it `HistoryCorrect`, `SpacingCorrect`,
   `CountCorrect`, `AgeCorrect` and the action property `LifetimesCorrect`.
4. `ContextsAreSpentOnce`: the set of contexts of a kind that were written and the set of the
   changes of that kind are finite and have one cardinality; a step adds one to both or
   to neither (`StepSpends`). Nothing is assumed of the proofs, one of which may be in
   every context.

**Clients.** `Clients_proofs`, from the assumptions of `Cluster`, `SdkSubmission`,
`CliJoin`, `Clients` and `Watcher` (SDK calls and runs are different calls, `NoFile` and
`NoTarget` are none, a run polls once at least), for any number of calls, runs,
accounts, retries and polls:

1. A step signs one copy or changes the fate of one that is not final. No copy goes
   away or changes its account, what was executed stays so, and at most one copy
   is executed, of an account that did not exist (`SignedFacts`, `ClusterFacts`).
2. `IInv` is inductive. `CallInv` and `RunInv` say how many copies there are where a
   client is, and that they all name the account it is about; `OneCreator`, that no two
   executed copies created one account; `FilesInv`, that a file belongs to a run
   whose commitment was executed and that is done with it; `StoredInv`, that what a run has
   written stays.
3. From it `TypeCorrect`, `RetriesCorrect` (copies count attempts), `DoneCorrect`,
   `CreatingCallsCorrect` and `FileCorrect` (both from `OneCreator`; a `Torn` file is
   nobody's), and `JoinedCorrect`: a second run that got as far as emptying the file would
   have created the account again.
4. The watcher: what a callback calls is a selection from the lines of a transaction, which
   `EnumerationsExist` and `AscendingFacts` describe without recursion: the chosen
   places, in ascending order. `WatcherInv` says of a consumer that its calls follow the
   log (`InOrder`), that each was told to it (`CallsAreTold`), and that every gap is of
   its own making (`GapsAreOwn`). The last is what a handler of another consumer that
   throws would break; it is kept because a callback of one consumer touches no
   entry of another (`OthersStep`). From it `CallsFollowTheLog` and
   `FaultsStayWithTheirConsumer`.

**Calls.** `Calls_proofs`, from `WireAssumption`, `GhosClientAssumption` and
`DeployAssumption`: for every base, arguments that are any integer, and any number
of operators and runs.

1. `Spells(S, type, e, v)`: whatever cells follow `e`, the IDL reads `v` from the front and
   leaves what follows. It is shown for each encoder, numbers by induction on their
   digits (`DigitsOfNumber`), and for the arguments of an instruction one after
   another (`SpellsOneMore`), since `Decode` reads them in turn. An argument its type cannot
   hold (a negative `u64`, a small integer that wraps) is read as another of that type
   and disturbs none of the others.
2. Who signs: the accounts of every instruction begin with its signer and none after it
   signs (`WhoSigns`); the client adds the payer, and drops the second of two equal
   signers (`SignersAreTwoAtMost`).
3. Addresses: the seeds are joined without a mark, so that two lists of seeds could
   join to one address. They do not: the first seed tells the kind
   (`SeedsTellKindsApart`), and within a kind the seeds have fixed lengths
   (`JoinInjective`).
4. `ClientInv` says that every call so far is `Fine`, in these three respects; from it
   `WireIsReadBack`, `TransactionsAreSigned` and `AddressesAreApart`.
5. Deployment: `OneLanding` says that at most one initialize transaction ever lands, and
   that there is an account then; `ClaimsAreEarned`, what a run knows at each of its
   steps (`ScriptFollows`), what a summary stands for, and that a run prints one. A
   script that waits for `confirmed` is past `rpc()` only with its own transaction
   landed, which nothing undoes. `ClaimsCorrect` follows from both. It says nothing of who
   created the config for the runs that wait for `processed`, see section 5.

**Wallet.** `Wallet_proofs`, from `RistrettoAssumption` (the order is a prime),
`TwistedElGamalAssumption`, `SigmaAssumption` and `RangeAssumption`.

1. Arithmetic modulo the order is done on integers: `Stands(p, x)` says that the point or
   scalar `p` is the remainder of `x`, and `Sums` and `Multiples` carry it through the
   group. An equation of points is then one of integers.
2. Inverses. `InverseOf`: each step of the Euclidean algorithm of `invMod` keeps the two
   equations that tie its coefficients to the scalar, and that the remainders are
   coprime; the second remainder falls, so it ends. `InverseByPower`: `invScalar`
   computes the power it is asked for (`SquareMultiplyIsPower`), and that power is the
   inverse by Fermat's theorem, which is proved from the product of all scalars but
   zero: a multiplication permutes them.
3. `Decryption`. `CipherInv` says of the ciphertext that it is n times `H` and r times `G`, and r
   times the key, for the plaintext n it is worth. What remains after the key is
   removed is n times `H`, and the search finds the least number that is. A window smaller than the
   order has one at most. A key is never zero: a clamped hash is a multiple of eight below eight times the
   order, and the order is odd (`ClampedIsNotZero`).
4. `AcceptedProofs` puts the honest answers into the equations a verifier checks.
   `Soundness` subtracts the equations of two challenges and divides by their
   difference.
5. `Folding` and `Verification` from `RangeInvariant`. While an honest prover is on course, the
   length is the power of two of the rounds to come and the product is what is
   expected; `DotFolds` is the step, from p times q being one. The size of a proof
   then tells its rounds, and no aggregate has the size of a single proof
   (`PowersOfTwoGrow`, `OnePowerOnly`).

These specifications (`ElGamalSpec`, `SigmaSpec`, `RangeSpec`, `WatcherSpec`, `ClientSpec`,
`DeploySpec`) are each about one component. The modules that TLC runs interleave them
with others; no step of another component changes their variables (the bot reads the
log of the watcher and leaves it alone).

**Foundations.** The library's induction theorems take an operator, which no prover here
can instantiate. `Foundations_proofs` states induction with sets in place of
predicates, and recursion with a function from candidates to bodies:
the lemma `RecursiveFunctionExists` for any well-founded order, then for the naturals, the
subsets of a finite set, and a measure. A fold or recursive function of the models is
a `CHOOSE` that the existence theorem pins to its equation. The laws of remainders are there
too.

*Model-checked only:* `FullRoundsAreDecided`, `CallsReturn`, `CreditsAreApplied` and
`LimitEndsTheBot` are about what must happen, and fairness is beyond the prover.
The properties of the runs that expect a violation are false.

## 5. What the code does and no property says

- `dust_free_unit`, `burner_ttl_min`, `burner_ttl_max`, `burner_registry_cap`,
  `mix_max_participants` and `auditor_cosign_lamports` are stored, checked
  against each other, and read by none of the handlers modelled here, which use
  the compiled constants. Only the pause, the admin, the minimum and the reveal window of the config
  have an effect, and the reveal window on rounds opened later only.
- `config_update` works while the protocol is paused (it has to: it is how the
  pause ends).
- The phase `Open` is never stored, and the second disjunct of
  `mix_commit.rs:59` cannot hold after the check of line 43.
- A round reaches Reveal when it is full, before its commit window is over; its
  reveal deadline is counted from the end of the window all the same.
- `destroy_burner` never finds `revoked` set: the flag lives only inside the
  transaction that closes the account.
- The minimum of a round is whatever the config holds when it is settled, and the admin may
  set it to 2 (`config_update.rs:73-75`): then rounds settle with two revealers, where
  `docs/faq.md:75-76`, `docs/coinjoin.md:44` and `:230` speak of four (`mix_quorum`).
  `SettledRoundsMixSomething` is what is left: two at least.
- The comment in `zk.rs:11-15` says that a context is closed by its consumer in the same
  transaction; `close_context` has no caller, and a written context stays. The proof bytes
  are not used up: they verify again into a fresh context, so that one proof may back any
  number of registrations, and no handler compares what it states with the key that is
  installed or the burner that is closed.
- The CLI commits to Blake3 of a tag and length-prefixed fields (`crypto/commit.py:59-67`),
  `mix_reveal` checks SHA-256 of preimage and signal (`mix_reveal.rs:47`): no commitment
  of the CLI can ever be revealed (`join_reveals`). `FileFollowsTheChain` and
  `JoinedMeansStored` are about which run's salt is in the file, not about what it opens.
- A run of `mix join` that is interrupted, or does not see its confirmation,
  leaves a commitment on chain whose salt is nowhere; running the command again
  is refused by the program, because the entry exists. One that ends between opening the
  file and writing it, in a crash or on a full disk, leaves the file empty or torn
  (`mix.py:489-490`). The order of the code, first the chain and then the disk, makes this possible
  and keeps the file from ever holding the salt of another commitment than the one on
  chain; only the second is a property.
- The discriminators and account orders of the CLI are those of no instruction of the
  program (`mix join` sends a712e4c9b15e8f66, Anchor derives f1b0696d2740961f for
  `mix_commit`): `CliJoin` takes the instruction to be the one its name says.
- Two runs of `deploy.ts` can both report `alreadyInitialized: false`: `AnchorProvider.env()` waits
  for `processed`, and the error that `confirmTransaction` returns for a transaction that
  was dropped with its fork and then failed is not looked at (`deploy.ts:121-122`).
  TLC finds this when `ConfirmedClaimsAreTrue` is extended to all runs; the property keeps to
  those whose provider waits for `confirmed`.
- `CreatingCallsLandOnce` is about accounts nobody closes between two attempts of a call:
  a `destroy_burner` that lands in between would let the second attempt create the
  entry again. `Cluster` has no closing of accounts.
- A call of the SDK that creates no account may take effect twice when an answer
  was lost: that is the meaning of retrying it. It may also after an error that is not
  transient at all, when the digits 429, 502 or 503 occur anywhere in its text, in a
  signature or a log (`utils.ts:54`, `72`, `75`); the model lets them.
- Only the host can settle a round; `cli/ghos_cli/commands/mix.py:13` says that anyone can.
- The cap of burners per owner (`constants.rs:45`) is counted nowhere in the program;
  the CLI keeps to it by refusing higher nonces.
- A withdrawal above the threshold is co-signed when the client passes the auditor entry,
  and goes through when it does not: the threshold is compared with nothing
  (`withdraw.rs:3-4`, `70`).
- A transfer may leave a remainder below the unit that can be moved but not withdrawn
  (`confidential_transfer.rs:59`, `docs/threat-model.md:66-67`).
- `MixMinParticipants` is not checked against `mix_max_participants`, which no handler
  reads; `pad_amount` saturates to a number that is no multiple of the unit; `withTimeout`
  abandons a promise that runs on. The last two have no caller.
- The callback of a subscription does not look at `logs.err`: the events of a
  transaction that failed are handled like any other's.
- `crypto/keys.ts` declares `seed` twice in one function (lines 71 and 82) and does not
  compile; it is not modelled.
- The range proof's `t_hat` and `tau_x` open a multiple of the commitment with G and H exchanged, so
  that the equation of the literature fails for an honest proof. `verify` looks at
  the length of a proof and whether its points decode, and refuses the lengths that are no
  power of two, which `prove` accepts, and what `aggregate` makes. `proveBoundToKey` ignores the key.
- `auditorRegister` goes to the derived entry but answers with `auditorOverride` when that
  is set; `applyPending` answers zero credits always; `auditorRotate` answers an old key
  of zeros; the index `mixCommit` answers is the caller's own.
- A negative `u64` loses its sign, so that the nonces -1 and 1 are the same burner; `u8`,
  `u16` and `u32` wrap. `createBurner` without a key registers a random one nobody has
  the secret of; a fractional `ttlSeconds` throws after the transaction has
  landed. `shield` and `withdraw` take the same token account as source and as
  destination unless told otherwise.
- The client checks amounts and capacities against compiled constants, like the program, and
  not against the knobs of the config.
- What the SDK sends is compared here with the IDL it comes with. The Anchor program lists its
  accounts in another order and takes other arguments for several instructions,
  and the discriminators of the IDL are those Anchor derives only for `initialize` and
  `withdraw`: the models of the program take an instruction to be the one
  its name says.
- `seed_auditors.ts` calls `auditorRegister` with two arguments where the program's IDL has three,
  catches what that throws, and exits with success; `devnet_seed.ts` swallows the errors
  of creating its mints.
- `ghos config set` reads the file with the overrides of the environment applied
  and writes all of it back (`config.py:211`, `config_cmd.py:89-91`): what was
  meant for one invocation stays, and of two invocations at once one is lost.
- `docs/confidential-transfer.md:159-167` says that Token-2022 rejects an apply whose
  counter is stale. Token-2022 is not in the repository; it is modelled as accepting
  the apply and recording both
  counters, which is the weaker assumption for `StaleBalanceIsNoticed`. An apply that was
  overtaken by a debit of the same owner is told by no counter.
- `configUpdate` of the SDK submits the first field that is set and ignores the
  others.
- The SDK's commitment option is taken to be its default, `confirmed`, and the
  comparison of a status with lower-case names in `cli/ghos_cli/client.py` to match
  the library's names.

## 6. Not modelled

- **CLI commands** other than `mix join`: each checks its arguments, builds one
  transaction and prints. They keep no state, and what their transactions do is an
  action of the program's models. `mix settle` reads no file of reveal material, and there is no
  `mix reveal`.
- **CLI cryptography** other than `commit_hash`: a second implementation of the algorithms of
  `sdk`, with no counterpart on chain.
- **Configuration, units, display**: parsing and layout.
- **Reads of the SDK and the CLI** (`fetchConfigRaw`, `status`, `healthCheck`, ...): they
  change nothing.
- **`hash.ts`, transcripts, `keys.ts`**: hashes are free choices in the models; `keys.ts`
  does not compile.
- **Scripts and examples** other than the deployment and the watcher bot: sequences of
  calls with no state of their own.
- **Token-2022, zk-token-proof, the cluster, the RPC library**: external; modelled as far as
  the code here uses them.
- **`pad_amount`, `assert_protocol_version`, `close_context`, `cpi_deposit_signed`,
  `cpi_spl_transfer`**: no caller.
