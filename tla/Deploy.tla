------------------------------- MODULE Deploy -------------------------------
(***************************************************************************)
(* migrations/deploy.ts: make sure that the config exists, and say whether *)
(* this run created it.  Operators run the script, each from a wallet of   *)
(* their own, side by side and again after it failed; a transaction of a   *)
(* run that gave up may still land, and one that was seen on a fork may be *)
(* lost with it.                                                           *)
(***************************************************************************)
EXTENDS Naturals

CONSTANTS Operators,    \* each with a wallet
          Versions,     \* what PROTOCOL_VERSION was in the builds that were deployed
          EXPECTED_VERSION,
          NoConfig,     \* the account does not exist
          MaxRuns       \* bound on the runs of an operator

ASSUME DeployAssumption ==
  /\ MaxRuns \in Nat
  /\ EXPECTED_VERSION \in Versions
  /\ NoConfig \notin [admin : Operators, version : Versions]

VARIABLES account,      \* the GhosConfig account: its admin and version
          program,      \* the version the deployed program writes
          step,         \* step[o]: where the script of an operator is
          runs,         \* the runs an operator has started
          waits,        \* the commitment of the provider of an operator's run
          fates,        \* what became of the transaction of each run: <<operator, run>>
          summaries     \* what successful runs printed

deployVars == <<account, program, step, runs, waits, fates, summaries>>

Transactions == Operators \X (1..MaxRuns)

(* "processed": executed without an error, on a fork that may be dropped.  *)
(* "landed" and "failed" are what it came to at the commitment `confirmed`. *)
DeployFate == {"unsent", "pending", "processed", "landed", "failed", "expired"}

DeployInit ==
  /\ program \in Versions
  /\ account \in {NoConfig} \cup [admin : Operators, version : Versions]
  /\ step = [o \in Operators |-> "idle"]
  /\ runs = [o \in Operators |-> 0]
  /\ waits = [o \in Operators |-> "confirmed"]
  /\ fates = [t \in Transactions |-> "unsent"]
  /\ summaries = {}

Goto(o, s) == step' = [step EXCEPT ![o] = s]

Fate(o) == fates[<<o, runs[o]>>]

Turns(t, from, to) ==
  /\ fates[t] = from
  /\ fates' = [fates EXCEPT ![t] = to]

-----------------------------------------------------------------------------
(* resolveProvider: AnchorProvider.env() waits for `processed`, the one    *)
(* the script makes itself for `confirmed`.                                *)
Run(o) ==
  /\ step[o] = "idle" /\ runs[o] < MaxRuns
  /\ Goto(o, "check")
  /\ runs' = [runs EXCEPT ![o] = @ + 1]
  /\ \E w \in {"processed", "confirmed"} : waits' = [waits EXCEPT ![o] = w]
  /\ UNCHANGED <<account, program, fates, summaries>>

(* ensureConfigInitialized: getAccountInfo at `confirmed`.                 *)
Check(o) ==
  /\ step[o] = "check"
  /\ Goto(o, IF account = NoConfig THEN "init" ELSE "found")
  /\ UNCHANGED <<account, program, runs, waits, fates, summaries>>

(* rpc() sends initialize, with the wallet's key as the admin ...          *)
SendInitialize(o) ==
  /\ step[o] = "init"
  /\ Turns(<<o, runs[o]>>, "unsent", "pending")
  /\ Goto(o, "rpc")
  /\ UNCHANGED <<account, program, runs, waits, summaries>>

(* Fault: every provider waits no longer than for `processed`.             *)
ReachedCommitment_Processed(o) == Fate(o) \in {"processed", "landed"}

ReachedCommitment(o) ==
  Fate(o) \in (IF waits[o] = "processed" THEN {"processed", "landed"} ELSE {"landed"})

(* ... and returns when it got as far as the provider waits for; it throws *)
(* when it failed or that took too long (Die).                             *)
RpcReturns(o) ==
  /\ step[o] = "rpc"
  /\ ReachedCommitment(o)
  /\ Goto(o, "confirm")
  /\ UNCHANGED <<account, program, runs, waits, fates, summaries>>

(* confirmTransaction: it throws when it took too long (Die), and returns  *)
(* an error the program gave as a value, which nobody looks at.            *)
ConfirmReturns(o) ==
  /\ step[o] = "confirm"
  /\ Fate(o) \in {"landed", "failed"}
  /\ Goto(o, "created")
  /\ UNCHANGED <<account, program, runs, waits, fates, summaries>>

(* The script dies: a call to the cluster threw, its answer was lost, the  *)
(* transaction failed or was not confirmed in time, or the process ended.  *)
Die(o) ==
  /\ step[o] # "idle"
  /\ Goto(o, "idle")
  /\ UNCHANGED <<account, program, runs, waits, fates, summaries>>

-----------------------------------------------------------------------------
(* The cluster: initialize is executed on a fork, which may be dropped ... *)
ProcessInitialize(t) ==
  /\ account = NoConfig /\ Turns(t, "pending", "processed")
  /\ UNCHANGED <<account, program, step, runs, waits, summaries>>

DropInitialize(t) ==
  /\ Turns(t, "processed", "pending")
  /\ UNCHANGED <<account, program, step, runs, waits, summaries>>

(* ... or confirmed.                                                       *)
Initialize(t) ==
  /\ account = NoConfig
  /\ Turns(t, "processed", "landed")
  /\ account' = [admin |-> t[1], version |-> program]
  /\ UNCHANGED <<program, step, runs, waits, summaries>>

(* It fails when the account is there, or for any other reason, or expires. *)
LoseInitialize(t) ==
  /\ \E to \in {"failed", "expired"} : Turns(t, "pending", to)
  /\ UNCHANGED <<account, program, step, runs, waits, summaries>>

(* config_update hands the config over.                                    *)
HandOver(admin) ==
  /\ account # NoConfig
  /\ account' = [account EXCEPT !.admin = admin]
  /\ UNCHANGED <<program, step, runs, waits, fates, summaries>>

(***************************************************************************)
(* main reads the account back and prints the summary; no account, or one  *)
(* of another version, ends the script with an error.                      *)
(***************************************************************************)
ReadBack(o) ==
  /\ step[o] \in {"found", "created"}
  /\ account # NoConfig
  /\ account.version = EXPECTED_VERSION
  /\ summaries' = summaries \cup
       {[by |-> o, run |-> runs[o], waited |-> waits[o], admin |-> account.admin,
         version |-> account.version, alreadyInitialized |-> step[o] = "found"]}
  /\ Goto(o, "idle")
  /\ UNCHANGED <<account, program, runs, waits, fates>>

DeployNext ==
  \/ \E o \in Operators :
       \/ Run(o) \/ Check(o) \/ SendInitialize(o) \/ RpcReturns(o) \/ ConfirmReturns(o)
       \/ ReadBack(o) \/ Die(o) \/ HandOver(o)
  \/ \E t \in Transactions :
       ProcessInitialize(t) \/ DropInitialize(t) \/ Initialize(t) \/ LoseInitialize(t)

DeploySpec == DeployInit /\ [][DeployNext]_deployVars

-----------------------------------------------------------------------------
Claims == {s \in summaries : ~s.alreadyInitialized}

(***************************************************************************)
(* However many operators deploy at once, and however often: of the runs   *)
(* whose provider waits for `confirmed` one at most says that it created   *)
(* the config, and its transaction did.  No run at all succeeds on a       *)
(* config of another version, nor says it created one that another build   *)
(* wrote.                                                                  *)
(***************************************************************************)
ConfirmedClaimsAreTrue ==
  /\ \A s \in summaries :
       /\ s.version = EXPECTED_VERSION
       /\ ~s.alreadyInitialized => program = EXPECTED_VERSION
  /\ \A s \in Claims : s.waited = "confirmed" => fates[<<s.by, s.run>>] = "landed"
  /\ \A s, t \in Claims : s.waited = "confirmed" /\ t.waited = "confirmed" => s = t
=============================================================================
