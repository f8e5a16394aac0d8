------------------------------ MODULE Clients -------------------------------
(***************************************************************************)
(* SDK calls and runs of the CLI that submit to one cluster, for the same  *)
(* accounts too: an application and a user at a shell with one key.        *)
(***************************************************************************)
EXTENDS SdkSubmission, CliJoin

ASSUME ClientsAssumption == SdkCalls \cap Joins = {}

clientVars == <<copies, sdk, join, material>>

Init == ClusterInit /\ SdkInit /\ JoinInit

Land ==
  /\ \E c \in Calls : \E i \in DOMAIN copies[c] : ClusterStep(c, i)
  /\ UNCHANGED <<sdk, join, material>>

Next ==
  \/ Land
  \/ SdkStep /\ UNCHANGED <<join, material>>
  \/ JoinStep /\ UNCHANGED sdk

Spec == Init /\ [][Next]_clientVars

(***************************************************************************)
(* An await ends, in a value or an error (both HTTP clients give up after  *)
(* a time), and a timer fires.  Nothing is assumed of the cluster.         *)
(***************************************************************************)
FairSpec ==
  /\ Spec
  /\ \A c \in SdkCalls : WF_clientVars(CallStep(c) /\ UNCHANGED <<join, material>>)
  /\ \A j \in Joins : WF_clientVars(RunStep(j) /\ UNCHANGED sdk)

-----------------------------------------------------------------------------
(* Types: the copies of a call, the state of calls and runs, the files.    *)
TypeOK ==
  /\ copies \in [Calls -> Seq(Copy)]
  /\ sdk \in [SdkCalls -> Call]
  /\ join \in [Joins -> Run]
  /\ material \in [Targets -> Joins \cup {NoFile, Torn}]

(***************************************************************************)
(* What a client reports as done is done: the copy whose confirmation it   *)
(* saw is final, no fork takes it back (sendAndConfirmTransaction at       *)
(* `confirmed`, the confirmation_status check of send_and_confirm).        *)
(***************************************************************************)
DoneIsFinal ==
  /\ \A c \in SdkCalls : sdk[c].pc = "ok" => CopiesWith(c, "executed") # {}
  /\ \A j \in Joins : join[j].pc \in {"store", "write", "report", "ok"} =>
                       CopiesWith(j, "executed") # {}

(***************************************************************************)
(* A call that creates an account takes effect once however often its      *)
(* transaction is signed again: every attempt names the same address.      *)
(***************************************************************************)
CreatingCallsLandOnce ==
  \A c \in SdkCalls : sdk[c].target # NoTarget => Cardinality(CopiesWith(c, "executed")) <= 1

(***************************************************************************)
(* `retry` runs its operation maxRetries + 1 times at most (utils.test.ts: *)
(* "gives up after maxRetries").                                           *)
(***************************************************************************)
RetriesAreBounded == \A c \in SdkCalls : Len(copies[c]) <= MaxRetries + 1

(***************************************************************************)
(* The file of an account holds the salt of the commitment on chain or is  *)
(* no whole file, though a run with another salt may have been repeated,   *)
(* refused or lost in between: it is written only after the run's own      *)
(* commitment was confirmed, and the account is created once.              *)
(***************************************************************************)
FileFollowsTheChain ==
  \A t \in Targets : material[t] \in Joins => CreatorsOf(t) = {material[t]}

(***************************************************************************)
(* A join that reports success has its salt in the file, whole, and there  *)
(* it stays whatever other runs do: none of them empties it again.         *)
(***************************************************************************)
JoinedMeansStored ==
  \A j \in Joins : join[j].pc = "ok" => material[join[j].target] = j

(***************************************************************************)
(* mix.py: "Each participant reveals `(elgamal_pk, note, salt)`; the       *)
(* program verifies the hash matches."  What a successful join stored      *)
(* opens, in the eyes of mix_reveal, the commitment it made.               *)
(***************************************************************************)
JoinedMeansRevealable ==
  \A j \in Joins :
    join[j].pc = "ok" =>
      RevealHash(material[join[j].target]) \in Committed(join[j].target)

(***************************************************************************)
(* Every call of the SDK ends in a signature or an error, and so does      *)
(* every run of the CLI that is not interrupted: neither retries nor polls *)
(* for ever, whatever the cluster does.                                    *)
(***************************************************************************)
CallsReturn ==
  /\ \A c \in SdkCalls : sdk[c].pc = "send" ~> sdk[c].pc \in {"ok", "failed"}
  /\ \A j \in Joins : join[j].pc = "send" ~> join[j].pc \in {"ok", "failed"}
=============================================================================
