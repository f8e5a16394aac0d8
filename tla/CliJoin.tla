------------------------------ MODULE CliJoin -------------------------------
(***************************************************************************)
(* `ghos mix join`: a commitment with a fresh salt is submitted once, its  *)
(* signature is polled a bounded number of times, and then the salt is     *)
(* written to a file named after the round and the participant: the file   *)
(* is emptied when it is opened and filled afterwards.  The command may be *)
(* run again, in another shell too, and may be interrupted anywhere.       *)
(*                                                                         *)
(* A salt, and the key and the note hashed with it, is named by the run    *)
(* that drew it.                                                           *)
(***************************************************************************)
EXTENDS Cluster

CONSTANTS Joins,        \* runs of the command
          MaxPolls,     \* TX_CONFIRM_MAX_RETRIES
          NoFile,       \* no reveal material for this account
          Torn          \* a file that is empty or holds a part of it

ASSUME JoinAssumption ==
  /\ Joins \subseteq Calls
  /\ MaxPolls \in Nat \ {0}
  /\ NoFile \notin Joins /\ Torn \notin Joins

VARIABLES join,         \* the state of each run
          material      \* whose salt the file of each account holds

joinVars == <<join, material>>

Run == [pc : {"idle", "send", "poll", "store", "write", "report", "ok", "failed"},
        polls : 0..MaxPolls,
        target : Targets \cup {NoTarget}]

JoinInit ==
  /\ join = [j \in Joins |-> [pc |-> "idle", polls |-> 0, target |-> NoTarget]]
  /\ material = [t \in Targets |-> NoFile]

FateSeen(j) == copies[j][Len(copies[j])].fate

Goes(j, pc) == join' = [join EXCEPT ![j].pc = pc]

-----------------------------------------------------------------------------
(* What commit_hash makes of the salt, behind a tag and lengths, and what  *)
(* mix_reveal makes of the bytes a participant shows, as they are: digests *)
(* are equal when the function and what it was given are.                  *)
CommitHash(salt) == [hash |-> "blake3", of |-> <<"ghos.mix.commit.v1", salt>>]

RevealHash(salt) == [hash |-> "sha256", of |-> <<salt>>]

(* What the entry of an account holds: the commitment of its creator.      *)
Committed(target) == {CommitHash(j) : j \in CreatorsOf(target) \cap Joins}

(* Everything up to the transaction: keys, note, salt, hash.               *)
(* Fault: the material is stored before the commitment is submitted.       *)
BeginJoin_StoresFirst(j, t) ==
  /\ join[j].pc = "idle"
  /\ join' = [join EXCEPT ![j].pc = "send", ![j].target = t]
  /\ material' = [material EXCEPT ![t] = j]
  /\ UNCHANGED copies

BeginJoin(j, t) ==
  /\ join[j].pc = "idle"
  /\ join' = [join EXCEPT ![j].pc = "send", ![j].target = t]
  /\ UNCHANGED <<copies, material>>

(***************************************************************************)
(* build_transaction and send_raw_transaction: one exception ends the run, *)
(* whether or not the transaction got to a node.                           *)
(***************************************************************************)
SubmitJoin(j) ==
  /\ join[j].pc = "send"
  /\ \/ Goes(j, "failed") /\ UNCHANGED copies
     \/ Goes(j, "failed") /\ Sign(j, "pending", join[j].target)
     \/ Goes(j, "poll") /\ Sign(j, "pending", join[j].target)
  /\ UNCHANGED material

(* Fault: a status without an error is taken for a confirmation.           *)
ConfirmedStatus_Any(j) == FateSeen(j) \in {"processed", "executed"}

ConfirmedStatus(j) == FateSeen(j) = "executed"

(* Fault: the loop starts again when the polls are used up.                *)
PollsAgain_Forever(j) == join' = [join EXCEPT ![j].polls = (@ + 1) % MaxPolls]

(* No status, or one that is not confirmed yet, in the node that is asked. *)
PollsAgain(j) ==
  join' = [join EXCEPT ![j].polls = @ + 1,
                       ![j].pc = IF join[j].polls + 1 = MaxPolls THEN "failed" ELSE "poll"]

PollStatus(j) ==
  /\ join[j].pc = "poll"
  /\ \/ ConfirmedStatus(j) /\ Goes(j, "store")
     \/ FateSeen(j) = "rejected" /\ Goes(j, "failed")
     \/ Goes(j, "failed")                       \* get_signature_statuses throws
     \/ PollsAgain(j)
  /\ UNCHANGED <<copies, material>>

(* _store_reveal_material: the directory and the file are opened, and what *)
(* the file held before is gone ...                                        *)
OpenFile(j) ==
  /\ join[j].pc = "store"
  /\ \/ material' = [material EXCEPT ![join[j].target] = Torn] /\ Goes(j, "write")
     \/ Goes(j, "failed") /\ UNCHANGED material
  /\ UNCHANGED copies

(* ... and the key, the note and the salt are written, or the disk is full. *)
WriteFile(j) ==
  /\ join[j].pc = "write"
  /\ \/ material' = [material EXCEPT ![join[j].target] = j] /\ Goes(j, "report")
     \/ Goes(j, "failed") /\ UNCHANGED material
  /\ UNCHANGED copies

(* The mode of the file is set if it can be, and success is printed.       *)
Report(j) ==
  /\ join[j].pc = "report"
  /\ Goes(j, "ok")
  /\ UNCHANGED <<copies, material>>

(* An interrupt, or a crash, ends a run like an error that is raised there. *)
Interrupt(j) ==
  /\ join[j].pc \in {"send", "poll", "store", "write", "report"}
  /\ Goes(j, "failed")
  /\ UNCHANGED <<copies, material>>

RunStep(j) == SubmitJoin(j) \/ PollStatus(j) \/ OpenFile(j) \/ WriteFile(j) \/ Report(j)

JoinStep == \E j \in Joins :
  RunStep(j) \/ Interrupt(j) \/ \E t \in Targets : BeginJoin(j, t)
=============================================================================
