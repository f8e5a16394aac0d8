--------------------------- MODULE SdkSubmission ----------------------------
(***************************************************************************)
(* A method of GhosClient that submits an instruction: sendIx, retried by  *)
(* sendAndConfirmWithRetry.  Each attempt signs the transaction again with *)
(* another blockhash, so each attempt is another copy, and the retry       *)
(* predicate decides from the text of an error whether there is one.       *)
(***************************************************************************)
EXTENDS Cluster

CONSTANTS SdkCalls,     \* the calls that are made through the SDK
          MaxRetries    \* GhosClientOptions.maxRetries, 3 unless given

ASSUME SdkAssumption == SdkCalls \subseteq Calls /\ MaxRetries \in Nat

VARIABLE sdk            \* the state of each call: `retry` and what it runs

(***************************************************************************)
(* Errors by what the code and the properties distinguish.  "Busy": 429,   *)
(* blockhash not found, a name that does not resolve; the copy never got   *)
(* to a node.  "LostReply": a hang-up, a reset, a time-out, a 502 or 503   *)
(* between client and node; the copy may have got there.  "Program": the   *)
(* program refused the instruction, and the text is the SDK's own.         *)
(* "Expired": block height exceeded.  "Other": any other text, `fetch      *)
(* failed` for one.  The texts of the last two are somebody else's and     *)
(* quote a signature or log lines, in which 429, 502 or 503 may occur.     *)
(***************************************************************************)
Errors == {"Busy", "LostReply", "Program", "Expired", "Other"}

Quoting == {"Expired", "Other"}

Call == [pc : {"idle", "send", "confirm", "backoff", "ok", "failed"},
         attempt : Nat,
         target : Targets \cup {NoTarget}]

SdkInit ==
  sdk = [c \in SdkCalls |-> [pc |-> "idle", attempt |-> 0,
                             target |-> NoTarget]]

Last(c) == copies[c][Len(copies[c])]

-----------------------------------------------------------------------------
(* The predicate looks for the digits anywhere in the text.                *)
DefaultShouldRetry(e, digits) == e \in {"Busy", "LostReply"} \/ digits

(* Fault: the comparison lets one attempt more through.                    *)
Exhausted_OffByOne(c) == sdk[c].attempt > MaxRetries

Exhausted(c) == sdk[c].attempt = MaxRetries

Throw(c, e) ==
  \/ /\ ~Exhausted(c)
     /\ \E digits \in BOOLEAN :
          (digits => e \in Quoting) /\ DefaultShouldRetry(e, digits)
     /\ sdk' = [sdk EXCEPT ![c].pc = "backoff"]
  \/ /\ Exhausted(c) \/ ~DefaultShouldRetry(e, FALSE)
     /\ sdk' = [sdk EXCEPT ![c].pc = "failed"]

(* The nonce, and with it the address, is picked before the first attempt. *)
AddressOf_PerAttempt(c) ==
  IF sdk[c].target = NoTarget THEN NoTarget ELSE <<sdk[c].target, sdk[c].attempt>>

AddressOf(c) == sdk[c].target

-----------------------------------------------------------------------------
StartCall(c, t) ==
  /\ sdk[c].pc = "idle"
  /\ sdk' = [sdk EXCEPT ![c].pc = "send", ![c].target = t]
  /\ UNCHANGED copies

Send(c) ==
  /\ sdk[c].pc = "send"
  /\ \/ Sign(c, "pending", AddressOf(c)) /\ sdk' = [sdk EXCEPT ![c].pc = "confirm"]
     \/ \E e \in {"LostReply", "Other"} : Sign(c, "pending", AddressOf(c)) /\ Throw(c, e)
     \/ \E e \in {"Busy", "LostReply", "Other"} :
          Sign(c, "expired", AddressOf(c)) /\ Throw(c, e)

(* Preflight runs the instruction, on the accounts as the node sees them.   *)
PreflightRefuses(c) ==
  /\ sdk[c].pc = "send"
  /\ Sign(c, "expired", AddressOf(c))
  /\ Throw(c, "Program")

(* Fault: a transaction counts as confirmed as soon as a node has seen it. *)
Confirmed_Processed(c) == Last(c).fate \in {"processed", "executed"}

Confirmed(c) == Last(c).fate = "executed"

(***************************************************************************)
(* The notification of a confirmation may be lost while the block height   *)
(* passes the last valid one, so "Expired" says nothing about the copy.    *)
(***************************************************************************)
AwaitConfirmation(c) ==
  /\ sdk[c].pc = "confirm"
  /\ \/ Confirmed(c) /\ sdk' = [sdk EXCEPT ![c].pc = "ok"]
     \/ Last(c).fate = "rejected" /\ Throw(c, "Program")
     \/ Last(c).fate # "pending" /\ Throw(c, "Expired")
     \/ \E e \in {"LostReply", "Other"} : Throw(c, e)
  /\ UNCHANGED copies

(* `attempt += 1` after the sleep; the loop runs while attempt <= maxRetries. *)
Retry(c) ==
  /\ sdk[c].pc = "backoff"
  /\ sdk[c].attempt <= MaxRetries
  /\ sdk' = [sdk EXCEPT ![c].pc = "send", ![c].attempt = @ + 1]
  /\ UNCHANGED copies

CallStep(c) == Send(c) \/ PreflightRefuses(c) \/ AwaitConfirmation(c) \/ Retry(c)

SdkStep == \E c \in SdkCalls :
  CallStep(c) \/ \E t \in Targets \cup {NoTarget} : StartCall(c, t)
=============================================================================
