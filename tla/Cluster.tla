------------------------------ MODULE Cluster -------------------------------
(***************************************************************************)
(* The cluster as its clients use it (external: Solana, web3.js and        *)
(* solana-py).  Client calls sign transactions, called copies here; a copy *)
(* with its own blockhash is a transaction of its own, which the cluster   *)
(* executes whatever became of the others.                                 *)
(*                                                                         *)
(* A call that creates an account (an Anchor `init`: initialize,           *)
(* create_burner, auditor_register, mix_init, mix_commit) names the        *)
(* account, and the program refuses it when the account exists.  Any other *)
(* call (NoTarget: shield, withdraw, confidential_transfer, apply_pending, *)
(* config_update) can be executed again.                                   *)
(***************************************************************************)
EXTENDS Naturals, Sequences, FiniteSets

CONSTANTS Calls,        \* calls of the clients: one instruction each
          Targets,      \* accounts a creating call may name
          NoTarget      \* what any other call names

ASSUME ClusterAssumption == NoTarget \notin Targets

VARIABLE copies         \* for each call the copies it signed, in order

(***************************************************************************)
(* A "pending" copy may be executed, be refused by the program, or expire  *)
(* with its blockhash; one that was "processed" on a fork that is dropped  *)
(* is pending again.  The last three fates are final at the commitment the *)
(* clients ask for.  A copy that reached no node has expired from the      *)
(* beginning: nothing will ever execute it.                                *)
(***************************************************************************)
FateOf == {"pending", "processed", "executed", "rejected", "expired"}

Copy == [fate : FateOf, target : Targets \cup {NoTarget}]

CopiesWith(c, fate) == {i \in DOMAIN copies[c] : copies[c][i].fate = fate}

CreatorsOf(target) ==
  {c \in Calls : \E i \in CopiesWith(c, "executed") : copies[c][i].target = target}

Exists(target) == target # NoTarget /\ CreatorsOf(target) # {}

ClusterInit == copies = [c \in Calls |-> <<>>]

Sign(c, fate, target) ==
  copies' = [copies EXCEPT ![c] = Append(@, [fate |-> fate, target |-> target])]

-----------------------------------------------------------------------------
Becomes(c, i, from, to) ==
  /\ copies[c][i].fate = from
  /\ copies' = [copies EXCEPT ![c][i].fate = to]

Process(c, i) == ~Exists(copies[c][i].target) /\ Becomes(c, i, "pending", "processed")

DropFork(c, i) == Becomes(c, i, "processed", "pending")

Confirm(c, i) == ~Exists(copies[c][i].target) /\ Becomes(c, i, "processed", "executed")

(* For the account it would create, or for any other reason.               *)
Reject(c, i) ==
  \E from \in {"pending", "processed"} : Becomes(c, i, from, "rejected")

Expire(c, i) == Becomes(c, i, "pending", "expired")

ClusterStep(c, i) ==
  Process(c, i) \/ DropFork(c, i) \/ Confirm(c, i) \/ Reject(c, i) \/ Expire(c, i)
=============================================================================
