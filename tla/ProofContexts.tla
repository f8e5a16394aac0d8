--------------------------- MODULE ProofContexts ----------------------------
(***************************************************************************)
(* Proof context accounts, as utils/zk.rs uses the zk-token-proof program: *)
(* verify_and_store CPIs into it with the bytes of a proof, an argument of *)
(* the instruction, and an account the client created; the program         *)
(* verifies the proof and writes the account.  A proof that does not       *)
(* verify, or an account that was written before, fails the CPI and with   *)
(* it the whole transaction.                                               *)
(*                                                                         *)
(* A proof is not used up: the same bytes verify again, into any account   *)
(* that is still unwritten.  No handler closes a context (close_context    *)
(* has no caller), so a written context stays written.                     *)
(***************************************************************************)
CONSTANTS
  Contexts,    \* the context accounts the clients of a model create
  ProofBytes,  \* the proofs of each kind that clients have made
  Unwritten    \* a context account that is funded and not yet written

VARIABLE contexts

ProofKind == {"PubkeyValidity", "ZeroBalance"}

\* A proof verifies under its own kind and under no other.
Proof == [kind : ProofKind, bytes : ProofBytes]

ASSUME ContextsAssumption == Unwritten \notin Proof

ContextsInit == contexts = [c \in Contexts |-> Unwritten]

\* Fault: the account is not checked, so one context serves two instructions.
VerifyAndStore_Reused(c, proof, kind) ==
  /\ proof.kind = kind
  /\ contexts' = [contexts EXCEPT ![c] = proof]

VerifyAndStore(c, proof, kind) ==
  /\ proof.kind = kind
  /\ contexts[c] = Unwritten
  /\ contexts' = [contexts EXCEPT ![c] = proof]

Written(kind) == {c \in Contexts : contexts[c] # Unwritten /\ contexts[c].kind = kind}

ContextsTypeOK == contexts \in [Contexts -> Proof \cup {Unwritten}]
=============================================================================
