-------------------------- MODULE AuditorRegistry ---------------------------
(***************************************************************************)
(* The AuditorEntry account of each mint and the two instructions that     *)
(* write it, auditor_register and auditor_rotate.  The events they emit    *)
(* are kept per mint, in the order they are emitted: that log is all an    *)
(* indexer has to reconstruct which key a transfer was encrypted to.       *)
(***************************************************************************)
EXTENDS GhosConfig, Clock, ProofContexts, Sequences

CONSTANTS
  Mints,
  AuditorKeys,   \* ElGamal public keys of auditors
  NoKey,         \* AuditorRegistered carries no old key
  Cooldowns      \* rotation_cooldown arguments: any i64 is accepted

VARIABLES
  auditors,      \* the AuditorEntry account of each mint
  auditorLog     \* the AuditorRegistered and AuditorRotated events of each mint

auditorVars == <<auditors, auditorLog>>

AuditorEntry ==
  [ auditor_pubkey : AuditorKeys, registered_at : Time, last_rotated_at : Time,
    rotation_cooldown : Int, admin : Keys ]

AuditorEvent ==
  [ old_pubkey : AuditorKeys \cup {NoKey}, new_pubkey : AuditorKeys, timestamp : Time ]

ASSUME AuditorAssumption ==
  /\ Cooldowns \subseteq Int
  /\ NoKey \notin AuditorKeys
  /\ NoAccount \notin AuditorEntry

AuditorInit ==
  /\ auditors = [m \in Mints |-> NoAccount]
  /\ auditorLog = [m \in Mints |-> <<>>]

Emit(m, old, new) ==
  auditorLog' = [auditorLog EXCEPT ![m] =
    Append(@, [old_pubkey |-> old, new_pubkey |-> new, timestamp |-> now])]

-----------------------------------------------------------------------------
\* `init` on the PDA of the mint.  Fault: init_if_needed.
Unregistered_IfNeeded(m) == TRUE

Unregistered(m) == auditors[m] = NoAccount

\* The cooldown counts from the registration.
NewAuditor(signer, key, cooldown) ==
  [ auditor_pubkey    |-> key,
    registered_at     |-> now,
    last_rotated_at   |-> now,
    rotation_cooldown |-> cooldown,
    admin             |-> signer ]

\* auditor_register: the admin of the config becomes the admin of the entry.
\* Neither instruction compares what the proof is about with the key.
AuditorRegister(signer, m, key, cooldown, context, proof) ==
  /\ NotPaused
  /\ IsAdmin(signer)
  /\ Unregistered(m)
  /\ VerifyAndStore(context, proof, "PubkeyValidity")
  /\ auditors' = [auditors EXCEPT ![m] = NewAuditor(signer, key, cooldown)]
  /\ Emit(m, NoKey, key)
  /\ UNCHANGED <<now, config>>

\* now.saturating_sub(last_rotated_at) >= rotation_cooldown.
\* Fault: the cooldown counts from the registration alone.
CooldownOver_SinceRegistered(entry) == now - entry.registered_at >= entry.rotation_cooldown

CooldownOver(entry) == now - entry.last_rotated_at >= entry.rotation_cooldown

\* Fault: the timestamp is left behind.
Rotated_KeyOnly(entry, key) == [entry EXCEPT !.auditor_pubkey = key]

Rotated(entry, key) == [entry EXCEPT !.auditor_pubkey = key, !.last_rotated_at = now]

\* auditor_rotate: by a signer that is the admin of the entry (has_one) and
\* still the admin of the config.
AuditorRotate(signer, m, key, context, proof) ==
  /\ NotPaused
  /\ IsAdmin(signer)
  /\ auditors[m] # NoAccount
  /\ auditors[m].admin = signer
  /\ CooldownOver(auditors[m])
  /\ VerifyAndStore(context, proof, "PubkeyValidity")
  /\ auditors' = [auditors EXCEPT ![m] = Rotated(auditors[m], key)]
  /\ Emit(m, auditors[m].auditor_pubkey, key)
  /\ UNCHANGED <<now, config>>

AuditorNext ==
  \E s \in Admins, m \in Mints, k \in AuditorKeys, c \in Contexts, p \in Proof :
    \/ \E d \in Cooldowns : AuditorRegister(s, m, k, d, c, p)
    \/ AuditorRotate(s, m, k, c, p)

-----------------------------------------------------------------------------
AuditorTypeOK ==
  /\ auditors \in [Mints -> AuditorEntry \cup {NoAccount}]
  /\ auditorLog \in [Mints -> Seq(AuditorEvent)]

\* The events of a mint tell the history of its key without a gap: the first
\* one is the registration and names no old key, each other one replaces the
\* key the one before it installed, and the last one installed what the account
\* holds, when the account says it did.
LogTellsTheKeyHistory ==
  \A m \in Mints :
    LET log == auditorLog[m] IN
    /\ auditors[m] = NoAccount <=> log = <<>>
    /\ auditors[m] # NoAccount =>
         /\ log[1].old_pubkey = NoKey
         /\ log[1].timestamp = auditors[m].registered_at
         /\ log[Len(log)].new_pubkey = auditors[m].auditor_pubkey
         /\ log[Len(log)].timestamp = auditors[m].last_rotated_at
    /\ \A i \in 2 .. Len(log) : log[i].old_pubkey = log[i - 1].new_pubkey

\* "The cooldown prevents a flood of rotations" (docs/threat-model.md, T10): in
\* the whole history of a mint two keys are installed a cooldown apart, the
\* cooldown the entry was registered with.
RotationsAreSpaced ==
  \A m \in Mints : \A i \in 2 .. Len(auditorLog[m]) :
    auditorLog[m][i].timestamp - auditorLog[m][i - 1].timestamp >= auditors[m].rotation_cooldown

\* docs/faq.md: "The admin (ghos multisig) [...] can pause the protocol, tune
\* knobs in GhosConfig, and rotate an auditor's registered pubkey".  The admin
\* of the config is accepted by auditor_rotate once the cooldown is over.
AdminCanRotate ==
  \A m \in Mints, k \in AuditorKeys, c \in Contexts, p \in Proof :
    (/\ NotPaused
     /\ auditors[m] # NoAccount
     /\ CooldownOver(auditors[m])
     /\ p.kind = "PubkeyValidity"
     /\ contexts[c] = Unwritten) => ENABLED AuditorRotate(config.admin, m, k, c, p)
=============================================================================
