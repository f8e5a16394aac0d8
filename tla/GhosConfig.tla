----------------------------- MODULE GhosConfig -----------------------------
(***************************************************************************)
(* The singleton GhosConfig account (programs/ghos/src/state.rs) and the   *)
(* two instructions that write it: initialize and config_update.  Every    *)
(* other handler only reads it.                                            *)
(*                                                                         *)
(* version, last_updated, bump and reserved are written here and read by   *)
(* no handler, so the record leaves them out.                              *)
(***************************************************************************)
EXTENDS Integers

CONSTANTS
  Keys,                 \* the public keys that may sign
  Admins,               \* the keys a model lets initialize or administer
  ConfigFields,         \* the ConfigField arguments a model submits
  NoAccount,            \* a PDA that holds no account
  MIX_MIN_PARTICIPANTS,
  MIX_MAX_PARTICIPANTS,
  MIX_REVEAL_WINDOW_SECONDS,
  BURNER_TTL_MIN_SECONDS,
  BURNER_TTL_MAX_SECONDS,
  BURNER_REGISTRY_CAP_PER_OWNER,
  DUST_FREE_UNIT,
  AUDITOR_COSIGN_LAMPORTS

VARIABLE config

GhosConfigRecord ==
  [ admin                   : Keys,
    paused                  : BOOLEAN,
    dust_free_unit          : Nat,
    burner_ttl_max          : Int,
    burner_ttl_min          : Int,
    burner_registry_cap     : Nat,
    mix_min_participants    : Nat,
    mix_max_participants    : Nat,
    mix_reveal_window       : Int,
    auditor_cosign_lamports : Nat ]

\* The ConfigField enum of config_update: a tag and the value it carries.
ConfigField ==
  [tag : {"Paused"}, value : BOOLEAN]
    \cup [tag : {"BurnerTtlMax", "BurnerTtlMin", "MixRevealWindow"}, value : Int]
    \cup [tag : {"DustFreeUnit", "BurnerRegistryCap", "MixMinParticipants",
                 "MixMaxParticipants", "AuditorCosignLamports"}, value : Nat]
    \cup [tag : {"Admin"}, value : Keys]

\* The compile-time constants of constants.rs, as far as a proof needs them.
ASSUME ConfigAssumption ==
  /\ Admins \subseteq Keys
  /\ ConfigFields \subseteq ConfigField
  /\ MIX_MIN_PARTICIPANTS \in Nat /\ MIX_MIN_PARTICIPANTS >= 2
  /\ MIX_MAX_PARTICIPANTS \in Nat /\ MIX_MAX_PARTICIPANTS >= MIX_MIN_PARTICIPANTS
  /\ MIX_REVEAL_WINDOW_SECONDS \in Nat \ {0}
  /\ BURNER_TTL_MIN_SECONDS \in Nat \ {0}
  /\ BURNER_TTL_MAX_SECONDS \in Nat /\ BURNER_TTL_MAX_SECONDS > BURNER_TTL_MIN_SECONDS
  /\ BURNER_REGISTRY_CAP_PER_OWNER \in Nat \ {0}
  /\ DUST_FREE_UNIT \in Nat \ {0}
  /\ AUDITOR_COSIGN_LAMPORTS \in Nat
  /\ NoAccount \notin GhosConfigRecord

ConfigInit == config = NoAccount

-----------------------------------------------------------------------------
\* The account constraints and assertions the handlers share.

\* `seeds = [CONFIG_SEED], bump = config.bump`: the account must exist.
ConfigExists == config # NoAccount

NotPaused == ConfigExists /\ ~config.paused

IsAdmin(signer) == ConfigExists /\ config.admin = signer

-----------------------------------------------------------------------------
\* The first signer to land this transaction becomes the admin.
Initialize(signer) ==
  /\ config = NoAccount
  /\ config' = [ admin                   |-> signer,
                 paused                  |-> FALSE,
                 dust_free_unit          |-> DUST_FREE_UNIT,
                 burner_ttl_max          |-> BURNER_TTL_MAX_SECONDS,
                 burner_ttl_min          |-> BURNER_TTL_MIN_SECONDS,
                 burner_registry_cap     |-> BURNER_REGISTRY_CAP_PER_OWNER,
                 mix_min_participants    |-> MIX_MIN_PARTICIPANTS,
                 mix_max_participants    |-> MIX_MAX_PARTICIPANTS,
                 mix_reveal_window       |-> MIX_REVEAL_WINDOW_SECONDS,
                 auditor_cosign_lamports |-> AUDITOR_COSIGN_LAMPORTS ]

\* Fault: equal bounds pass, which leave no TTL at all.
TtlsDoNotCross_Equal(min, max) == min <= max

TtlsDoNotCross(min, max) == min < max

\* One knob at a time, by the admin, also while the protocol is paused.
ConfigUpdate(signer, field) ==
  /\ IsAdmin(signer)
  /\ \/ /\ field.tag = "Paused"
        /\ config' = [config EXCEPT !.paused = field.value]
     \/ /\ field.tag = "DustFreeUnit"
        /\ field.value > 0
        /\ config' = [config EXCEPT !.dust_free_unit = field.value]
     \/ /\ field.tag = "BurnerTtlMax"
        /\ TtlsDoNotCross(config.burner_ttl_min, field.value)
        /\ config' = [config EXCEPT !.burner_ttl_max = field.value]
     \/ /\ field.tag = "BurnerTtlMin"
        /\ TtlsDoNotCross(field.value, config.burner_ttl_max)
        /\ config' = [config EXCEPT !.burner_ttl_min = field.value]
     \/ /\ field.tag = "BurnerRegistryCap"
        /\ field.value > 0
        /\ config' = [config EXCEPT !.burner_registry_cap = field.value]
     \/ /\ field.tag = "MixMinParticipants"
        /\ field.value >= 2
        /\ config' = [config EXCEPT !.mix_min_participants = field.value]
     \/ /\ field.tag = "MixMaxParticipants"
        /\ field.value >= config.mix_min_participants
        /\ config' = [config EXCEPT !.mix_max_participants = field.value]
     \/ /\ field.tag = "MixRevealWindow"
        /\ field.value > 0
        /\ config' = [config EXCEPT !.mix_reveal_window = field.value]
     \/ /\ field.tag = "AuditorCosignLamports"
        /\ config' = [config EXCEPT !.auditor_cosign_lamports = field.value]
     \/ /\ field.tag = "Admin"
        /\ config' = [config EXCEPT !.admin = field.value]

ConfigNext ==
  \/ \E s \in Admins : Initialize(s)
  \/ \E s \in Admins, f \in ConfigFields : ConfigUpdate(s, f)

-----------------------------------------------------------------------------
ConfigTypeOK == config \in GhosConfigRecord \cup {NoAccount}

\* After any sequence of updates by any sequence of admins, the knobs the
\* handlers rely on are usable: the reveal window is not empty, a quorum is two
\* at least, and the TTL bounds, which are checked against each other one at a
\* time, never cross.
KnobsInRange ==
  ConfigExists =>
    /\ config.dust_free_unit > 0
    /\ config.burner_ttl_min < config.burner_ttl_max
    /\ config.burner_registry_cap > 0
    /\ config.mix_min_participants >= 2
    /\ config.mix_reveal_window > 0
=============================================================================
