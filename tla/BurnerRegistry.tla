--------------------------- MODULE BurnerRegistry ---------------------------
(***************************************************************************)
(* The BurnerAccount of each (owner, nonce) and the two instructions that  *)
(* open and close it, create_burner and destroy_burner, with the events    *)
(* they emit, kept per owner.                                              *)
(*                                                                         *)
(* No handler writes usage_count after create_burner and none reads a      *)
(* burner entry but destroy_burner, so an expired entry stays until its    *)
(* owner closes it.                                                        *)
(***************************************************************************)
EXTENDS GhosConfig, Clock, ProofContexts, Sequences, FiniteSets

CONSTANTS
  Owners,
  Nonces,        \* the nonces an owner's client tries
  BurnerKeys,    \* the ephemeral public keys
  Ttls           \* ttl_seconds arguments of create_burner

VARIABLES
  burners,       \* the BurnerAccount of each (owner, nonce)
  burnerLog      \* the BurnerCreated and BurnerDestroyed events of each owner

burnerVars == <<burners, burnerLog>>

BurnerAccount ==
  [ burner_pubkey : BurnerKeys, created_at : Time, expires_at : Time, revoked : BOOLEAN ]

BurnerEvent == [type : {"BurnerCreated", "BurnerDestroyed"}, burner : BurnerKeys, at : Time]

ASSUME BurnerAssumption ==
  /\ Owners \subseteq Keys
  /\ Ttls \subseteq Int
  /\ NoAccount \notin BurnerAccount

BurnerInit ==
  /\ burners = [e \in Owners \X Nonces |-> NoAccount]
  /\ burnerLog = [o \in Owners |-> <<>>]

EmitBurner(o, type, burner, at) ==
  burnerLog' = [burnerLog EXCEPT ![o] =
    Append(@, [type |-> type, burner |-> burner, at |-> at])]

-----------------------------------------------------------------------------
\* `init` on the PDA of (owner, nonce).  Fault: init_if_needed.
Unused_IfNeeded(o, n) == TRUE

Unused(o, n) == burners[<<o, n>>] = NoAccount

\* The bounds are the compiled ones; the two TTL knobs and the cap of the config
\* are not read.  Fault: the upper bound is forgotten.
ValidateBurnerTtl_Floor(ttl) == ttl >= BURNER_TTL_MIN_SECONDS

ValidateBurnerTtl(ttl) == ttl \in BURNER_TTL_MIN_SECONDS .. BURNER_TTL_MAX_SECONDS

NewBurner(burner, ttl) ==
  [ burner_pubkey |-> burner,
    created_at    |-> now,
    expires_at    |-> SatAdd(now, ttl),
    revoked       |-> FALSE ]

\* create_burner: the owner attests any key under a nonce it does not use.
CreateBurner(o, n, burner, ttl) ==
  /\ NotPaused
  /\ Unused(o, n)
  /\ ValidateBurnerTtl(ttl)
  /\ burners' = [burners EXCEPT ![<<o, n>>] = NewBurner(burner, ttl)]
  /\ EmitBurner(o, "BurnerCreated", burner, SatAdd(now, ttl))
  /\ UNCHANGED <<now, config, contexts>>

\* What `close = owner` leaves at the PDA.
\* Fault: the entry is marked revoked and not closed.
AfterDestroy_Kept(entry) == [entry EXCEPT !.revoked = TRUE]

AfterDestroy(entry) == NoAccount

\* destroy_burner: by the owner, before or after the entry expired, with a
\* proof that a balance is zero.
DestroyBurner(o, n, context, proof) ==
  /\ NotPaused
  /\ burners[<<o, n>>] # NoAccount
  /\ ~burners[<<o, n>>].revoked
  /\ VerifyAndStore(context, proof, "ZeroBalance")
  /\ burners' = [burners EXCEPT ![<<o, n>>] = AfterDestroy(burners[<<o, n>>])]
  /\ EmitBurner(o, "BurnerDestroyed", burners[<<o, n>>].burner_pubkey, now)
  /\ UNCHANGED <<now, config>>

BurnerNext ==
  \E o \in Owners, n \in Nonces :
    \/ \E b \in BurnerKeys, t \in Ttls : CreateBurner(o, n, b, t)
    \/ \E c \in Contexts, p \in Proof : DestroyBurner(o, n, c, p)

-----------------------------------------------------------------------------
\* burner_is_active of state.rs.
BurnerIsActive(entry) == ~entry.revoked /\ entry.expires_at > now

LiveEntries(o, burner) ==
  {n \in Nonces : burners[<<o, n>>] # NoAccount /\ burners[<<o, n>>].burner_pubkey = burner}

Emitted(o, type, burner) ==
  {i \in DOMAIN burnerLog[o] : burnerLog[o][i].type = type /\ burnerLog[o][i].burner = burner}

BurnerTypeOK ==
  /\ burners \in [Owners \X Nonces -> BurnerAccount \cup {NoAccount}]
  /\ burnerLog \in [Owners -> Seq(BurnerEvent)]

\* The events name the burner and not the nonce, and the same key may be
\* registered under several nonces: still, what was created and not destroyed
\* is what the registry holds, entry for entry.
LogCountsTheLiveEntries ==
  \A o \in Owners, b \in BurnerKeys :
    Cardinality(Emitted(o, "BurnerCreated", b))
      = Cardinality(LiveEntries(o, b)) + Cardinality(Emitted(o, "BurnerDestroyed", b))

\* "bounded lifetime (60 seconds to 30 days)" (docs/faq.md, 7): whatever was
\* created, closed and created again, an entry that burner_is_active accepts is
\* younger than the maximum.
ActiveBurnersAreYoung ==
  \A o \in Owners, n \in Nonces :
    burners[<<o, n>>] # NoAccount /\ BurnerIsActive(burners[<<o, n>>]) =>
      now - burners[<<o, n>>].created_at < BURNER_TTL_MAX_SECONDS

\* No step brings an entry back or lengthens its life: as long as it is not
\* closed, an entry keeps its key and its dates and, once inactive, is inactive.
LifetimesOnlyRunDown ==
  [][\A e \in Owners \X Nonces :
       burners[e] # NoAccount /\ burners'[e] # NoAccount =>
         /\ burners'[e] = burners[e]
         /\ BurnerIsActive(burners[e])' => BurnerIsActive(burners[e])]_<<now, burners>>
=============================================================================
