----------------------------- MODULE GhosClient -----------------------------
(***************************************************************************)
(* The methods of GhosClient, sdk/src/client.ts, up to the transaction     *)
(* they hand to sendAndConfirmWithRetry, and what they answer when it      *)
(* succeeds.  A call that throws before that leaves nothing behind and is  *)
(* no step here; how a transaction is sent, and sent again, is in          *)
(* SdkSubmission.                                                          *)
(***************************************************************************)
EXTENDS Wire, FiniteSets

CONSTANTS Wallets,      \* the keys that can sign
          NoKey,        \* auditorOverride not given
          Mints, OldMints,    \* the Token-2022 mints and the others
          Rounds, Entries, Accounts,    \* addresses callers pass
          Bytes,        \* 32-byte strings
          InitParams,   \* what callers give initialize: functions on some of the knobs
          Updates,      \* and configUpdate: functions on some of the fields
          Amounts, Nonces, Ttls, Indices, Capacities, IndexLists, Handles,
          DefaultKnobs, \* the knobs of constants.ts
          DefaultWindow, DefaultCooldown,
          MinMix, MaxMix,       \* 4 and 16, in client.ts
          MaxCalls      \* bound on the calls

KnobNames ==
  {"dustFreeUnit", "burnerTtlMin", "burnerTtlMax", "burnerRegistryCap", "mixMinParticipants",
   "mixMaxParticipants", "mixRevealWindow", "auditorCosignLamports"}

(* What the types of the parameters say; a vector's length is a u32.       *)
ASSUME GhosClientAssumption ==
  /\ DefaultKnobs \in [KnobNames -> Int]
  /\ \A p \in InitParams : DOMAIN p \subseteq KnobNames /\ \A k \in DOMAIN p : p[k] \in Int
  /\ \A u \in Updates :
       /\ DOMAIN u \subseteq KnobNames \cup {"paused"}
       /\ \A k \in DOMAIN u : IF k = "paused" THEN u[k] \in BOOLEAN ELSE u[k] \in Int
  /\ Amounts \cup Nonces \cup Ttls \cup Indices \cup Capacities \subseteq Int
  /\ {DefaultWindow, DefaultCooldown} \subseteq Int
  /\ \A l \in IndexLists : l \in Seq(Int) /\ Len(l) < Pow[4]
  /\ Handles \subseteq Int \X Int

VARIABLES options,      \* what the client was built with
          calls         \* the calls it answered

clientVars == <<options, calls>>

(* The constructor.                                                        *)
ClientInit ==
  /\ options \in [payer : Wallets, auditorOverride : Accounts \cup {NoKey}]
  /\ calls = <<>>

auditorPda(mint) ==
  IF options.auditorOverride # NoKey THEN options.auditorOverride ELSE deriveAuditorPda(mint)

(* Fault: only the payer signs.                                            *)
extraSigners_None(who) == <<>>

extraSigners(who) == IF who = options.payer THEN <<>> ELSE <<who>>

(***************************************************************************)
(* A call that got through: `asked` are the arguments of the call as its   *)
(* caller means them, `about` what the call makes or changes, `answer` the *)
(* address in the result, if there is one.                                 *)
(***************************************************************************)
sendIx(who, ix, asked, about, answer) ==
  /\ calls' = Append(calls, [ix |-> ix, signers |-> <<options.payer>> \o extraSigners(who),
                             asked |-> asked, about |-> about, answer |-> answer])
  /\ UNCHANGED options

(* clampU64 and assertPositiveAmount.                                      *)
IsAmount(v) == 0 < v /\ v < Pow[LongBytes]

-----------------------------------------------------------------------------
initialize(admin, params) ==
  LET knobs == [k \in KnobNames |-> IF k \in DOMAIN params THEN params[k] ELSE DefaultKnobs[k]]
  IN  /\ \A k \in {"dustFreeUnit", "auditorCosignLamports"} : U64Encodable(knobs[k])
      /\ \A k \in {"burnerTtlMin", "burnerTtlMax", "mixRevealWindow"} : I64Encodable(knobs[k])
      /\ sendIx(admin, buildInitializeInstruction(admin, knobs),
                <<knobs.dustFreeUnit, knobs.burnerTtlMin, knobs.burnerTtlMax,
                  knobs.burnerRegistryCap, knobs.mixMinParticipants,
                  knobs.mixMaxParticipants, knobs.mixRevealWindow,
                  knobs.auditorCosignLamports>>,
                <<"config">>, <<deriveConfigPda>>)

(* probeToken22Mint answers for the Token-2022 mints only.                 *)
shield(owner, mint, amount, sourceAta) ==
  LET ata == deriveAta(mint, owner)
  IN  /\ IsAmount(amount)
      /\ amount % DefaultKnobs.dustFreeUnit = 0
      /\ mint \in Mints
      /\ sendIx(owner,
                buildShieldInstruction(owner, mint, IF sourceAta = NoKey THEN ata ELSE sourceAta,
                                       ata, amount),
                <<amount>>, <<"balance", mint, owner>>, <<>>)

(* ctx and the ciphertexts come from the caller; the amount is not sent.   *)
confidentialTransfer(owner, mint, amount, ctx, handles, c) ==
  /\ IsAmount(amount)
  /\ \A half \in ToSet(c) : Is32Bytes(half)
  /\ sendIx(owner,
            buildConfidentialTransferInstruction(owner, mint, ctx, auditorPda(mint), handles, c),
            <<handles[1], handles[2], c[1], c[2], c[3], c[4]>>,
            <<"balance", mint, owner>>, <<ctx.range>>)

applyPending(owner, mint) ==
  sendIx(owner, buildApplyPendingInstruction(owner, mint, deriveAta(mint, owner)),
         <<>>, <<"balance", mint, owner>>, <<>>)

withdraw(owner, mint, amount, destinationAta, requireAuditor) ==
  LET ata == deriveAta(mint, owner)
  IN  /\ IsAmount(amount)
      /\ sendIx(owner,
                buildWithdrawInstruction(owner, mint, ata,
                                         IF destinationAta = NoKey THEN ata ELSE destinationAta,
                                         amount, requireAuditor, auditorPda(mint)),
                <<amount, requireAuditor>>, <<"balance", mint, owner>>, <<>>)

(* Without a nonce and a key of the caller's, both are drawn at random.    *)
createBurner(owner, burnerPubkey, nonce, ttlSeconds) ==
  /\ U64Encodable(nonce)
  /\ I64Encodable(ttlSeconds)
  /\ sendIx(owner, buildCreateBurnerInstruction(owner, burnerPubkey, nonce, ttlSeconds),
            <<nonce, burnerPubkey, ttlSeconds>>,
            <<"burner", owner, nonce>>, <<deriveBurnerPda(owner, nonce)>>)

destroyBurner(owner, entry) ==
  sendIx(owner, buildDestroyBurnerInstruction(owner, entry), <<>>, <<"entry", entry>>, <<>>)

mixInit(host, mint, nonce, denomination, capacity, window) ==
  /\ IsAmount(denomination)
  /\ capacity \in MinMix .. MaxMix
  /\ U64Encodable(nonce)
  /\ I64Encodable(window)
  /\ sendIx(host, buildMixInitInstruction(host, mint, nonce, denomination, capacity, window),
            <<nonce, denomination, capacity, window>>,
            <<"round", host, mint, nonce>>, <<deriveMixRoundPda(host, mint, nonce)>>)

mixCommit(participant, round, commitment, index) ==
  /\ Is32Bytes(commitment)
  /\ sendIx(participant, buildMixCommitInstruction(participant, round, commitment, index),
            <<commitment, index>>,
            <<"commitment", round, participant>>,
            <<deriveMixCommitmentPda(round, participant)>>)

mixReveal(participant, round, signal, salt) ==
  /\ Is32Bytes(signal) /\ Is32Bytes(salt)
  /\ sendIx(participant, buildMixRevealInstruction(participant, round, signal, salt),
            <<signal, salt>>, <<"commitment", round, participant>>, <<>>)

mixSettle(host, round, indices) ==
  /\ Len(indices) >= MinMix
  /\ sendIx(host, buildMixSettleInstruction(host, round, indices),
            <<indices>>, <<"settled", round>>, <<>>)

auditorRegister(admin, mint, pubkey, cooldown) ==
  /\ Is32Bytes(pubkey)
  /\ I64Encodable(cooldown)
  /\ sendIx(admin, buildAuditorRegisterInstruction(admin, mint, pubkey, cooldown),
            <<pubkey, cooldown>>, <<"auditor", mint>>, <<auditorPda(mint)>>)

auditorRotate(admin, mint, pubkey) ==
  /\ Is32Bytes(pubkey)
  /\ sendIx(admin, buildAuditorRotateInstruction(admin, mint, pubkey),
            <<pubkey>>, <<"auditor", mint>>, <<>>)

-----------------------------------------------------------------------------
(***************************************************************************)
(* An update takes the first of the fields that are given, in this order,  *)
(* and leaves the others out.                                              *)
(***************************************************************************)
FieldOrder ==
  <<"paused", "dustFreeUnit", "burnerTtlMax", "burnerTtlMin", "burnerRegistryCap",
    "mixMinParticipants", "mixMaxParticipants", "mixRevealWindow", "auditorCosignLamports">>

FieldType(field) ==
  CASE field = "paused" -> "bool"
    [] field \in {"dustFreeUnit", "auditorCosignLamports"} -> "u64"
    [] field \in {"burnerTtlMax", "burnerTtlMin", "mixRevealWindow"} -> "i64"
    [] field = "burnerRegistryCap" -> "u16"
    [] field \in {"mixMinParticipants", "mixMaxParticipants"} -> "u8"

pickFieldFromUpdate(params) ==
  LET given == {i \in DOMAIN FieldOrder : FieldOrder[i] \in DOMAIN params}
  IN  FieldOrder[CHOOSE i \in given : \A j \in given : i <= j]

(* The five options of the instruction with one of them set.               *)
Only(type, value) ==
  [t \in {"u64", "i64", "bool", "u16", "u8"} |-> IF t = type THEN <<value>> ELSE <<>>]

configUpdate(admin, params) ==
  /\ DOMAIN params # {}
  /\ LET field == pickFieldFromUpdate(params)
         type == FieldType(field)
         values == Only(type, params[field])
     IN  /\ type = "u64" => U64Encodable(params[field])
         /\ type = "i64" => I64Encodable(params[field])
         /\ sendIx(admin, buildConfigUpdateInstruction(admin, field, values),
                   <<CONFIG_FIELD_CODES[field], values.u64, values.i64, values.bool,
                     values.u16, values.u8>>,
                   <<"config">>, <<>>)

ClientNext ==
  /\ Len(calls) < MaxCalls
  /\ \E who \in Wallets :
      \/ \E params \in InitParams : initialize(who, params)
      \/ \E params \in Updates : configUpdate(who, params)
      \/ \E mint \in Mints \cup OldMints, amount \in Amounts, ata \in {NoKey} \cup Accounts :
           \/ shield(who, mint, amount, ata)
           \/ \E requireAuditor \in BOOLEAN : withdraw(who, mint, amount, ata, requireAuditor)
      \/ \E mint \in Mints, a \in Accounts, amount \in Amounts, handles \in Handles, b \in Bytes :
           confidentialTransfer(who, mint, amount,
             [source |-> a, destination |-> deriveAta(mint, who), toOwner |-> who,
              range |-> a, equality |-> a], handles, <<b, b, b, b>>)
      \/ \E mint \in Mints : applyPending(who, mint)
      \/ \E key \in Bytes, nonce \in Nonces, ttl \in Ttls : createBurner(who, key, nonce, ttl)
      \/ \E entry \in Entries : destroyBurner(who, entry)
      \/ \E mint \in Mints, nonce \in Nonces, amount \in Amounts, capacity \in Capacities :
           mixInit(who, mint, nonce, amount, capacity, DefaultWindow)
      \/ \E round \in Rounds, bytes \in Bytes \cup ShortBytes :
           \/ \E index \in Indices : mixCommit(who, round, bytes, index)
           \/ \E salt \in Bytes : mixReveal(who, round, bytes, salt)
      \/ \E round \in Rounds, indices \in IndexLists : mixSettle(who, round, indices)
      \/ \E mint \in Mints, pubkey \in Bytes \cup ShortBytes :
           \/ \E cooldown \in Ttls \cup {DefaultCooldown} :
                auditorRegister(who, mint, pubkey, cooldown)
           \/ auditorRotate(who, mint, pubkey)

ClientSpec == ClientInit /\ [][ClientNext]_clientVars

-----------------------------------------------------------------------------
(* Whether a value is one of its type's; the i64 are all within SafeNumber. *)
InRange(type, v) ==
  LET Values == [t \in {"u8", "u16", "u32"} |-> 0 .. Pow[SizeOf[t]] - 1]
  IN  CASE type = "u64" -> v >= 0
        [] type \in DOMAIN Values -> v \in Values[type]
        [] type = "vec" -> Range(v) \subseteq Values["u8"]
        [] type = "option u64" -> \A i \in DOMAIN v : v[i] >= 0
        [] type = "option u16" -> Range(v) \subseteq Values["u16"]
        [] type = "option u8" -> Range(v) \subseteq Values["u8"]
        [] OTHER -> TRUE

(* Every call is looked at when it is made.                                *)
LastCall == IF calls = <<>> THEN {} ELSE {Last(calls)}

SaysWhatWasAsked(call) ==
  LET read == Decode(call.ix.name, call.ix.data)
      types == IdlArgs[call.ix.name]
  IN  /\ read.rest = <<>>
      /\ \A i \in DOMAIN types :
           InRange(types[i], call.asked[i]) => read.values[i] = call.asked[i]

(***************************************************************************)
(* What the IDL reads in an instruction of the client's is what the caller *)
(* asked for, argument by argument, with nothing left over.  Only an       *)
(* argument its own type cannot hold is read as another, and it disturbs   *)
(* none of the others: a negative u64 loses its sign, a small integer      *)
(* wraps.                                                                  *)
(***************************************************************************)
TheWireSaysWhatWasAsked == \A call \in LastCall : SaysWhatWasAsked(call)

SignedAndNamed(call) ==
  LET keys == {call.ix.keys[i] : i \in DOMAIN call.ix.keys}
  IN  /\ ToSet(call.signers)
           = {options.payer} \cup {a.pubkey : a \in {a \in keys : a.isSigner}}
      /\ Cardinality(ToSet(call.signers)) = Len(call.signers)
      /\ \/ ToSet(call.answer) \subseteq {a.pubkey : a \in keys}
         \/ call.ix.name = "auditorRegister" /\ options.auditorOverride # NoKey

(***************************************************************************)
(* A transaction is signed by the payer and by whoever its instruction     *)
(* says signs, each of them once, and the address a method answers with is *)
(* an account of its instruction, except for an auditor entry the client   *)
(* was told to use in place of the one auditorRegister goes to.            *)
(***************************************************************************)
TransactionsAreSignedAndNamed == \A call \in LastCall : SignedAndNamed(call)

(* Nonces are u64: a caller's negative one stands for its magnitude.       *)
Unsigned(about) ==
  IF about[1] \in {"burner", "round"}
    THEN [about EXCEPT ![Len(about)] = Magnitude(@)]
    ELSE about

(* The calls whose answer is an address the client derives, not one that   *)
(* its caller gave it.                                                     *)
DerivedKinds ==
  {"config", "burner", "round", "commitment"}
    \cup (IF options.auditorOverride = NoKey THEN {"auditor"} ELSE {})

(***************************************************************************)
(* Two calls that answer with the same address of the client's making are  *)
(* about the same thing: the burner of one owner and nonce, the round of   *)
(* one host, mint and nonce, the commitment of one participant in one      *)
(* round, the auditor of one mint.                                         *)
(***************************************************************************)
AddressesTellCallsApart ==
  \A a \in LastCall : \A k \in DOMAIN calls :
    /\ {a.about[1], calls[k].about[1]} \subseteq DerivedKinds
    /\ a.answer # <<>> /\ a.answer = calls[k].answer
    => Unsigned(a.about) = Unsigned(calls[k].about)

(***************************************************************************)
(* What pdas.ts says of its derivations: the round account a client names  *)
(* is the one the program derives from the instruction.                    *)
(***************************************************************************)
DerivationsStayInSync ==
  \A call \in LastCall :
    call.ix.name = "mixInit" =>
      ProgramMixRoundPda(call.about[3], call.about[4])
        \in {call.ix.keys[i].pubkey : i \in DOMAIN call.ix.keys}
=============================================================================
