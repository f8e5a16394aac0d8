-------------------------------- MODULE Wire --------------------------------
(***************************************************************************)
(* What sdk/src/instructions and sdk/src/pdas.ts make of an instruction's  *)
(* parameters: the accounts it names and the bytes it carries; and how the *)
(* IDL reads the bytes back.  A key, a hash or half a ciphertext, 32 bytes *)
(* each, is one cell of the data; every other cell is a byte, of Radix     *)
(* values instead of 256.                                                  *)
(***************************************************************************)
EXTENDS Integers, Sequences, SequencesExt, Functions

CONSTANTS Radix,        \* the values of a byte
          SafeNumber,   \* what a `number` stays under, 2^53: BN refuses more
          ShortBytes    \* the byte strings of a length other than 32

LongBytes == 8          \* the bytes of a u64 and of an i64

Pow[n \in Nat] == IF n = 0 THEN 1 ELSE Radix * Pow[n - 1]

ASSUME WireAssumption ==
  /\ Radix \in Nat /\ Radix > 1
  /\ SafeNumber \in Nat /\ 2 * SafeNumber < Pow[LongBytes]

-----------------------------------------------------------------------------
(***************************************************************************)
(* The encoders.  BN writes the magnitude of a number: the sign is lost    *)
(* unless toTwos was applied; more bytes than asked for are refused, which *)
(* the callers of u64Le ask with U64Encodable.  u16, u8 and u32 wrap.      *)
(***************************************************************************)
Magnitude(v) == IF v < 0 THEN -v ELSE v

LittleEndian(v, size) == [i \in 1 .. size |-> (v \div Pow[i - 1]) % Radix]

U64Encodable(v) == Magnitude(v) < Pow[LongBytes]

I64Encodable(v) == Magnitude(v) < SafeNumber

u64Le(v) == LittleEndian(Magnitude(v), LongBytes)

(* Fault: the two's complement is forgotten.                               *)
i64Le_Unsigned(v) == u64Le(v)

i64Le(v) == LittleEndian(IF v < 0 THEN Pow[LongBytes] + v ELSE v, LongBytes)

u16Le(v) == LittleEndian(v % Pow[2], 2)

u8Le(v) == <<v % Radix>>

encodeU32Le(v) == LittleEndian(v % Pow[4], 4)

encodeBool(b) == <<IF b THEN 1 ELSE 0>>

encodeVec(indices) ==
  encodeU32Le(Len(indices)) \o [i \in 1 .. Len(indices) |-> indices[i] % Radix]

(* An optional value is a sequence of at most one; its encodings likewise.  *)
encodeOption(encodings) ==
  IF encodings = <<>> THEN <<0>> ELSE <<1>> \o encodings[1]

Is32Bytes(v) == v \notin ShortBytes

-----------------------------------------------------------------------------
(***************************************************************************)
(* Program addresses.  Different seeds give different addresses, up to the *)
(* border between one seed and the next: an address is the seeds, joined.  *)
(* The program id is one and the same in all of them.                      *)
(***************************************************************************)
findPda(seeds) == FlattenSeq(seeds)

deriveConfigPda == findPda(<< <<"ghos.config">> >>)

derivePaddingVaultPda == findPda(<< <<"ghos.padding">> >>)

deriveAuditorPda(mint) == findPda(<< <<"ghos.auditor">>, <<mint>> >>)

(* Fault: an entry is found by its nonce alone.                            *)
deriveBurnerPda_Ownerless(owner, nonce) == findPda(<< <<"ghos.burner">>, u64Le(nonce) >>)

deriveBurnerPda(owner, nonce) ==
  findPda(<< <<"ghos.burner">>, <<owner>>, u64Le(nonce) >>)

deriveMixRoundPda(host, mint, nonce) ==
  findPda(<< <<"ghos.mix.round">>, <<host>>, <<mint>>, u64Le(nonce) >>)

deriveMixCommitmentPda(round, participant) ==
  findPda(<< <<"ghos.mix.commit">>, <<round>>, <<participant>> >>)

(* An associated token account, of the token program's derivation.         *)
deriveAta(mint, owner) == findPda(<< <<owner>>, <<"token">>, <<mint>> >>)

(* The round account of the program's own mix_init.                        *)
ProgramMixRoundPda(mint, roundId) ==
  findPda(<< <<"ghos.mix.round">>, <<mint>>, u64Le(roundId) >>)

-----------------------------------------------------------------------------
(***************************************************************************)
(* An instruction: its name for the discriminator, its accounts, its data. *)
(***************************************************************************)
Signs(key) == [pubkey |-> key, isSigner |-> TRUE, isWritable |-> TRUE]
Writes(key) == [pubkey |-> key, isSigner |-> FALSE, isWritable |-> TRUE]
Reads(key) == [pubkey |-> key, isSigner |-> FALSE, isWritable |-> FALSE]

System == Reads(<<"system">>)
Token2022 == Reads(<<"token">>)
ZkProof == Reads(<<"zk">>)

Instruction(name, keys, data) == [name |-> name, keys |-> keys, data |-> data]

(* knobs gives each parameter of initialize its value, given or default.   *)
buildInitializeInstruction(admin, knobs) ==
  Instruction("initialize", <<Signs(admin), Writes(deriveConfigPda), System>>,
    u64Le(knobs.dustFreeUnit) \o i64Le(knobs.burnerTtlMin) \o i64Le(knobs.burnerTtlMax)
      \o u16Le(knobs.burnerRegistryCap)
      \o u8Le(knobs.mixMinParticipants) \o u8Le(knobs.mixMaxParticipants)
      \o i64Le(knobs.mixRevealWindow) \o u64Le(knobs.auditorCosignLamports))

buildShieldInstruction(owner, mint, sourceAta, destination, amount) ==
  Instruction("shield",
    <<Signs(owner), Reads(mint), Writes(sourceAta), Writes(destination),
      Reads(deriveConfigPda), Writes(derivePaddingVaultPda), Token2022, System>>,
    u64Le(amount))

(* ctx: the accounts the caller prepared; c: the ciphertexts' four halves. *)
buildConfidentialTransferInstruction(owner, mint, ctx, auditor, handles, c) ==
  Instruction("confidentialTransfer",
    <<Signs(owner), Reads(mint), Writes(ctx.source), Writes(ctx.destination),
      Reads(ctx.toOwner), Reads(ctx.range), Reads(ctx.equality), Reads(auditor),
      Reads(deriveConfigPda), ZkProof, Token2022>>,
    encodeU32Le(handles[1]) \o encodeU32Le(handles[2])
      \o <<c[1]>> \o <<c[2]>> \o <<c[3]>> \o <<c[4]>>)

buildApplyPendingInstruction(owner, mint, account) ==
  Instruction("applyPending",
    <<Signs(owner), Reads(mint), Writes(account), Reads(deriveConfigPda), Token2022>>, <<>>)

buildWithdrawInstruction(owner, mint, source, destination, amount, requireAuditor, auditor) ==
  Instruction("withdraw",
    <<Signs(owner), Reads(mint), Writes(source), Writes(destination),
      Reads(deriveConfigPda), Reads(auditor), ZkProof, Token2022>>,
    u64Le(amount) \o encodeBool(requireAuditor))

buildCreateBurnerInstruction(owner, burnerPubkey, nonce, ttlSeconds) ==
  Instruction("createBurner",
    <<Signs(owner), Writes(deriveBurnerPda(owner, nonce)), System>>,
    u64Le(nonce) \o <<burnerPubkey>> \o i64Le(ttlSeconds))

buildDestroyBurnerInstruction(owner, entry) ==
  Instruction("destroyBurner", <<Signs(owner), Writes(entry)>>, <<>>)

buildMixInitInstruction(host, mint, nonce, denomination, capacity, window) ==
  Instruction("mixInit",
    <<Signs(host), Reads(mint), Writes(deriveMixRoundPda(host, mint, nonce)), System>>,
    u64Le(nonce) \o u64Le(denomination) \o u8Le(capacity) \o i64Le(window))

buildMixCommitInstruction(participant, round, commitment, index) ==
  Instruction("mixCommit",
    <<Signs(participant), Writes(round),
      Writes(deriveMixCommitmentPda(round, participant)), System>>,
    <<commitment>> \o u8Le(index))

buildMixRevealInstruction(participant, round, signal, salt) ==
  Instruction("mixReveal",
    <<Signs(participant), Writes(round), Writes(deriveMixCommitmentPda(round, participant))>>,
    <<signal>> \o <<salt>>)

buildMixSettleInstruction(host, round, indices) ==
  Instruction("mixSettle",
    <<Signs(host), Writes(round), Reads(deriveConfigPda)>>, encodeVec(indices))

buildAuditorRegisterInstruction(admin, mint, pubkey, cooldown) ==
  Instruction("auditorRegister",
    <<Signs(admin), Reads(mint), Writes(deriveAuditorPda(mint)), Reads(deriveConfigPda), System>>,
    <<pubkey>> \o i64Le(cooldown))

buildAuditorRotateInstruction(admin, mint, pubkey) ==
  Instruction("auditorRotate",
    <<Signs(admin), Reads(mint), Writes(deriveAuditorPda(mint)), Reads(deriveConfigPda)>>,
    <<pubkey>>)

CONFIG_FIELD_CODES ==
  [paused |-> 0, dustFreeUnit |-> 1, burnerTtlMax |-> 2, burnerTtlMin |-> 3,
   burnerRegistryCap |-> 4, mixMinParticipants |-> 5, mixMaxParticipants |-> 6,
   mixRevealWindow |-> 7, auditorCosignLamports |-> 8]

(* values: the five typed options, each of at most one value.              *)
buildConfigUpdateInstruction(admin, field, values) ==
  Instruction("configUpdate",
    <<Signs(admin), Writes(deriveConfigPda)>>,
    u8Le(CONFIG_FIELD_CODES[field])
      \o encodeOption([i \in DOMAIN values.u64 |-> u64Le(values.u64[i])])
      \o encodeOption([i \in DOMAIN values.i64 |-> i64Le(values.i64[i])])
      \o encodeOption([i \in DOMAIN values.bool |-> encodeBool(values.bool[i])])
      \o encodeOption([i \in DOMAIN values.u16 |-> u16Le(values.u16[i])])
      \o encodeOption([i \in DOMAIN values.u8 |-> u8Le(values.u8[i])]))

-----------------------------------------------------------------------------
(***************************************************************************)
(* The arguments of each instruction by the IDL, sdk/src/idl/ghos.json.    *)
(***************************************************************************)
IdlArgs ==
  [initialize |-> <<"u64", "i64", "i64", "u16", "u8", "u8", "i64", "u64">>,
   shield |-> <<"u64">>,
   confidentialTransfer |-> <<"u32", "u32", "bytes", "bytes", "bytes", "bytes">>,
   applyPending |-> <<>>,
   withdraw |-> <<"u64", "bool">>,
   createBurner |-> <<"u64", "bytes", "i64">>,
   destroyBurner |-> <<>>,
   mixInit |-> <<"u64", "u64", "u8", "i64">>,
   mixCommit |-> <<"bytes", "u8">>,
   mixReveal |-> <<"bytes", "bytes">>,
   mixSettle |-> <<"vec">>,
   auditorRegister |-> <<"bytes", "i64">>,
   auditorRotate |-> <<"bytes">>,
   configUpdate |-> <<"u8", "option u64", "option i64", "option bool", "option u16", "option u8">>]

Plain == {"u8", "u16", "u32", "u64", "i64", "bool", "bytes"}

(* The type an option is of.                                               *)
Optional ==
  [t \in {"option u64", "option i64", "option bool", "option u16", "option u8"} |->
     CASE t = "option u64" -> "u64"
       [] t = "option i64" -> "i64"
       [] t = "option bool" -> "bool"
       [] t = "option u16" -> "u16"
       [] t = "option u8" -> "u8"]

SizeOf == [t \in Plain |-> CASE t \in {"u64", "i64"} -> LongBytes
                             [] t = "u32" -> 4
                             [] t = "u16" -> 2
                             [] OTHER -> 1]

(* The number that has these digits, the lowest of them first.             *)
Number(bytes) ==
  LET upTo[k \in 0 .. Len(bytes)] ==
        IF k = 0 THEN 0 ELSE upTo[k - 1] + bytes[k] * Pow[k - 1]
  IN  upTo[Len(bytes)]

(* A plain value in the cells it takes.                                    *)
ReadPlain(type, cells) ==
  CASE type = "bytes" -> cells[1]
    [] type = "bool" -> cells[1] = 1
    [] type = "i64" -> LET n == Number(cells)
                       IN  IF 2 * n < Pow[LongBytes] THEN n ELSE n - Pow[LongBytes]
    [] OTHER -> Number(cells)

(* The value of a type at the head of data, and the cells it takes.        *)
ReadValue(type, data) ==
  IF type \in Plain
    THEN [value |-> ReadPlain(type, SubSeq(data, 1, SizeOf[type])), size |-> SizeOf[type]]
  ELSE IF type = "vec"
    THEN LET length == Number(SubSeq(data, 1, 4))
         IN  [value |-> SubSeq(data, 5, 4 + length), size |-> 4 + length]
  ELSE IF data[1] = 0
    THEN [value |-> <<>>, size |-> 1]
  ELSE LET plain == Optional[type]
       IN  [value |-> <<ReadPlain(plain, SubSeq(data, 2, 1 + SizeOf[plain]))>>,
            size |-> 1 + SizeOf[plain]]

(* Borsh by the IDL: the arguments one after another, what is read of them *)
(* and what is left over.                                                  *)
ReadNext(type, before) ==
  LET next == ReadValue(type, before.rest)
  IN  [values |-> Append(before.values, next.value),
       rest |-> SubSeq(before.rest, next.size + 1, Len(before.rest))]

Reading(name, data) ==
  LET read[k \in 0 .. Len(IdlArgs[name])] ==
        IF k = 0 THEN [values |-> <<>>, rest |-> data]
                 ELSE ReadNext(IdlArgs[name][k], read[k - 1])
  IN  read

Decode(name, data) == Reading(name, data)[Len(IdlArgs[name])]
=============================================================================
