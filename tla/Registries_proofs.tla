-------------------------- MODULE Registries_proofs -------------------------
(***************************************************************************)
(* Theorems about Registries, for every set of mints, owners, keys and     *)
(* contexts, every cooldown and every time to live.  Each registry has an  *)
(* inductive invariant of its own, because the steps of one leave the      *)
(* accounts of the other alone; the clock only grows under both.           *)
(***************************************************************************)
EXTENDS Registries, GhosConfig_proofs, SequenceTheorems, FiniteSetTheorems

(* A transaction reads the clock and leaves it; a tick moves it on.         *)
ClockStep == now \in Time /\ now' \in Time /\ now <= now'

LEMMA NextIsAClockStep ==
  ASSUME now \in Time, [Next]_vars
  PROVE  ClockStep
<1>1. CASE Tick
  BY <1>1, ClockAssumption DEF Tick, ClockStep, Time
<1>2. CASE now' = now
  BY <1>2 DEF ClockStep, Time
<1>3. QED
  BY <1>1, <1>2
  DEF Next, vars, AuditorNext, AuditorRegister, AuditorRotate, BurnerNext, CreateBurner,
      DestroyBurner

-----------------------------------------------------------------------------
(***************************************************************************)
(* The auditor registry.                                                   *)
(***************************************************************************)
AuditorInv == AuditorTypeOK /\ LogTellsTheKeyHistory /\ RotationsAreSpaced

Event(old, new) == [old_pubkey |-> old, new_pubkey |-> new, timestamp |-> now]

(* What Emit does to the log of its mint and to the others.                *)
LEMMA EmitFacts ==
  ASSUME AuditorTypeOK, now \in Time, NEW m \in Mints, NEW old \in AuditorKeys \cup {NoKey},
         NEW new \in AuditorKeys, Emit(m, old, new)
  PROVE  /\ auditorLog' \in [Mints -> Seq(AuditorEvent)]
         /\ Len(auditorLog[m]) \in Nat
         /\ Len(auditorLog'[m]) = Len(auditorLog[m]) + 1
         /\ \A i \in 1 .. Len(auditorLog[m]) : auditorLog'[m][i] = auditorLog[m][i]
         /\ auditorLog'[m][Len(auditorLog[m]) + 1].old_pubkey = old
         /\ auditorLog'[m][Len(auditorLog[m]) + 1].new_pubkey = new
         /\ auditorLog'[m][Len(auditorLog[m]) + 1].timestamp = now
         /\ \A n \in Mints \ {m} : auditorLog'[n] = auditorLog[n]
<1>1. Event(old, new) \in AuditorEvent
  BY DEF Event, AuditorEvent
<1>2. Event(old, new).old_pubkey = old /\ Event(old, new).new_pubkey = new
      /\ Event(old, new).timestamp = now
  BY DEF Event
<1>3. auditorLog[m] \in Seq(AuditorEvent)
  BY DEF AuditorTypeOK
<1>4. auditorLog' = [auditorLog EXCEPT ![m] = Append(auditorLog[m], Event(old, new))]
  BY DEF Emit, Event
<1>5. /\ Append(auditorLog[m], Event(old, new)) \in Seq(AuditorEvent)
      /\ Len(Append(auditorLog[m], Event(old, new))) = Len(auditorLog[m]) + 1
      /\ \A i \in 1 .. Len(auditorLog[m]) :
           Append(auditorLog[m], Event(old, new))[i] = auditorLog[m][i]
      /\ Append(auditorLog[m], Event(old, new))[Len(auditorLog[m]) + 1] = Event(old, new)
  BY <1>1, <1>3, AppendProperties
<1>6. /\ auditorLog'[m] = Append(auditorLog[m], Event(old, new))
      /\ \A n \in Mints \ {m} : auditorLog'[n] = auditorLog[n]
  BY <1>4 DEF AuditorTypeOK
<1>7. auditorLog' \in [Mints -> Seq(AuditorEvent)]
  BY <1>4, <1>5 DEF AuditorTypeOK
<1>8. Len(auditorLog[m]) \in Nat
  BY <1>3, LenProperties
<1>9. QED
  BY <1>2, <1>5, <1>6, <1>7, <1>8

(* The conjuncts of the two properties for one mint, which the step on the  *)
(* registry of another mint does not touch.                                *)
HistoryOf(m) ==
  LET log == auditorLog[m] IN
  /\ auditors[m] = NoAccount <=> log = <<>>
  /\ auditors[m] # NoAccount =>
       /\ log[1].old_pubkey = NoKey
       /\ log[1].timestamp = auditors[m].registered_at
       /\ log[Len(log)].new_pubkey = auditors[m].auditor_pubkey
       /\ log[Len(log)].timestamp = auditors[m].last_rotated_at
  /\ \A i \in 2 .. Len(log) : log[i].old_pubkey = log[i - 1].new_pubkey

SpacedOf(m) ==
  \A i \in 2 .. Len(auditorLog[m]) :
    auditorLog[m][i].timestamp - auditorLog[m][i - 1].timestamp >= auditors[m].rotation_cooldown

(* They are the two properties.                                            *)
LEMMA OneMintAtATime ==
  /\ LogTellsTheKeyHistory <=> \A m \in Mints : HistoryOf(m)
  /\ RotationsAreSpaced <=> \A m \in Mints : SpacedOf(m)
BY DEF LogTellsTheKeyHistory, RotationsAreSpaced, HistoryOf, SpacedOf

(* A registration starts the history of its mint.                          *)
LEMMA RegisterKeepsAuditorInv ==
  ASSUME AuditorInv, now \in Time, NEW s \in Admins, NEW m \in Mints, NEW k \in AuditorKeys,
         NEW d \in Cooldowns, NEW c \in Contexts, NEW proof \in Proof,
         AuditorRegister(s, m, k, d, c, proof)
  PROVE  AuditorInv'
<1>1. AuditorTypeOK /\ Emit(m, NoKey, k) /\ auditors[m] = NoAccount
  BY DEF AuditorInv, AuditorRegister, Unregistered
<1> DEFINE entry == NewAuditor(s, k, d)
<1>2. entry \in AuditorEntry
  BY ConfigAssumption, AuditorAssumption DEF NewAuditor, AuditorEntry
<1>3. entry.auditor_pubkey = k /\ entry.registered_at = now /\ entry.last_rotated_at = now
  BY DEF NewAuditor
<1>4. entry # NoAccount
  BY <1>2, AuditorAssumption
<1>5. auditors' = [auditors EXCEPT ![m] = entry]
  BY DEF AuditorRegister
<1> HIDE DEF entry
<1>6. auditors'[m] = entry /\ \A n \in Mints \ {m} : auditors'[n] = auditors[n]
  BY <1>1, <1>5 DEF AuditorTypeOK
<1>7. AuditorTypeOK'
  BY <1>1, <1>2, <1>5, EmitFacts DEF AuditorTypeOK
<1>8. Len(auditorLog[m]) = 0
  BY <1>1, OneMintAtATime DEF AuditorInv, HistoryOf
<1>9. /\ Len(auditorLog'[m]) = 1
      /\ auditorLog'[m][1].old_pubkey = NoKey
      /\ auditorLog'[m][1].new_pubkey = k
      /\ auditorLog'[m][1].timestamp = now
      /\ \A n \in Mints \ {m} : auditorLog'[n] = auditorLog[n]
  <2>1. NoKey \in AuditorKeys \cup {NoKey}
    OBVIOUS
  <2>2. /\ Len(auditorLog'[m]) = Len(auditorLog[m]) + 1
        /\ auditorLog'[m][Len(auditorLog[m]) + 1].old_pubkey = NoKey
        /\ auditorLog'[m][Len(auditorLog[m]) + 1].new_pubkey = k
        /\ auditorLog'[m][Len(auditorLog[m]) + 1].timestamp = now
        /\ \A n \in Mints \ {m} : auditorLog'[n] = auditorLog[n]
    BY <1>1, <2>1, EmitFacts
  <2>3. Len(auditorLog[m]) + 1 = 1
    BY <1>8
  <2>4. QED
    BY <2>2, <2>3
<1>10. auditorLog'[m] # <<>>
  BY <1>9
<1>11. HistoryOf(m)' /\ SpacedOf(m)'
  BY <1>3, <1>4, <1>6, <1>9, <1>10 DEF HistoryOf, SpacedOf
<1>12. ASSUME NEW n \in Mints \ {m}
       PROVE  HistoryOf(n)' /\ SpacedOf(n)'
  <2>1. auditorLog'[n] = auditorLog[n] /\ auditors'[n] = auditors[n]
    BY <1>6, <1>9
  <2>2. HistoryOf(n) /\ SpacedOf(n)
    BY OneMintAtATime DEF AuditorInv
  <2>3. QED
    BY <2>1, <2>2 DEF HistoryOf, SpacedOf
<1>13. \A n \in Mints : HistoryOf(n)' /\ SpacedOf(n)'
  BY <1>11, <1>12
<1>14. LogTellsTheKeyHistory' /\ RotationsAreSpaced'
  BY <1>13 DEF LogTellsTheKeyHistory, RotationsAreSpaced, HistoryOf, SpacedOf
<1>15. QED
  BY <1>7, <1>14 DEF AuditorInv

(* A rotation lengthens it: the guard measures the distance from the last   *)
(* event, because the account remembers when that was.                     *)
LEMMA RotateKeepsAuditorInv ==
  ASSUME AuditorInv, now \in Time, NEW s \in Admins, NEW m \in Mints, NEW k \in AuditorKeys,
         NEW c \in Contexts, NEW proof \in Proof,
         AuditorRotate(s, m, k, c, proof)
  PROVE  AuditorInv'
<1> DEFINE old == auditors[m]
           entry == Rotated(old, k)
           last == Len(auditorLog[m])
<1>1. AuditorTypeOK /\ Emit(m, old.auditor_pubkey, k) /\ old # NoAccount /\ CooldownOver(old)
      /\ auditors' = [auditors EXCEPT ![m] = entry]
  BY DEF AuditorInv, AuditorRotate
<1>2. old \in AuditorEntry
  BY <1>1 DEF AuditorTypeOK
<1>3. /\ entry \in AuditorEntry
      /\ entry.auditor_pubkey = k /\ entry.last_rotated_at = now
      /\ entry.registered_at = old.registered_at
      /\ entry.rotation_cooldown = old.rotation_cooldown
  BY <1>2 DEF Rotated, AuditorEntry
<1>4. entry # NoAccount
  BY <1>3, AuditorAssumption
<1>5. old.auditor_pubkey \in AuditorKeys \cup {NoKey}
  BY <1>2 DEF AuditorEntry
<1>6. now - old.last_rotated_at >= old.rotation_cooldown
  BY <1>1 DEF CooldownOver
<1>7. HistoryOf(m) /\ SpacedOf(m)
  BY OneMintAtATime DEF AuditorInv
<1>8. /\ auditorLog[m] # <<>>
      /\ auditorLog[m][1].old_pubkey = NoKey
      /\ auditorLog[m][1].timestamp = old.registered_at
      /\ auditorLog[m][last].new_pubkey = old.auditor_pubkey
      /\ auditorLog[m][last].timestamp = old.last_rotated_at
      /\ \A i \in 2 .. last : auditorLog[m][i].old_pubkey = auditorLog[m][i - 1].new_pubkey
  BY <1>1, <1>7 DEF HistoryOf
<1> HIDE DEF old, entry, last
<1>9. auditors'[m] = entry /\ \A n \in Mints \ {m} : auditors'[n] = auditors[n]
  BY <1>1 DEF AuditorTypeOK
<1>10. last \in Nat /\ last > 0
  <2>1. auditorLog[m] \in Seq(AuditorEvent)
    BY <1>1 DEF AuditorTypeOK
  <2>2. QED
    BY <2>1, <1>8, EmptySeq, LenProperties DEF last
<1>11. /\ auditorLog' \in [Mints -> Seq(AuditorEvent)]
       /\ Len(auditorLog'[m]) = last + 1
       /\ \A i \in 1 .. last : auditorLog'[m][i] = auditorLog[m][i]
       /\ auditorLog'[m][last + 1].old_pubkey = old.auditor_pubkey
       /\ auditorLog'[m][last + 1].new_pubkey = k
       /\ auditorLog'[m][last + 1].timestamp = now
       /\ \A n \in Mints \ {m} : auditorLog'[n] = auditorLog[n]
  BY <1>1, <1>5, EmitFacts DEF last
<1>12. AuditorTypeOK'
  BY <1>1, <1>3, <1>11 DEF AuditorTypeOK
<1>13. auditorLog'[m] # <<>>
  BY <1>10, <1>11
<1>14. HistoryOf(m)'
  <2>1. ASSUME NEW i \in 2 .. last + 1
        PROVE  auditorLog'[m][i].old_pubkey = auditorLog'[m][i - 1].new_pubkey
    <3>1. CASE i = last + 1
      BY <3>1, <1>8, <1>10, <1>11
    <3>2. CASE i # last + 1
      <4>1. i \in 2 .. last /\ i \in 1 .. last /\ i - 1 \in 1 .. last
        BY <3>2, <1>10
      <4>2. QED
        BY <4>1, <1>8, <1>11
    <3>3. QED
      BY <3>1, <3>2
  <2>2. auditorLog'[m][1].old_pubkey = NoKey /\ auditorLog'[m][1].timestamp = entry.registered_at
    BY <1>3, <1>8, <1>10, <1>11
  <2>3. QED
    BY <2>1, <2>2, <1>3, <1>4, <1>9, <1>11, <1>13 DEF HistoryOf
<1>15. SpacedOf(m)'
  <2>1. ASSUME NEW i \in 2 .. last + 1
        PROVE  auditorLog'[m][i].timestamp - auditorLog'[m][i - 1].timestamp
                 >= entry.rotation_cooldown
    <3>1. CASE i = last + 1
      BY <3>1, <1>3, <1>6, <1>8, <1>10, <1>11
    <3>2. CASE i # last + 1
      <4>1. i \in 2 .. last /\ i \in 1 .. last /\ i - 1 \in 1 .. last
        BY <3>2, <1>10
      <4>2. auditorLog[m][i].timestamp - auditorLog[m][i - 1].timestamp >= old.rotation_cooldown
        BY <4>1, <1>7 DEF SpacedOf, old, last
      <4>3. QED
        BY <4>1, <4>2, <1>3, <1>11
    <3>3. QED
      BY <3>1, <3>2
  <2>2. QED
    BY <2>1, <1>9, <1>11 DEF SpacedOf
<1>16. ASSUME NEW n \in Mints \ {m}
       PROVE  HistoryOf(n)' /\ SpacedOf(n)'
  <2>1. auditorLog'[n] = auditorLog[n] /\ auditors'[n] = auditors[n]
    BY <1>9, <1>11
  <2>2. HistoryOf(n) /\ SpacedOf(n)
    BY OneMintAtATime DEF AuditorInv
  <2>3. QED
    BY <2>1, <2>2 DEF HistoryOf, SpacedOf
<1>17. \A n \in Mints : HistoryOf(n)' /\ SpacedOf(n)'
  BY <1>14, <1>15, <1>16
<1>18. LogTellsTheKeyHistory' /\ RotationsAreSpaced'
  BY <1>17 DEF LogTellsTheKeyHistory, RotationsAreSpaced, HistoryOf, SpacedOf
<1>19. QED
  BY <1>12, <1>18 DEF AuditorInv

(* No other step touches the auditor registry.                             *)
LEMMA StepKeepsAuditorInv ==
  ASSUME AuditorInv, now \in Time, [Next]_vars
  PROVE  AuditorInv'
<1>1. CASE AuditorNext
  BY <1>1, RegisterKeepsAuditorInv, RotateKeepsAuditorInv DEF AuditorNext
<1>2. CASE UNCHANGED auditorVars
  BY <1>2 DEF auditorVars, AuditorInv, AuditorTypeOK, LogTellsTheKeyHistory, RotationsAreSpaced
<1>3. QED
  BY <1>1, <1>2 DEF Next, vars, auditorVars

-----------------------------------------------------------------------------
(***************************************************************************)
(* The burner registry.                                                    *)
(***************************************************************************)

(* An entry is not from the future, and no longer than the maximum allows.  *)
EntriesAreDated ==
  \A e \in Owners \X Nonces :
    burners[e] # NoAccount =>
      /\ burners[e].created_at <= now
      /\ burners[e].expires_at - burners[e].created_at <= BURNER_TTL_MAX_SECONDS

OpenEntries(o) == {n \in Nonces : burners[<<o, n>>] # NoAccount}

(* One entry was opened after the other, so an owner has finitely many.     *)
EntriesAreFinite == \A o \in Owners : IsFiniteSet(OpenEntries(o))

BurnerInv == BurnerTypeOK /\ EntriesAreDated /\ EntriesAreFinite /\ LogCountsTheLiveEntries

BurnerEventOf(type, burner, at) == [type |-> type, burner |-> burner, at |-> at]

(* A log is finite, and so is what it says about a burner.                 *)
LEMMA FinitelyManyEvents ==
  ASSUME BurnerTypeOK, NEW o \in Owners, NEW type, NEW b
  PROVE  IsFiniteSet(Emitted(o, type, b)) /\ Cardinality(Emitted(o, type, b)) \in Nat
<1>1. burnerLog[o] \in Seq(BurnerEvent)
  BY DEF BurnerTypeOK
<1>2. Len(burnerLog[o]) \in Nat /\ DOMAIN burnerLog[o] = 1 .. Len(burnerLog[o])
  BY <1>1, LenProperties
<1>3. Emitted(o, type, b) \in SUBSET (1 .. Len(burnerLog[o]))
  BY <1>2 DEF Emitted
<1>4. IsFiniteSet(1 .. Len(burnerLog[o]))
  BY <1>2, FS_Interval
<1>5. QED
  BY <1>3, <1>4, FS_Subset, FS_CardinalityType

(* An event adds one to those of its kind, burner and owner, to no others.  *)
LEMMA EmitBurnerFacts ==
  ASSUME BurnerTypeOK, NEW o \in Owners, NEW type \in {"BurnerCreated", "BurnerDestroyed"},
         NEW b \in BurnerKeys, NEW at \in Time, EmitBurner(o, type, b, at)
  PROVE  /\ burnerLog' \in [Owners -> Seq(BurnerEvent)]
         /\ Cardinality(Emitted(o, type, b)) \in Nat
         /\ Cardinality(Emitted(o, type, b)') = Cardinality(Emitted(o, type, b)) + 1
         /\ \A p \in Owners, t \in {"BurnerCreated", "BurnerDestroyed"}, k \in BurnerKeys :
              <<p, t, k>> # <<o, type, b>> => Emitted(p, t, k)' = Emitted(p, t, k)
<1> DEFINE log == burnerLog[o]
           last == Len(log)
           event == BurnerEventOf(type, b, at)
<1>1. event \in BurnerEvent /\ event.type = type /\ event.burner = b
  BY DEF BurnerEventOf, BurnerEvent
<1>2. log \in Seq(BurnerEvent)
  BY DEF BurnerTypeOK
<1>3. burnerLog' = [burnerLog EXCEPT ![o] = Append(log, event)]
  BY DEF EmitBurner, BurnerEventOf
<1>4. burnerLog'[o] = Append(log, event) /\ \A p \in Owners \ {o} : burnerLog'[p] = burnerLog[p]
  BY <1>3 DEF BurnerTypeOK
<1> HIDE DEF event
<1>5. /\ Append(log, event) \in Seq(BurnerEvent)
      /\ Len(Append(log, event)) = last + 1
      /\ \A i \in 1 .. last : Append(log, event)[i] = log[i]
      /\ Append(log, event)[last + 1] = event
  BY <1>1, <1>2, AppendProperties
<1>6. burnerLog' \in [Owners -> Seq(BurnerEvent)]
  BY <1>3, <1>5 DEF BurnerTypeOK
<1>7. last \in Nat /\ DOMAIN log = 1 .. last
  BY <1>2, LenProperties
<1>8. DOMAIN burnerLog'[o] = 1 .. last + 1
  BY <1>4, <1>5, LenProperties
<1>9. \A i \in 1 .. last : burnerLog'[o][i] = log[i]
  BY <1>4, <1>5
<1>10. burnerLog'[o][last + 1] = event
  BY <1>4, <1>5
<1>11. Emitted(o, type, b)' = Emitted(o, type, b) \cup {last + 1}
  BY <1>1, <1>7, <1>8, <1>9, <1>10 DEF Emitted
<1>12. last + 1 \notin Emitted(o, type, b)
  BY <1>7 DEF Emitted
<1>13. IsFiniteSet(Emitted(o, type, b))
  BY FinitelyManyEvents
<1>14. /\ Cardinality(Emitted(o, type, b)) \in Nat
       /\ Cardinality(Emitted(o, type, b) \cup {last + 1}) = Cardinality(Emitted(o, type, b)) + 1
  BY <1>12, <1>13, FS_CardinalityType, FS_AddElement
<1>15. ASSUME NEW p \in Owners, NEW t \in {"BurnerCreated", "BurnerDestroyed"}, NEW k \in BurnerKeys,
              <<p, t, k>> # <<o, type, b>>
       PROVE  Emitted(p, t, k)' = Emitted(p, t, k)
  <2>1. CASE p # o
    BY <2>1, <1>4 DEF Emitted
  <2>2. CASE p = o /\ (t # type \/ k # b)
    BY <2>2, <1>1, <1>7, <1>8, <1>9, <1>10 DEF Emitted
  <2>3. QED
    BY <2>1, <2>2, <1>15
<1>16. QED
  BY <1>6, <1>11, <1>14, <1>15

(* The entries under one key are among the open ones.                      *)
LEMMA LiveEntriesAreOpen ==
  ASSUME EntriesAreFinite, NEW o \in Owners, NEW b \in BurnerKeys
  PROVE  IsFiniteSet(LiveEntries(o, b)) /\ Cardinality(LiveEntries(o, b)) \in Nat
<1>1. LiveEntries(o, b) \in SUBSET OpenEntries(o)
  BY DEF LiveEntries, OpenEntries
<1>2. IsFiniteSet(OpenEntries(o))
  BY DEF EntriesAreFinite
<1>3. QED
  BY <1>1, <1>2, FS_Subset, FS_CardinalityType

(* create_burner opens one entry, with one event.                          *)
LEMMA CreateKeepsBurnerInv ==
  ASSUME BurnerInv, now \in Time, NEW o \in Owners, NEW n \in Nonces, NEW b \in BurnerKeys,
         NEW t \in Ttls, CreateBurner(o, n, b, t)
  PROVE  BurnerInv'
<1> DEFINE entry == NewBurner(b, t)
<1>1. /\ BurnerTypeOK /\ burners[<<o, n>>] = NoAccount
      /\ t \in BURNER_TTL_MIN_SECONDS .. BURNER_TTL_MAX_SECONDS
      /\ burners' = [burners EXCEPT ![<<o, n>>] = entry]
      /\ EmitBurner(o, "BurnerCreated", b, SatAdd(now, t))
      /\ now' = now
  BY DEF BurnerInv, CreateBurner, Unused, ValidateBurnerTtl
<1>2. SatAdd(now, t) \in Time /\ SatAdd(now, t) <= now + t
  BY <1>1, ClockAssumption, ConfigAssumption DEF SatAdd, Time
<1>3. entry \in BurnerAccount
  BY <1>2 DEF NewBurner, BurnerAccount
<1>4. entry.burner_pubkey = b /\ entry.created_at = now /\ entry.expires_at = SatAdd(now, t)
  BY DEF NewBurner
<1>5. entry # NoAccount
  BY <1>3, BurnerAssumption
<1> HIDE DEF entry
<1>6. /\ burners'[<<o, n>>] = entry
      /\ \A e \in Owners \X Nonces : e # <<o, n>> => burners'[e] = burners[e]
  BY <1>1 DEF BurnerTypeOK
<1>7. BurnerTypeOK'
  BY <1>1, <1>2, <1>3, EmitBurnerFacts DEF BurnerTypeOK
<1>8. EntriesAreDated'
  <2>1. entry.created_at <= now /\ entry.expires_at - entry.created_at <= BURNER_TTL_MAX_SECONDS
    <3>1. SatAdd(now, t) - now <= BURNER_TTL_MAX_SECONDS
      BY <1>1, <1>2, ConfigAssumption DEF Time
    <3>2. QED
      BY <3>1, <1>4 DEF Time
  <2>2. QED
    BY <2>1, <1>1, <1>6 DEF BurnerInv, EntriesAreDated
<1>9. OpenEntries(o)' = OpenEntries(o) \cup {n}
      /\ \A p \in Owners \ {o} : OpenEntries(p)' = OpenEntries(p)
  BY <1>5, <1>6 DEF OpenEntries
<1>10. EntriesAreFinite'
  <2>1. \A p \in Owners : IsFiniteSet(OpenEntries(p))
    BY DEF BurnerInv, EntriesAreFinite
  <2>2. IsFiniteSet(OpenEntries(o) \cup {n})
    BY <2>1, FS_AddElement
  <2>3. QED
    BY <2>1, <2>2, <1>9 DEF EntriesAreFinite
<1>11. /\ LiveEntries(o, b)' = LiveEntries(o, b) \cup {n}
       /\ n \notin LiveEntries(o, b)
       /\ \A p \in Owners, k \in BurnerKeys :
            <<p, k>> # <<o, b>> => LiveEntries(p, k)' = LiveEntries(p, k)
  BY <1>1, <1>4, <1>5, <1>6 DEF LiveEntries
<1>12. Cardinality(LiveEntries(o, b)) \in Nat
       /\ Cardinality(LiveEntries(o, b)') = Cardinality(LiveEntries(o, b)) + 1
  BY <1>11, LiveEntriesAreOpen, FS_AddElement DEF BurnerInv
<1>13. ASSUME NEW p \in Owners, NEW k \in BurnerKeys
       PROVE  Cardinality(Emitted(p, "BurnerCreated", k)') =
                Cardinality(LiveEntries(p, k)') + Cardinality(Emitted(p, "BurnerDestroyed", k)')
  <2>1. Cardinality(Emitted(p, "BurnerCreated", k)) =
          Cardinality(LiveEntries(p, k)) + Cardinality(Emitted(p, "BurnerDestroyed", k))
    BY DEF BurnerInv, LogCountsTheLiveEntries
  <2>2. Emitted(p, "BurnerDestroyed", k)' = Emitted(p, "BurnerDestroyed", k)
    BY <1>1, <1>2, EmitBurnerFacts
  <2>3. CASE p = o /\ k = b
    <3>1. Cardinality(Emitted(o, "BurnerCreated", b)) \in Nat
          /\ Cardinality(Emitted(o, "BurnerCreated", b)') = Cardinality(Emitted(o, "BurnerCreated", b)) + 1
      BY <1>1, <1>2, EmitBurnerFacts
    <3>2. Cardinality(Emitted(p, "BurnerDestroyed", k)) \in Int
      BY FinitelyManyEvents, <1>1
    <3>3. QED
      BY <2>1, <2>2, <2>3, <3>1, <3>2, <1>12
  <2>4. CASE <<p, k>> # <<o, b>>
    BY <2>1, <2>2, <2>4, <1>1, <1>2, <1>11, EmitBurnerFacts
  <2>5. QED
    BY <2>3, <2>4
<1>14. LogCountsTheLiveEntries'
  BY <1>13 DEF LogCountsTheLiveEntries
<1>15. QED
  BY <1>7, <1>8, <1>10, <1>14 DEF BurnerInv

(* destroy_burner closes one, with one event.                              *)
LEMMA DestroyKeepsBurnerInv ==
  ASSUME BurnerInv, now \in Time, NEW o \in Owners, NEW n \in Nonces, NEW c \in Contexts,
         NEW proof \in Proof, DestroyBurner(o, n, c, proof)
  PROVE  BurnerInv'
<1>1. BurnerTypeOK /\ burners[<<o, n>>] # NoAccount
  BY DEF BurnerInv, DestroyBurner
<1>2. PICK b \in BurnerKeys : b = burners[<<o, n>>].burner_pubkey
  BY <1>1 DEF BurnerTypeOK, BurnerAccount
<1>3. /\ BurnerTypeOK /\ burners[<<o, n>>] # NoAccount
      /\ burners' = [burners EXCEPT ![<<o, n>>] = NoAccount]
      /\ EmitBurner(o, "BurnerDestroyed", b, now)
      /\ now' = now
  BY <1>1, <1>2 DEF DestroyBurner, AfterDestroy
<1>4. /\ burners'[<<o, n>>] = NoAccount
      /\ \A e \in Owners \X Nonces : e # <<o, n>> => burners'[e] = burners[e]
  BY <1>3 DEF BurnerTypeOK
<1>5. BurnerTypeOK'
  BY <1>3, <1>2, EmitBurnerFacts DEF BurnerTypeOK
<1>6. EntriesAreDated'
  BY <1>3, <1>4 DEF BurnerInv, EntriesAreDated
<1>7. \A p \in Owners : OpenEntries(p)' \in SUBSET OpenEntries(p)
  BY <1>4 DEF OpenEntries
<1>8. EntriesAreFinite'
  BY <1>7, FS_Subset DEF BurnerInv, EntriesAreFinite
<1>9. /\ LiveEntries(o, b)' = LiveEntries(o, b) \ {n}
      /\ n \in LiveEntries(o, b)
      /\ \A p \in Owners, k \in BurnerKeys :
           <<p, k>> # <<o, b>> => LiveEntries(p, k)' = LiveEntries(p, k)
  BY <1>3, <1>2, <1>4 DEF LiveEntries
<1>10. Cardinality(LiveEntries(o, b)) \in Nat
      /\ Cardinality(LiveEntries(o, b)') = Cardinality(LiveEntries(o, b)) - 1
  <2>1. IsFiniteSet(LiveEntries(o, b)) /\ Cardinality(LiveEntries(o, b)) \in Nat
    BY LiveEntriesAreOpen DEF BurnerInv
  <2>2. Cardinality(LiveEntries(o, b) \ {n}) = Cardinality(LiveEntries(o, b)) - 1
    BY <2>1, <1>9, FS_RemoveElement
  <2>3. QED
    BY <2>1, <2>2, <1>9
<1>11. ASSUME NEW p \in Owners, NEW k \in BurnerKeys
       PROVE  Cardinality(Emitted(p, "BurnerCreated", k)') =
                Cardinality(LiveEntries(p, k)') + Cardinality(Emitted(p, "BurnerDestroyed", k)')
  <2>1. Cardinality(Emitted(p, "BurnerCreated", k)) =
          Cardinality(LiveEntries(p, k)) + Cardinality(Emitted(p, "BurnerDestroyed", k))
    BY DEF BurnerInv, LogCountsTheLiveEntries
  <2>2. Emitted(p, "BurnerCreated", k)' = Emitted(p, "BurnerCreated", k)
    BY <1>3, <1>2, EmitBurnerFacts
  <2>3. CASE p = o /\ k = b
    <3>1. Cardinality(Emitted(o, "BurnerDestroyed", b)) \in Nat
          /\ Cardinality(Emitted(o, "BurnerDestroyed", b)')
               = Cardinality(Emitted(o, "BurnerDestroyed", b)) + 1
      BY <1>3, <1>2, EmitBurnerFacts
    <3>2. QED
      BY <2>1, <2>2, <2>3, <3>1, <1>10
  <2>4. CASE <<p, k>> # <<o, b>>
    <3>1. Emitted(p, "BurnerDestroyed", k)' = Emitted(p, "BurnerDestroyed", k)
      BY <2>4, <1>2, <1>3, EmitBurnerFacts
    <3>2. LiveEntries(p, k)' = LiveEntries(p, k)
      BY <2>4, <1>9
    <3>3. QED
      BY <2>1, <2>2, <3>1, <3>2
  <2>5. QED
    BY <2>3, <2>4
<1>12. LogCountsTheLiveEntries'
  BY <1>11 DEF LogCountsTheLiveEntries
<1>13. QED
  BY <1>5, <1>6, <1>8, <1>12 DEF BurnerInv

(* The other steps leave the entries, and the clock they are dated by grows. *)
LEMMA StepKeepsBurnerInv ==
  ASSUME BurnerInv, now \in Time, [Next]_vars
  PROVE  BurnerInv'
<1>1. CASE BurnerNext
  BY <1>1, CreateKeepsBurnerInv, DestroyKeepsBurnerInv DEF BurnerNext
<1>2. CASE UNCHANGED burnerVars
  <2>1. ClockStep
    BY NextIsAClockStep
  <2>2. EntriesAreDated'
    <3>1. ASSUME NEW e \in Owners \X Nonces, burners[e] # NoAccount
          PROVE  burners[e].created_at <= now'
      BY <3>1, <2>1 DEF BurnerInv, BurnerTypeOK, EntriesAreDated, BurnerAccount, ClockStep, Time
    <3>2. QED
      BY <3>1, <1>2 DEF burnerVars, BurnerInv, EntriesAreDated
  <2>3. QED
    BY <2>2, <1>2
    DEF burnerVars, BurnerInv, BurnerTypeOK, EntriesAreFinite, OpenEntries,
        LogCountsTheLiveEntries, Emitted, LiveEntries
<1>3. QED
  BY <1>1, <1>2 DEF Next, vars, burnerVars

-----------------------------------------------------------------------------
(***************************************************************************)
(* The proofs and what they were spent on.                                 *)
(***************************************************************************)
SpentOnKeys ==
  /\ IsFiniteSet(Written("PubkeyValidity")) /\ IsFiniteSet(KeysInstalled)
  /\ Cardinality(Written("PubkeyValidity")) = Cardinality(KeysInstalled)

SpentOnClosings ==
  /\ IsFiniteSet(Written("ZeroBalance")) /\ IsFiniteSet(BurnersClosed)
  /\ Cardinality(Written("ZeroBalance")) = Cardinality(BurnersClosed)

(* verify_and_store writes one context that was not written, of its kind.  *)
LEMMA VerifyFacts ==
  ASSUME ContextsTypeOK, NEW c \in Contexts, NEW kind \in ProofKind, NEW proof \in Proof,
         VerifyAndStore(c, proof, kind)
  PROVE  /\ c \notin Written(kind)
         /\ Written(kind)' = Written(kind) \cup {c}
         /\ \A other \in ProofKind \ {kind} : Written(other)' = Written(other)
<1>1. /\ contexts[c] = Unwritten /\ contexts'[c] = proof /\ proof.kind = kind
      /\ \A d \in Contexts \ {c} : contexts'[d] = contexts[d]
  BY DEF ContextsTypeOK, VerifyAndStore
<1>2. proof # Unwritten
  BY ContextsAssumption
<1>3. QED
  BY <1>1, <1>2 DEF Written

(* An event in the log of a mint is one key more.                          *)
LEMMA OneKeyMore ==
  ASSUME AuditorTypeOK, now \in Time, NEW m \in Mints, NEW old \in AuditorKeys \cup {NoKey},
         NEW new \in AuditorKeys, Emit(m, old, new)
  PROVE  /\ <<m, Len(auditorLog[m]) + 1>> \notin KeysInstalled
         /\ KeysInstalled' = KeysInstalled \cup {<<m, Len(auditorLog[m]) + 1>>}
<1>1. /\ auditorLog' \in [Mints -> Seq(AuditorEvent)]
      /\ Len(auditorLog[m]) \in Nat
      /\ Len(auditorLog'[m]) = Len(auditorLog[m]) + 1
      /\ \A n \in Mints \ {m} : auditorLog'[n] = auditorLog[n]
  BY EmitFacts
<1>2. DOMAIN auditorLog[m] = 1 .. Len(auditorLog[m])
  BY LenProperties DEF AuditorTypeOK
<1>3. DOMAIN auditorLog'[m] = 1 .. Len(auditorLog[m]) + 1
  BY <1>1, LenProperties
<1>4. /\ DOMAIN auditorLog'[m] = DOMAIN auditorLog[m] \cup {Len(auditorLog[m]) + 1}
      /\ Len(auditorLog[m]) + 1 \notin DOMAIN auditorLog[m]
  BY <1>1, <1>2, <1>3
<1>5. \A n \in Mints \ {m} : DOMAIN auditorLog'[n] = DOMAIN auditorLog[n]
  BY <1>1
<1>6. \A p : p \in KeysInstalled <=>
               p \in Mints \X UNION {DOMAIN auditorLog[n] : n \in Mints}
                 /\ p[2] \in DOMAIN auditorLog[p[1]]
  BY DEF KeysInstalled
<1>7. \A p : p \in KeysInstalled' <=>
               p \in Mints \X UNION {DOMAIN auditorLog'[n] : n \in Mints}
                 /\ p[2] \in DOMAIN auditorLog'[p[1]]
  BY DEF KeysInstalled
<1>8. QED
  BY <1>4, <1>5, <1>6, <1>7

(* A closing adds one to the closings of its owner; a creation adds none.   *)
LEMMA OneClosingMore ==
  ASSUME BurnerTypeOK, NEW o \in Owners, NEW type \in {"BurnerCreated", "BurnerDestroyed"},
         NEW b \in BurnerKeys, NEW at \in Time, EmitBurner(o, type, b, at)
  PROVE  /\ type = "BurnerCreated" => BurnersClosed' = BurnersClosed
         /\ type = "BurnerDestroyed" =>
              /\ <<o, Len(burnerLog[o]) + 1>> \notin BurnersClosed
              /\ BurnersClosed' = BurnersClosed \cup {<<o, Len(burnerLog[o]) + 1>>}
<1> DEFINE log == burnerLog[o]
           last == Len(log)
           event == BurnerEventOf(type, b, at)
<1>1. event \in BurnerEvent /\ event.type = type
  BY DEF BurnerEventOf, BurnerEvent
<1>2. log \in Seq(BurnerEvent)
  BY DEF BurnerTypeOK
<1>3. burnerLog' = [burnerLog EXCEPT ![o] = Append(log, event)]
  BY DEF EmitBurner, BurnerEventOf
<1>4. burnerLog'[o] = Append(log, event) /\ \A p \in Owners \ {o} : burnerLog'[p] = burnerLog[p]
  BY <1>3 DEF BurnerTypeOK
<1> HIDE DEF event
<1>5. /\ Append(log, event) \in Seq(BurnerEvent)
      /\ Len(Append(log, event)) = last + 1
      /\ \A i \in 1 .. last : Append(log, event)[i] = log[i]
      /\ Append(log, event)[last + 1] = event
  BY <1>1, <1>2, AppendProperties
<1>6. last \in Nat /\ DOMAIN log = 1 .. last /\ DOMAIN burnerLog'[o] = 1 .. last + 1
  BY <1>2, <1>4, <1>5, LenProperties
<1>7. \A p \in Owners \ {o} : ClosedBy(p)' = ClosedBy(p)
  BY <1>4 DEF ClosedBy
<1>8. /\ \A i \in DOMAIN log : burnerLog'[o][i] = log[i]
      /\ burnerLog'[o][last + 1].type = type
      /\ DOMAIN burnerLog'[o] = DOMAIN log \cup {last + 1} /\ last + 1 \notin DOMAIN log
  BY <1>1, <1>4, <1>5, <1>6
<1>9. last + 1 \notin ClosedBy(o)
  BY <1>8 DEF ClosedBy
<1>10. type = "BurnerCreated" => ClosedBy(o)' = ClosedBy(o)
  BY <1>8 DEF ClosedBy
<1>11. type = "BurnerDestroyed" => ClosedBy(o)' = ClosedBy(o) \cup {last + 1}
  BY <1>8 DEF ClosedBy
<1>12. \A p : p \in BurnersClosed <=>
                p \in Owners \X UNION {ClosedBy(q) : q \in Owners} /\ p[2] \in ClosedBy(p[1])
  BY DEF BurnersClosed
<1>13. \A p : p \in BurnersClosed' <=>
                p \in Owners \X UNION {ClosedBy(q)' : q \in Owners} /\ p[2] \in ClosedBy(p[1])'
  BY DEF BurnersClosed
<1>14. CASE type = "BurnerCreated"
  <2>1. \A q \in Owners : ClosedBy(q)' = ClosedBy(q)
    BY <1>7, <1>10, <1>14
  <2>2. BurnersClosed' = BurnersClosed
    BY <2>1 DEF BurnersClosed
  <2>3. QED
    BY <2>2, <1>14
<1>15. CASE type = "BurnerDestroyed"
  BY <1>7, <1>9, <1>11, <1>12, <1>13, <1>15
<1>16. QED
  BY <1>14, <1>15

(* A registration or a rotation writes one validity proof and installs one  *)
(* key.                                                                    *)
LEMMA KeyStepSpends ==
  ASSUME ContextsTypeOK, AuditorTypeOK, now \in Time, SpentOnKeys, SpentOnClosings,
         NEW m \in Mints, NEW old \in AuditorKeys \cup {NoKey}, NEW new \in AuditorKeys,
         NEW c \in Contexts, NEW proof \in Proof, VerifyAndStore(c, proof, "PubkeyValidity"),
         Emit(m, old, new),
         UNCHANGED burnerLog
  PROVE  SpentOnKeys' /\ SpentOnClosings'
<1> DEFINE key == <<m, Len(auditorLog[m]) + 1>>
<1>1. /\ c \notin Written("PubkeyValidity")
      /\ Written("PubkeyValidity")' = Written("PubkeyValidity") \cup {c}
      /\ Written("ZeroBalance")' = Written("ZeroBalance")
  BY VerifyFacts DEF ProofKind
<1>2. key \notin KeysInstalled /\ KeysInstalled' = KeysInstalled \cup {key}
  BY OneKeyMore
<1> HIDE DEF key
<1>3. /\ IsFiniteSet(Written("PubkeyValidity") \cup {c}) /\ IsFiniteSet(KeysInstalled \cup {key})
      /\ Cardinality(Written("PubkeyValidity") \cup {c}) = Cardinality(KeysInstalled \cup {key})
  <2>1. /\ IsFiniteSet(Written("PubkeyValidity")) /\ IsFiniteSet(KeysInstalled)
        /\ Cardinality(Written("PubkeyValidity")) = Cardinality(KeysInstalled)
    BY DEF SpentOnKeys
  <2>2. IsFiniteSet(Written("PubkeyValidity") \cup {c})
        /\ Cardinality(Written("PubkeyValidity") \cup {c}) = Cardinality(Written("PubkeyValidity")) + 1
    BY <1>1, <2>1, FS_AddElement
  <2>3. IsFiniteSet(KeysInstalled \cup {key})
        /\ Cardinality(KeysInstalled \cup {key}) = Cardinality(KeysInstalled) + 1
    BY <1>2, <2>1, FS_AddElement
  <2>4. QED
    BY <2>1, <2>2, <2>3
<1>4. SpentOnKeys'
  BY <1>1, <1>2, <1>3 DEF SpentOnKeys
<1>5. \A o \in Owners : ClosedBy(o)' = ClosedBy(o)
  BY DEF ClosedBy
<1>6. BurnersClosed' = BurnersClosed
  BY <1>5 DEF BurnersClosed
<1>7. QED
  BY <1>1, <1>4, <1>6 DEF SpentOnClosings

(* A closing writes one zero-balance proof.                                *)
LEMMA ClosingSpends ==
  ASSUME ContextsTypeOK, BurnerTypeOK, now \in Time, SpentOnKeys, SpentOnClosings,
         NEW o \in Owners, NEW n \in Nonces, NEW c \in Contexts, NEW proof \in Proof,
         DestroyBurner(o, n, c, proof), UNCHANGED auditorLog
  PROVE  SpentOnKeys' /\ SpentOnClosings'
<1> DEFINE closing == <<o, Len(burnerLog[o]) + 1>>
<1>1. /\ c \notin Written("ZeroBalance")
      /\ Written("ZeroBalance")' = Written("ZeroBalance") \cup {c}
      /\ Written("PubkeyValidity")' = Written("PubkeyValidity")
  BY VerifyFacts DEF DestroyBurner, ProofKind
<1>2. PICK b \in BurnerKeys : b = burners[<<o, n>>].burner_pubkey
  BY DEF BurnerTypeOK, BurnerAccount, DestroyBurner
<1>3. EmitBurner(o, "BurnerDestroyed", b, now)
  BY <1>2 DEF DestroyBurner
<1>4. closing \notin BurnersClosed /\ BurnersClosed' = BurnersClosed \cup {closing}
  BY <1>3, OneClosingMore
<1> HIDE DEF closing
<1>5. /\ IsFiniteSet(Written("ZeroBalance") \cup {c}) /\ IsFiniteSet(BurnersClosed \cup {closing})
      /\ Cardinality(Written("ZeroBalance") \cup {c}) = Cardinality(BurnersClosed \cup {closing})
  <2>1. /\ IsFiniteSet(Written("ZeroBalance")) /\ IsFiniteSet(BurnersClosed)
        /\ Cardinality(Written("ZeroBalance")) = Cardinality(BurnersClosed)
    BY DEF SpentOnClosings
  <2>2. IsFiniteSet(Written("ZeroBalance") \cup {c})
        /\ Cardinality(Written("ZeroBalance") \cup {c}) = Cardinality(Written("ZeroBalance")) + 1
    BY <1>1, <2>1, FS_AddElement
  <2>3. IsFiniteSet(BurnersClosed \cup {closing})
        /\ Cardinality(BurnersClosed \cup {closing}) = Cardinality(BurnersClosed) + 1
    BY <1>4, <2>1, FS_AddElement
  <2>4. QED
    BY <2>1, <2>2, <2>3
<1>6. SpentOnClosings'
  BY <1>1, <1>4, <1>5 DEF SpentOnClosings
<1>7. KeysInstalled' = KeysInstalled
  BY DEF KeysInstalled
<1>8. QED
  BY <1>1, <1>6, <1>7 DEF SpentOnKeys

(* A creation needs no proof, and neither do the config and the clock.     *)
LEMMA StepSpends ==
  ASSUME ContextsTypeOK, AuditorTypeOK, BurnerTypeOK, now \in Time, SpentOnKeys, SpentOnClosings,
         [Next]_vars
  PROVE  SpentOnKeys' /\ SpentOnClosings'
<1>1. ASSUME NEW s \in Admins, NEW m \in Mints, NEW k \in AuditorKeys, NEW c \in Contexts,
             NEW proof \in Proof, UNCHANGED burnerVars,
             \/ \E d \in Cooldowns : AuditorRegister(s, m, k, d, c, proof)
             \/ AuditorRotate(s, m, k, c, proof)
      PROVE  SpentOnKeys' /\ SpentOnClosings'
  <2>1. PICK old \in AuditorKeys \cup {NoKey} :
          VerifyAndStore(c, proof, "PubkeyValidity") /\ Emit(m, old, k)
    BY <1>1 DEF AuditorRegister, AuditorRotate, AuditorTypeOK, AuditorEntry
  <2>2. UNCHANGED burnerLog
    BY <1>1 DEF burnerVars
  <2>3. QED
    BY <2>1, <2>2, KeyStepSpends, Zenon
<1>2. ASSUME NEW o \in Owners, NEW n \in Nonces, UNCHANGED auditorVars,
             NEW b \in BurnerKeys, NEW t \in Ttls, CreateBurner(o, n, b, t)
      PROVE  SpentOnKeys' /\ SpentOnClosings'
  <2>1. SatAdd(now, t) \in Time
    BY <1>2, ClockAssumption, ConfigAssumption
    DEF CreateBurner, ValidateBurnerTtl, SatAdd, Time
  <2>2. BurnersClosed' = BurnersClosed
    BY <1>2, <2>1, OneClosingMore DEF CreateBurner
  <2>3. QED
    BY <1>2, <2>2
    DEF CreateBurner, auditorVars, SpentOnKeys, SpentOnClosings, Written, KeysInstalled
<1>3. ASSUME NEW o \in Owners, NEW n \in Nonces, UNCHANGED auditorVars,
             NEW c \in Contexts, NEW proof \in Proof,
             DestroyBurner(o, n, c, proof)
      PROVE  SpentOnKeys' /\ SpentOnClosings'
  BY <1>3, ClosingSpends DEF auditorVars
<1>4. CASE UNCHANGED <<contexts, auditorLog, burnerLog>>
  BY <1>4 DEF SpentOnKeys, SpentOnClosings, Written, KeysInstalled, BurnersClosed, ClosedBy
<1>5. QED
  BY <1>1, <1>2, <1>3, <1>4 DEF Next, vars, AuditorNext, BurnerNext, auditorVars, burnerVars

-----------------------------------------------------------------------------
(***************************************************************************)
(* Both registries.                                                        *)
(***************************************************************************)
RegistriesInv ==
  /\ now \in Time
  /\ ConfigTypeOK
  /\ ContextsTypeOK
  /\ AuditorInv
  /\ BurnerInv
  /\ SpentOnKeys
  /\ SpentOnClosings

(* Nothing is registered and nothing logged.                               *)
LEMMA InitInv ==
  ASSUME Init
  PROVE  RegistriesInv
<1>1. now \in Time
  BY ClockAssumption DEF Init, ClockInit, Time
<1>2. ConfigTypeOK /\ ContextsTypeOK
  BY DEF Init, ConfigInit, ConfigTypeOK, ContextsInit, ContextsTypeOK
<1>3. AuditorTypeOK /\ \A m \in Mints : auditors[m] = NoAccount /\ auditorLog[m] = <<>>
  BY DEF Init, AuditorInit, AuditorTypeOK
<1>4. BurnerTypeOK
  BY DEF Init, BurnerInit, BurnerTypeOK
<1>5. /\ \A e \in Owners \X Nonces : burners[e] = NoAccount
      /\ \A o \in Owners : burnerLog[o] = <<>>
  BY DEF Init, BurnerInit
<1>6. LogTellsTheKeyHistory /\ RotationsAreSpaced
  BY <1>3 DEF LogTellsTheKeyHistory, RotationsAreSpaced
<1>7. EntriesAreDated
  BY <1>5 DEF EntriesAreDated
<1>8. \A o \in Owners : OpenEntries(o) = {}
  BY <1>5 DEF OpenEntries
<1>9. EntriesAreFinite
  BY <1>8, FS_EmptySet DEF EntriesAreFinite
<1>10. \A o \in Owners, b \in BurnerKeys :
         /\ LiveEntries(o, b) = {}
         /\ Emitted(o, "BurnerCreated", b) = {}
         /\ Emitted(o, "BurnerDestroyed", b) = {}
  BY <1>5 DEF LiveEntries, Emitted
<1>11. Cardinality({}) = 0
  BY FS_EmptySet
<1>12. LogCountsTheLiveEntries
  BY <1>10, <1>11 DEF LogCountsTheLiveEntries
<1>13. SpentOnKeys /\ SpentOnClosings
  <2>1. Written("PubkeyValidity") = {} /\ Written("ZeroBalance") = {}
    BY ContextsAssumption DEF Init, ContextsInit, Written, ProofKind
  <2>2. KeysInstalled = {}
    <3>1. DOMAIN <<>> = {}
      OBVIOUS
    <3>2. QED
      BY <3>1, <1>3 DEF KeysInstalled
  <2>3. BurnersClosed = {}
    BY <1>5 DEF BurnersClosed, ClosedBy
  <2>4. IsFiniteSet({})
    BY FS_EmptySet
  <2>5. QED
    BY <2>1, <2>2, <2>3, <2>4 DEF SpentOnKeys, SpentOnClosings
<1>14. QED
  BY <1>1, <1>2, <1>3, <1>4, <1>6, <1>7, <1>9, <1>12, <1>13
  DEF RegistriesInv, AuditorInv, BurnerInv

(* A step of either registry, of the config or of the clock.               *)
LEMMA StepKeepsInv ==
  ASSUME RegistriesInv, [Next]_vars
  PROVE  RegistriesInv'
<1>1. now' \in Time
  BY NextIsAClockStep DEF RegistriesInv, ClockStep
<1>2. AuditorInv' /\ BurnerInv'
  BY StepKeepsAuditorInv, StepKeepsBurnerInv DEF RegistriesInv
<1>3. ConfigTypeOK'
  <2>1. CASE ConfigNext
    BY <2>1, ConfigStepType DEF RegistriesInv
  <2>2. CASE UNCHANGED config
    BY <2>2 DEF RegistriesInv, ConfigTypeOK
  <2>3. QED
    BY <2>1, <2>2
    DEF Next, vars, AuditorNext, AuditorRegister, AuditorRotate, BurnerNext, CreateBurner,
        DestroyBurner
<1>4. ContextsTypeOK'
  <2>1. ASSUME NEW c \in Contexts, NEW proof \in Proof, NEW kind \in ProofKind,
               VerifyAndStore(c, proof, kind)
        PROVE  ContextsTypeOK'
    BY <2>1 DEF RegistriesInv, ContextsTypeOK, VerifyAndStore
  <2>2. CASE UNCHANGED contexts
    BY <2>2 DEF RegistriesInv, ContextsTypeOK
  <2>3. CASE AuditorNext
    BY <2>1, <2>3 DEF AuditorNext, AuditorRegister, AuditorRotate, ProofKind
  <2>4. CASE BurnerNext
    <3>1. ASSUME NEW o \in Owners, NEW n \in Nonces, NEW c \in Contexts,
                 NEW proof \in Proof, DestroyBurner(o, n, c, proof)
          PROVE  ContextsTypeOK'
      BY <2>1, <3>1 DEF DestroyBurner, ProofKind
    <3>2. QED
      BY <2>2, <2>4, <3>1 DEF BurnerNext, CreateBurner
  <2>5. QED
    BY <2>2, <2>3, <2>4 DEF Next, vars
<1>5. SpentOnKeys' /\ SpentOnClosings'
  BY StepSpends DEF RegistriesInv, AuditorInv, BurnerInv
<1>6. QED
  BY <1>1, <1>2, <1>3, <1>4, <1>5 DEF RegistriesInv

(* Registrations, rotations, creations, closings, ticks and updates of the  *)
(* config all keep the two invariants and the types they rest on.          *)
THEOREM InductiveInvariant == Spec => []RegistriesInv
<1>1. Init => RegistriesInv
  BY InitInv
<1>2. RegistriesInv /\ [Next]_vars => RegistriesInv'
  BY StepKeepsInv
<1>3. QED
  BY <1>1, <1>2, PTL DEF Spec

-----------------------------------------------------------------------------
(* Accounts and logs always hold values of their types, for any cooldown.   *)
THEOREM TypeCorrect == Spec => []TypeOK
<1>1. RegistriesInv => TypeOK
  BY DEF RegistriesInv, AuditorInv, BurnerInv, TypeOK
<1>2. QED
  BY <1>1, InductiveInvariant, PTL

(* The events of auditor_register and auditor_rotate tell, for every mint,  *)
(* which key was installed when, without a gap.                            *)
THEOREM HistoryCorrect == Spec => []LogTellsTheKeyHistory
<1>1. RegistriesInv => LogTellsTheKeyHistory
  BY DEF RegistriesInv, AuditorInv
<1>2. QED
  BY <1>1, InductiveInvariant, PTL

(* Two keys of a mint are always installed a cooldown apart, although the   *)
(* account remembers the last rotation only.                               *)
THEOREM SpacingCorrect == Spec => []RotationsAreSpaced
<1>1. RegistriesInv => RotationsAreSpaced
  BY DEF RegistriesInv, AuditorInv
<1>2. QED
  BY <1>1, InductiveInvariant, PTL

(* The events of create_burner and destroy_burner, which do not name the    *)
(* nonce, count what the registry holds under each key.                    *)
THEOREM CountCorrect == Spec => []LogCountsTheLiveEntries
<1>1. RegistriesInv => LogCountsTheLiveEntries
  BY DEF RegistriesInv, BurnerInv
<1>2. QED
  BY <1>1, InductiveInvariant, PTL

(* No history of creations and closings makes an entry that is active and   *)
(* older than the maximal time to live.                                    *)
THEOREM AgeCorrect == Spec => []ActiveBurnersAreYoung
<1>1. RegistriesInv => ActiveBurnersAreYoung
  <2>1. SUFFICES ASSUME RegistriesInv, NEW o \in Owners, NEW n \in Nonces,
                        burners[<<o, n>>] # NoAccount, BurnerIsActive(burners[<<o, n>>])
                 PROVE  now - burners[<<o, n>>].created_at < BURNER_TTL_MAX_SECONDS
    BY DEF ActiveBurnersAreYoung
  <2> DEFINE e == burners[<<o, n>>]
  <2>2. e \in BurnerAccount
    BY <2>1 DEF RegistriesInv, BurnerInv, BurnerTypeOK
  <2>3. e.created_at \in Int /\ e.expires_at \in Int /\ now \in Int
    BY <2>1, <2>2 DEF BurnerAccount, Time, RegistriesInv
  <2>4. e.expires_at - e.created_at <= BURNER_TTL_MAX_SECONDS /\ e.expires_at > now
    BY <2>1 DEF RegistriesInv, BurnerInv, EntriesAreDated, BurnerIsActive
  <2>5. QED
    BY <2>3, <2>4, ConfigAssumption
<1>2. QED
  BY <1>1, InductiveInvariant, PTL

(* No proof context backs two rotations, two closings or one of each: the   *)
(* contexts that were written are as many as the changes they allowed, for  *)
(* any number of mints, owners and contexts, and whatever proofs they hold. *)
THEOREM ContextsAreSpentOnce == Spec => []EachContextBacksOneChange
<1>1. RegistriesInv => EachContextBacksOneChange
  BY DEF RegistriesInv, SpentOnKeys, SpentOnClosings, EachContextBacksOneChange
<1>2. QED
  BY <1>1, InductiveInvariant, PTL

(* A burner that is inactive and not closed never becomes active again.    *)
THEOREM LifetimesCorrect == Spec => LifetimesOnlyRunDown
<1>1. ASSUME RegistriesInv, [Next]_vars, NEW e \in Owners \X Nonces,
             burners[e] # NoAccount, burners'[e] # NoAccount
      PROVE  /\ burners'[e] = burners[e]
             /\ BurnerIsActive(burners[e])' => BurnerIsActive(burners[e])
  <2>1. burners'[e] = burners[e]
    <3>1. ASSUME NEW o \in Owners, NEW n \in Nonces, NEW b \in BurnerKeys, NEW t \in Ttls,
                 CreateBurner(o, n, b, t)
          PROVE  burners'[e] = burners[e]
      BY <1>1, <3>1 DEF CreateBurner, Unused, RegistriesInv, BurnerInv, BurnerTypeOK
    <3>2. ASSUME NEW o \in Owners, NEW n \in Nonces, NEW c \in Contexts, NEW proof \in Proof,
             DestroyBurner(o, n, c, proof)
          PROVE  burners'[e] = burners[e]
      BY <1>1, <3>2 DEF DestroyBurner, AfterDestroy, RegistriesInv, BurnerInv, BurnerTypeOK
    <3>3. CASE UNCHANGED burnerVars
      BY <3>3 DEF burnerVars
    <3>4. QED
      BY <1>1, <3>1, <3>2, <3>3 DEF Next, vars, burnerVars, BurnerNext
  <2>2. now <= now' /\ now \in Int /\ now' \in Int
    BY <1>1, NextIsAClockStep DEF RegistriesInv, ClockStep, Time
  <2>3. burners[e].expires_at \in Int
    BY <1>1 DEF RegistriesInv, BurnerInv, BurnerTypeOK, BurnerAccount, Time
  <2>4. QED
    BY <2>1, <2>2, <2>3 DEF BurnerIsActive
<1>2. RegistriesInv /\ [Next]_vars =>
        [\A e \in Owners \X Nonces :
           burners[e] # NoAccount /\ burners'[e] # NoAccount =>
             /\ burners'[e] = burners[e]
             /\ BurnerIsActive(burners[e])' => BurnerIsActive(burners[e])]_<<now, burners>>
  BY <1>1
<1>3. QED
  BY <1>2, InductiveInvariant, PTL DEF Spec, LifetimesOnlyRunDown
=============================================================================
