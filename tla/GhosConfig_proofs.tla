-------------------------- MODULE GhosConfig_proofs -------------------------
(***************************************************************************)
(* What the steps on the config account preserve, for the proofs about the *)
(* modules whose next-state relation has them.                             *)
(***************************************************************************)
EXTENDS GhosConfig, TLAPS

(* A step on the config account leaves a config of the right type there.   *)
LEMMA ConfigStepType ==
  ASSUME ConfigTypeOK, ConfigNext
  PROVE  ConfigTypeOK' /\ config' # NoAccount
<1>1. ASSUME NEW s \in Admins, Initialize(s)
      PROVE  config' \in GhosConfigRecord
  BY <1>1, ConfigAssumption DEF Initialize, GhosConfigRecord
<1>2. ASSUME NEW s \in Admins, NEW f \in ConfigFields, ConfigUpdate(s, f)
      PROVE  config' \in GhosConfigRecord
  <2>1. config \in GhosConfigRecord
    BY <1>2 DEF ConfigUpdate, IsAdmin, ConfigExists, ConfigTypeOK
  <2>2. f \in ConfigField
    BY ConfigAssumption
  <2>3. QED
    BY <1>2, <2>1, <2>2 DEF ConfigUpdate, ConfigField, GhosConfigRecord
<1>3. QED
  BY <1>1, <1>2, ConfigAssumption DEF ConfigNext, ConfigTypeOK

(* No knob leaves its range, whichever one is set, to whatever is accepted. *)
LEMMA ConfigStepKnobs ==
  ASSUME ConfigTypeOK, KnobsInRange, ConfigNext
  PROVE  KnobsInRange'
<1>1. ASSUME NEW s \in Admins, Initialize(s)
      PROVE  KnobsInRange'
  BY <1>1, ConfigAssumption DEF Initialize, KnobsInRange, ConfigExists
<1>2. ASSUME NEW s \in Admins, NEW f \in ConfigFields, ConfigUpdate(s, f)
      PROVE  KnobsInRange'
  <2>1. config \in GhosConfigRecord
    BY <1>2 DEF ConfigUpdate, IsAdmin, ConfigExists, ConfigTypeOK
  <2>2. f \in ConfigField
    BY ConfigAssumption
  <2>3. config # NoAccount
    BY <1>2 DEF ConfigUpdate, IsAdmin, ConfigExists
  <2>4. QED
    BY <1>2, <2>1, <2>2, <2>3
    DEF ConfigUpdate, TtlsDoNotCross, ConfigField, GhosConfigRecord, KnobsInRange, ConfigExists
<1>3. QED
  BY <1>1, <1>2 DEF ConfigNext
=============================================================================
