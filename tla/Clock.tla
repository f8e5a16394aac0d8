------------------------------- MODULE Clock -------------------------------
(***************************************************************************)
(* The Solana `Clock` sysvar as the handlers of the ghos program read it:  *)
(* one unix timestamp for the whole cluster, which every instruction reads *)
(* once (utils/validation.rs, now_ts) and which never runs backwards.  A   *)
(* deadline is an i64 built with saturating_add.                           *)
(***************************************************************************)
EXTENDS Integers

CONSTANTS
  I64Max,    \* i64::MAX, where saturating_add stops
  MaxTime    \* bound of a model: the clock stops here

ASSUME ClockAssumption ==
  /\ I64Max \in Nat
  /\ MaxTime \in Nat
  /\ MaxTime <= I64Max

VARIABLE now

Time == 0 .. I64Max

\* Fault: a plain addition.
SatAdd_Plain(a, b) == a + b

\* i64::saturating_add on two timestamps that are not negative.
SatAdd(a, b) == IF a + b > I64Max THEN I64Max ELSE a + b

ClockInit == now = 0

\* Slots are confirmed and the sysvar advances.
Tick == now < MaxTime /\ now' = now + 1
=============================================================================
