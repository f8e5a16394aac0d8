----------------------------- MODULE Registries -----------------------------
(***************************************************************************)
(* The auditor registry and the burner registry on one cluster: they share *)
(* the clock, the config account with its admin and its pause, and the     *)
(* proof context accounts their clients create.                            *)
(***************************************************************************)
EXTENDS AuditorRegistry, BurnerRegistry

vars == <<now, config, contexts, auditors, auditorLog, burners, burnerLog>>

Init ==
  /\ ClockInit
  /\ ConfigInit
  /\ ContextsInit
  /\ AuditorInit
  /\ BurnerInit

Next ==
  \/ AuditorNext /\ UNCHANGED burnerVars
  \/ BurnerNext /\ UNCHANGED auditorVars
  \/ ConfigNext /\ UNCHANGED <<now, contexts, auditorVars, burnerVars>>
  \/ Tick /\ UNCHANGED <<config, contexts, auditorVars, burnerVars>>

Spec == Init /\ [][Next]_vars

-----------------------------------------------------------------------------
\* Type invariant of the accounts and the logs.
TypeOK ==
  /\ now \in Time
  /\ ConfigTypeOK
  /\ ContextsTypeOK
  /\ AuditorTypeOK
  /\ BurnerTypeOK

\* The keys the auditor log says were installed, and the burners the burner log
\* says were closed: one pair for each event.
KeysInstalled == UNION {{m} \X DOMAIN auditorLog[m] : m \in Mints}

ClosedBy(o) == {i \in DOMAIN burnerLog[o] : burnerLog[o][i].type = "BurnerDestroyed"}

BurnersClosed == UNION {{o} \X ClosedBy(o) : o \in Owners}

\* A context account serves one change of state, across both registries: as many
\* keys were installed as contexts hold a validity proof, and as many burners
\* closed as contexts hold a zero-balance proof, though the proofs in them may
\* be one and the same.
EachContextBacksOneChange ==
  /\ Cardinality(Written("PubkeyValidity")) = Cardinality(KeysInstalled)
  /\ Cardinality(Written("ZeroBalance")) = Cardinality(BurnersClosed)
=============================================================================
