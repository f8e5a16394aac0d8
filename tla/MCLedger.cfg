CONSTANTS
  a1 = a1  alice = alice  bob = bob
  Keys = {a1}
  Admins = {a1}
  ConfigFields <- MCFields
  NoAccount = NoAccount
  MIX_MIN_PARTICIPANTS = 2
  MIX_MAX_PARTICIPANTS = 3
  MIX_REVEAL_WINDOW_SECONDS = 1
  BURNER_TTL_MIN_SECONDS = 1
  BURNER_TTL_MAX_SECONDS = 2
  BURNER_REGISTRY_CAP_PER_OWNER = 1
  DUST_FREE_UNIT = 2
  AUDITOR_COSIGN_LAMPORTS = 1
  Holders = {alice, bob}
  Supply <- MCSupply
  Amounts = {1, 2, 3}
  MaxCredits = 2
  Audited = FALSE
  NotRead = NotRead
SPECIFICATION FairSpec
CHECK_DEADLOCK FALSE
INVARIANTS
  StaleBalanceIsNoticed
  ShieldedSupplyIsAligned
PROPERTIES
  CreditsAreApplied
  KeepsTheMoney
