CONSTANTS
  a1 = a1  a2 = a2  o1 = o1  k1 = k1  k2 = k2  b1 = b1
  c1 = c1  c2 = c2  c3 = c3
  Keys = {a1, a2, o1}
  Admins = {a1, a2}
  ConfigFields <- MCFields
  NoAccount = NoAccount
  MIX_MIN_PARTICIPANTS = 2
  MIX_MAX_PARTICIPANTS = 3
  MIX_REVEAL_WINDOW_SECONDS = 1
  BURNER_TTL_MIN_SECONDS = 1
  BURNER_TTL_MAX_SECONDS = 2
  BURNER_REGISTRY_CAP_PER_OWNER = 1
  DUST_FREE_UNIT = 1
  AUDITOR_COSIGN_LAMPORTS = 1
  I64Max = 3
  MaxTime = 3
  Contexts = {c1, c2, c3}
  ProofBytes = {1}
  Unwritten = Unwritten
  Mints = {1}
  AuditorKeys = {k1, k2}
  NoKey = NoKey
  Cooldowns <- MCCooldowns
  Owners = {o1}
  Nonces = {0, 1}
  BurnerKeys = {b1}
  Ttls = {0, 1, 2, 3}
SYMMETRY MCSymmetry
SPECIFICATION Spec
CHECK_DEADLOCK FALSE
INVARIANTS
  LogTellsTheKeyHistory
  RotationsAreSpaced
  LogCountsTheLiveEntries
  ActiveBurnersAreYoung
  EachContextBacksOneChange
PROPERTIES
  LifetimesOnlyRunDown
