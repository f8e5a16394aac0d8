CONSTANTS
  a1 = a1  h1 = h1  p1 = p1  p2 = p2
  Keys = {a1, h1, p1, p2}
  Admins = {a1}
  ConfigFields <- MCNoFields
  NoAccount = NoAccount
  MIX_MIN_PARTICIPANTS = 2
  MIX_MAX_PARTICIPANTS = 3
  MIX_REVEAL_WINDOW_SECONDS = 1
  BURNER_TTL_MIN_SECONDS = 1
  BURNER_TTL_MAX_SECONDS = 2
  BURNER_REGISTRY_CAP_PER_OWNER = 1
  DUST_FREE_UNIT = 1
  AUDITOR_COSIGN_LAMPORTS = 1
  I64Max = 9
  MaxTime = 4
  RoundIds = {1}
  Hosts = {h1}
  Participants = {p1, p2}
  Capacities = {2}
  Denominations = {1}
  CommitWindows = {1, 9}
  Preimages = {1}
  Signals = {1, 2}
  NoSignal = NoSignal
  Opaque = Opaque
SPECIFICATION FairSpec
CHECK_DEADLOCK FALSE
PROPERTY
  UnfilledRoundsAreDecided
