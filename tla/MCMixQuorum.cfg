CONSTANTS
  a1 = a1  h1 = h1  p1 = p1  p2 = p2  p3 = p3  p4 = p4
  Keys = {a1, h1, p1, p2, p3, p4}
  Admins = {a1}
  ConfigFields <- MCFields
  NoAccount = NoAccount
  MIX_MIN_PARTICIPANTS = 3
  MIX_MAX_PARTICIPANTS = 3
  MIX_REVEAL_WINDOW_SECONDS = 1
  BURNER_TTL_MIN_SECONDS = 1
  BURNER_TTL_MAX_SECONDS = 2
  BURNER_REGISTRY_CAP_PER_OWNER = 1
  DUST_FREE_UNIT = 1
  AUDITOR_COSIGN_LAMPORTS = 1
  I64Max = 5
  MaxTime = 5
  RoundIds = {1}
  Hosts = {h1}
  Participants = {p1, p2, p3, p4}
  Capacities = {2, 3, 4}
  Denominations = {0, 1}
  CommitWindows = {0, 1, 2, 9}
  Preimages = {1}
  Signals = {1}
  NoSignal = NoSignal
  Opaque = Opaque
SYMMETRY MCSymmetry
SPECIFICATION Spec
CHECK_DEADLOCK FALSE
INVARIANT RoundsBelowTheMinimumAbort
