\* The order 7 stands to hashes of 6 bits as the order of Ristretto255 to those of 256.
CONSTANTS
  Q = 7
  DefaultH = 3
  OtherHs = {5}
  Sixteenth = 4
  Hashes = {1, 30, 40, 63}
  Plaintexts = {1, 2, 5}
  Factors = {0, 3}
  Windows <- MCWindows
  GVec <- MCGVec
  HVec <- MCHVec
  BitLengths = {0, 1, 2, 3, 4, 5}
  Masks <- MCMasks
  Challenges = {2, 3, 6}
  MaxProofs = 2
  H = 3
  SourceKeys = {2}
  DestKeys = {3}
  Draws = {0, 1, 2, 4}
  Randomness = {0, 1, 3}
  Shown = {0, 1, 3}
  FirstChallenges = {1}
  SecondChallenges = {3}
  Radix = 8
  SafeNumber = 262144
  ShortBytes = {short}
  Wallets = {w1, w2}
  NoKey = NoKey
  Mints = {m1, m2}
  OldMints = {old}
  Rounds = {r1, r2}
  Entries = {e1}
  Accounts = {a1}
  Bytes = {b1, b2}
  InitParams <- MCInitParams
  Updates <- MCUpdates
  Amounts <- MCAmounts
  Nonces <- MCNonces
  Ttls <- MCTtls
  Indices <- MCIndices
  Capacities = {1, 2, 5, 6}
  IndexLists <- MCIndexLists
  Handles <- MCHandles
  DefaultKnobs <- MCDefaultKnobs
  DefaultWindow = 120
  DefaultCooldown = 600
  MinMix = 2
  MaxMix = 5
  MaxCalls = 2
  Operators = {o1, o2}
  Versions = {1, 2}
  EXPECTED_VERSION = 2
  NoConfig = NoConfig
  MaxRuns = 2
SPECIFICATION Spec
SYMMETRY MCSymmetry
INVARIANT
  DerivationsStayInSync
\* Each part comes to an end of its own.
CHECK_DEADLOCK FALSE
