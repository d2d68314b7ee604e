CONSTANTS
  h1 = h1
  h2 = h2
  h3 = h3
  x = x
  y = y
  z = z
  NoSHA = NoSHA
  MR = mr
  PRs = {mr}
  Heads = {h1, h2, h3}
  Fingerprints = {}
  Changes = {x, y, z}
  Commits <- Forked
  MaxCycles = 2
  MaxAttempts = 2
  MaxFindings = 2
  MaxPushes = 3
  MaxCrashes = 1
SPECIFICATION Spec
CHECK_DEADLOCK FALSE
INVARIANTS
  TypeOK
  ReviewedMeansRead
  DoneMeansRead
  OneTriplePerHead
  RefsNotOlder
  ReadInv
