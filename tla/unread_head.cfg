CONSTANTS
  h1 = h1
  h2 = h2
  h3 = h3
  x = x
  y = y
  z = z
  NoSHA = NoSHA
  MR = mr
  PRs = {mr}
  Heads = {h1, h2}
  Fingerprints = {}
  Changes = {x, y}
  Commits <- Rewritten
  MaxCycles = 2
  MaxAttempts = 2
  MaxFindings = 0
  MaxPushes = 3
  MaxCrashes = 0
SPECIFICATION Spec
CHECK_DEADLOCK FALSE
INVARIANTS
  ReviewedTreeRead
