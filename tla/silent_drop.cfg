CONSTANTS
  p1 = p1
  p2 = p2
  h1 = h1
  h2 = h2
  NoSHA = NoSHA
  PRs = {p1}
  Heads = {h1}
  Fingerprints = {f1}
  MaxCycles = 2
  MaxAttempts = 2
  MaxComments = 1
  Announce = TRUE
  Served = {p1}
  Deliveries <- Reopened
  Faults = {"forge"}
  MaxFaults = 0
SPECIFICATION Spec
INVARIANTS
  DeadMeansReported
