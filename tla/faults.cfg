CONSTANTS
  p1 = p1
  p2 = p2
  h1 = h1
  h2 = h2
  NoSHA = NoSHA
  PRs = {p1}
  Heads = {h1, h2}
  Fingerprints = {f1, f2}
  MaxCycles = 2
  MaxAttempts = 2
  MaxComments = 1
  Announce = TRUE
  Served = {p1}
  Deliveries <- OneLife
  Faults = {"crash", "stop", "db", "lost", "forge", "engine"}
  MaxFaults = 1
SPECIFICATION Spec
SYMMETRY FingerprintSymmetry
INVARIANTS
  TypeOK
  SettledInOrder
  RecordedMeansPosted
  PassesPublished
  BudgetHolds
  SnapshotFresh
  NoFindingDropped
  RepeatsBoundedByFaults
  AttemptsBoundedByFaults
  AnswerInv
PROPERTIES
  SummaryKept
  SuccessMeansAnswered
