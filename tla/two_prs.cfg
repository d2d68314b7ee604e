CONSTANTS
  p1 = p1
  p2 = p2
  h1 = h1
  h2 = h2
  NoSHA = NoSHA
  PRs = {p1, p2}
  Heads = {h1, h2}
  Fingerprints = {f1}
  MaxCycles = 2
  MaxAttempts = 2
  MaxComments <- NoCap
  Announce = FALSE
  Served = {p1}
  Deliveries <- TwoPRs
  Faults = {"crash", "stop", "db", "lost"}
  MaxFaults = 2
SPECIFICATION FairSpec
INVARIANTS
  QueueInv
  BudgetInv
  PassInv
  RepeatsInv
PROPERTIES
  SummaryKept
  ImplementsService
  EveryJobSettled
  StopEnds
