CONSTANTS
  p1 = p1
  h1 = h1
  h2 = h2
  NoSHA = NoSHA
  PRs = {p1}
  Heads = {h1, h2}
  Fingerprints = {}
  Requests <- Two
  Payload <- ReopenedThenPushed
  Configured = {"github"}
  MaxAttempts = 2
  Faults = {"crash", "stop"}
  MaxFaults = 1
SPECIFICATION FairSpec
PROPERTIES
  JobsStarted
