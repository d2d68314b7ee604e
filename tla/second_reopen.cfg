CONSTANTS
  p1 = p1
  h1 = h1
  h2 = h2
  NoSHA = NoSHA
  PRs = {p1}
  Heads = {h1, h2}
  Fingerprints = {}
  Requests <- Two
  Payload <- ReopenedTwice
  Configured = {"github"}
  MaxAttempts = 2
  Faults = {}
  MaxFaults = 0
SPECIFICATION Spec
INVARIANTS
  EveryReopenQueued
