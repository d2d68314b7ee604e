CONSTANTS
  p1 = p1
  h1 = h1
  h2 = h2
  NoSHA = NoSHA
  PRs = {p1}
  Heads = {h1, h2}
  Fingerprints = {}
  Requests <- Three
  Payload <- MergeRequest
  Configured = {"gitlab"}
  MaxAttempts = 2
  Faults = {"crash", "stop", "db", "gone"}
  MaxFaults = 2
SPECIFICATION Spec
INVARIANTS
  TypeOK
  OneJobPerHead
  AcknowledgedIsKept
  NoLostWakeup
  IntakeInv
PROPERTIES
  ImplementsService
