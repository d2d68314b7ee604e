CONSTANTS
  a = a
  b = b
  Fingerprints = {a, b}
  MinSeverity = "minor"
  MaxComments = 1
  Engines = 2
  Outputs <- Printed
  MaxOutput = 17
  Helpers <- Tame
  Lists <- ManyLists
  Seen <- AnySeen
SPECIFICATION FairSpec
INVARIANTS
  TypeOK
  ExtractsLastPayload
  AnswerUsed
  TimedOutGroupDead
  SevereFirst
  EveryFindingPlaced
PROPERTIES
  ReviewReturns
