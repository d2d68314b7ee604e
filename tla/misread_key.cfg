CONSTANTS
  a = a
  b = b
  Fingerprints = {a, b}
  MinSeverity = "minor"
  MaxComments = 1
  Engines = 1
  Outputs <- ReviewThenStatus
  MaxOutput = 17
  Helpers <- Tame
  Lists <- OneList
  Seen <- AnySeen
SPECIFICATION Spec
INVARIANTS
  KeyedObjectDecoded
