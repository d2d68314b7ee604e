CONSTANTS
  a = a
  b = b
  Fingerprints = {a, b}
  MinSeverity = "minor"
  MaxComments = 1
  Engines = 1
  Outputs <- OneReview
  MaxOutput = 17
  Helpers <- Wild
  Lists <- OneList
  Seen <- AnySeen
SPECIFICATION FairSpec
PROPERTIES
  ReviewReturns
