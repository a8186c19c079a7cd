CONSTANTS
  Facets = {"policy", "tag"}
  Entries = {a, b, t}
  a = a
  b = b
  t = t
  Vocabularies <- MCVocabularies
  SeedVocabulary <- MCSeed
  Requests = {r1, r2}
  MaxVersion = 3
  MaxArrivals = 4
  MaxFaults = 1
SPECIFICATION Spec
SYMMETRY Symmetry
INVARIANTS
  VersionNamesOneVocabulary
  OneActive
  LiveIsActive
PROPERTIES
  RecordIsKept
  LabelFixIsFree
  RemovedKeepLabels
CHECK_DEADLOCK FALSE
