SPECIFICATION Spec
CONSTANTS
  Class = {"A", "B", "M"}
  File <- MCFile
  FileOf <- MCFileOf
  Dependencies <- MCDependencies
  ReservedLo = 10
  ReservedWidth = 10
  PyCompressions = {TRUE, FALSE}
  PyDirections = {TRUE, FALSE}
  PySerializeResults = {TRUE, FALSE}
  Nested = {}
  Splits = {FALSE}
  MaxStreams = 2
  MaxMessages = 3
  MaxUnserialized = 1
  EventClasses = {"A", "B"}
  MetadataClasses = {"M"}
  SharedIds = FALSE
  ScanUncompressed = FALSE
  LateScan = FALSE
  Crashes = TRUE
INVARIANTS DependenciesFirst PyPositionsAddress PyNoEventLeftOut PyNoError PySizeExact PyDiscoveryExact
PROPERTIES PyImplementsEventReader
CHECK_DEADLOCK FALSE
