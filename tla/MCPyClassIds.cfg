SPECIFICATION Spec
CONSTANTS
  Class = {"A", "B", "M"}
  File <- MCFile
  FileOf <- MCFileOf
  Dependencies <- MCDependencies
  ReservedLo = 10
  ReservedWidth = 10
  PyCompressions = {TRUE, FALSE}
  PyDirections = {TRUE, FALSE}
  PySerializeResults = {TRUE}
  Nested = {}
  Splits = {FALSE}
  MaxStreams = 1
  MaxMessages = 2
  MaxUnserialized = 0
  EventClasses = {"A", "B"}
  MetadataClasses = {"M"}
  SharedIds = TRUE
  ScanUncompressed = FALSE
  LateScan = FALSE
  Crashes = FALSE
INVARIANTS PyMetadataHasOddIds
CHECK_DEADLOCK FALSE
