SPECIFICATION RTSpec
CONSTANTS
  Class = {"A", "M"}
  File <- MCFile
  FileOf <- MCFileOf
  Dependencies <- MCDependencies
  ExtensionFiles <- MCExtensionFiles
  ReservedLo = 2
  ReservedWidth = 10
  OpenResults = {TRUE}
  SerializeResults = {TRUE}
  Compressions = {"UNCOMPRESSED"}
  LateCompressions = {}
  FirstIds = {}
  MaxCells = 100
  Calls = {"next", "new_metadata", "next_with_metadata", "skip_to_next_metadata"}
  Habits = {}
  WantedClass = "A"
  Resources = {TRUE, FALSE}
  MaxStreams = 1
  MaxMessages = 4
  EventClasses = {"A"}
  MetadataClasses = {"M"}
  Directions = {TRUE, FALSE}
  MixedDirections = FALSE
  Crashes = FALSE
INVARIANTS HandedRight SkipReachesNextBlock SkipRefusesAtEnd
CHECK_DEADLOCK FALSE
