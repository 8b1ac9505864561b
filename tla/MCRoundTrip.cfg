SPECIFICATION RTSpec
CONSTANTS
  Class = {"A", "B", "M"}
  File <- MCFile
  FileOf <- MCFileOf
  Dependencies <- MCDependencies
  ExtensionFiles <- MCExtensionFiles
  ReservedLo = 2
  ReservedWidth = 10
  OpenResults = {TRUE}
  SerializeResults = {TRUE}
  Compressions = {"UNCOMPRESSED"}
  LateCompressions = {}
  FirstIds = {}
  MaxCells = 100
  Calls = {"next", "new_metadata", "all_metadata", "next_with_metadata"}
  Habits = {}
  WantedClass = "A"
  Resources = {TRUE}
  MaxStreams = 2
  MaxMessages = 2
  EventClasses = {"A", "B"}
  MetadataClasses = {"M"}
  Directions = {TRUE, FALSE}
  MixedDirections = FALSE
  Crashes = FALSE
INVARIANTS DiscoveryExact MetadataChangeSignalled
PROPERTIES ImplementsEventReader
CHECK_DEADLOCK FALSE
