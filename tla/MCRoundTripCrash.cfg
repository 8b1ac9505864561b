SPECIFICATION RTSpec
CONSTANTS
  Class = {"A", "M"}
  File <- MCFile
  FileOf <- MCFileOf
  Dependencies <- MCDependencies
  ExtensionFiles <- MCExtensionFiles
  ReservedLo = 2
  ReservedWidth = 10
  OpenResults = {TRUE}
  SerializeResults = {TRUE}
  Compressions = {"UNCOMPRESSED"}
  LateCompressions = {}
  FirstIds = {}
  MaxCells = 100
  Calls = {"next", "try_read"}
  Habits = {}
  WantedClass = "A"
  Resources = {TRUE, FALSE}
  MaxStreams = 2
  MaxMessages = 2
  EventClasses = {"A"}
  MetadataClasses = {"M"}
  Directions = {TRUE, FALSE}
  MixedDirections = FALSE
  Crashes = TRUE
INVARIANTS CutFileIsNoticed
PROPERTIES ImplementsEventReader ReadingEnds
CHECK_DEADLOCK FALSE
