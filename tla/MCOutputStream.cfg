SPECIFICATION Spec
CONSTANTS
  Class = {"A", "B", "C"}
  File <- MCFile
  FileOf <- MCFileOf
  Dependencies <- MCDependencies
  ExtensionFiles <- MCExtensionFiles
  ReservedLo = 2
  ReservedWidth = 10
  OpenResults = {TRUE}
  SerializeResults = {TRUE, FALSE}
  Compressions = {"UNCOMPRESSED", "LZ4"}
  LateCompressions = {"LZ4"}
  FirstIds = {}
  MaxCells = 9
INVARIANTS TypeOK NoAbort ClassIdsDistinct DefinedBeforeUse PositionsAddress FooterTruthful
CHECK_DEADLOCK FALSE
