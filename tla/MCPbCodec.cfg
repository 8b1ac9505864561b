SPECIFICATION Spec
CONSTANTS
  Group = 16
  MaxGroups = 4
  Fixed32Len = 2
  Fixed64Len = 3
  Schema <- MCSchema
  Tops = {"Ints", "Fixed", "Texts", "Nest"}
  Older <- MCOlder
  Edges <- MCEdges
  Strings <- MCStrings
  ByteStrings <- MCByteStrings
  EnumNumbers = {0, 16}
  MaxValues = 2
INVARIANTS WireRoundTrips ConcatenationMerges CutIsNoticed OlderReaderAgrees RefusalNamesFields TextRoundTrips
CHECK_DEADLOCK FALSE
