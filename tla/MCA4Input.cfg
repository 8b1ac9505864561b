SPECIFICATION Spec
CONSTANTS
  Worker = {w1, w2, w3}
  FileName = {"a", "b"}
  Messages <- MCMessages
  Broken = {"b"}
  Throwing = TRUE
  MaxFiles = 2
  NoOne = NoOne
INVARIANTS PlacedOnce OutcomeRight NothingLeftBehind
PROPERTIES AllProcessed
CHECK_DEADLOCK FALSE
