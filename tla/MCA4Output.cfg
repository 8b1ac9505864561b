SPECIFICATION Spec
CONSTANTS
  Worker = {w1, w2}
  Postfixes <- MCPostfixes
  Regular = {TRUE, FALSE}
  Faults = {"rename", "open_target", "open_source"}
  Habits = {"close_early"}
  MaxStreams = 3
  MaxMessages = 1
  NoStream = NoStream
INVARIANTS DataKept MergedInOrder
PROPERTIES MergedEventually
CHECK_DEADLOCK FALSE
