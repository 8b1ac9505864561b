SPECIFICATION Spec
CONSTANTS
  Worker = {w1, w2}
  Postfixes <- MCPostfixes
  Regular = {TRUE}
  Faults = {"write"}
  Habits = {}
  MaxStreams = 2
  MaxMessages = 1
  NoStream = NoStream
INVARIANTS FailureReported
CHECK_DEADLOCK FALSE
