SPECIFICATION AsyncSpec
CONSTANTS
  Inputs = {first, second}
  Unreadable = {}
  MaxRuns = 3
  NoResult = NoResult
INVARIANT OutputsAreOfInputs
CHECK_DEADLOCK FALSE
