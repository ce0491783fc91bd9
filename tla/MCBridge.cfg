SPECIFICATION BridgeSpec
CONSTANTS
  Parts = {"context", "session", "open", "assemble", "solve"}
  Requests <- MCRequests
  Kind <- MCKind
  TargetOf <- MCTargetOf
  MaxEmitted = 1
  Modes = {"poll", "timed", "forever"}
  MaxInbound = 2
  MaxWakes = 1
  Callers = 1
  Cancellable = {"stream"}
  None = None
  Calls = {hello, single, stream}
  Hello = hello
  Streams = {stream}
  MaxEvents = 1
  MayBreak = TRUE
  Keys = {good, bad}
  Missing = {bad}
  Profiles = {simple, advanced}
  MaxOpenGeneration = 4
  NoPath = NoPath
  Coordinates = {0, 1, 2}
  Frames <- MCLengths
  Upstreams = 2
  MaxAssembleGeneration = 4
  Null = Null
  Inputs = {first, second, unwired}
  Unreadable = {unwired}
  MaxRuns = 2
  NoResult = NoResult
INVARIANTS
  CancelledIsNotAnswered
  EachItsOwnFrames
  NothingLeftPending
  SessionsHaveOneOwner
  
  SolvingEnds
PROPERTIES
  RefinesServer
  WaitersReturn
  ClientIsAnswered
CHECK_DEADLOCK FALSE
