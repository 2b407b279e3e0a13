SPECIFICATION LiveSpec
CHECK_DEADLOCK FALSE
CONSTANTS
  a = a
  b = b
  c = c
  fault1 = fault1
  NotLoaded = NotLoaded
  TurnError = TurnError
  None = None
  Parts = {"polled", "refreshed", "reconciling", "serving", "cards"}
  PollChanges = 2
  PollCommands = 1
  ThreadCommands = 3
  CardThreads = {a, b}
  CardConnections = 2
  CardAsks = 1
  CardCommands = 4
PROPERTIES
  ApplicationCatchesUp
  WaitsEnd
