SPECIFICATION ClientSpec
CHECK_DEADLOCK FALSE
CONSTANTS
  a = a
  b = b
  c = c
  ta = ta
  tb = tb
  approval = approval
  input_b = input_b
  unknown = unknown
  q = q
  None = None
  Other = Other
  Threads = {a, b}
  Turns = {ta, tb}
  Active = {ta, tb}
  Asks = {approval, input_b, unknown}
  Supported = {approval, input_b}
  Questions = {q}
  ThreadOf <- MCThreadOf
  TurnOf <- MCTurnOf
  PartsOf <- MCPartsOf
  MaxInteractionId = 2
  MaxRequests = 2
  MaxSent = 3
  MaxStray = 1
  Parts = {"connection", "history", "longer", "writers", "listing", "inference", "message"}
  PolledThreads = {a, b}
  ListedThreads = {a, b, c}
  Overlaps = {TRUE, FALSE}
  Limit = 1
  Starts <- MCStarts
  ChangedThreads = {a, b, c}
  InitialThreads = {a}
  MaxConnections = 4
  MaxTurns = 2
  MaxOperations = 3
  MaxTime = 3
  HistoryFailures = 1
  ListingFailures = 1
  InferenceFailures = 1
INVARIANTS
  ClientTypeOK
  StreamKeepsItsOrder
  QuestionsAreSettledOnce
  ThreadPollsAreFresh
  ListingsAreComplete
  ChangesAreAppliedOnce
  LeasesAreTheWriters
  TurnsRunAsAsked
  MessagesAreUnderstood
PROPERTY InteractionKeepsItsQuestion
