SPECIFICATION ClientLiveSpec
CHECK_DEADLOCK FALSE
CONSTANTS
  a = a
  b = b
  c = c
  ta = ta
  tb = tb
  approval = approval
  input_b = input_b
  unknown = unknown
  q = q
  None = None
  Other = Other
  Threads = {a, b}
  Turns = {ta, tb}
  Active = {ta}
  Asks = {approval, unknown}
  Supported = {approval}
  Questions = {q}
  ThreadOf <- MCThreadOf
  TurnOf <- MCTurnOf2
  PartsOf <- MCPartsOf2
  MaxInteractionId = 2
  MaxRequests = 3
  MaxSent = 2
  MaxStray = 1
  Parts = {"connection", "history", "listing"}
  PolledThreads = {a}
  ListedThreads = {a, b}
  Overlaps = {TRUE}
  Limit = 1
  Starts <- MCStarts
  ChangedThreads = {a, b, c}
  InitialThreads = {a}
  MaxConnections = 4
  MaxTurns = 2
  MaxOperations = 3
  MaxTime = 3
  HistoryFailures = 2
  ListingFailures = 2
  InferenceFailures = 1
PROPERTIES
  RequestsAndEventsEnd
  PollsEnd
