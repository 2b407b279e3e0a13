SPECIFICATION Spec
CHECK_DEADLOCK FALSE
CONSTANTS
  a = a
  b = b
  c = c
  fault1 = fault1
  NotLoaded = NotLoaded
  TurnError = TurnError
  None = None
  Parts = {"polled", "reselected", "refreshed", "numbered", "overlapping", "told", "broken", "lost", "browsing", "writing", "turning", "releasing", "contended", "cards", "deferring"}
  PollChanges = 1
  PollCommands = 2
  ThreadCommands = 3
  CardThreads = {a, b}
  CardConnections = 2
  CardAsks = 1
  CardCommands = 5
INVARIANTS
  ApplicationTypeOK
  ErrorsAreWhatIsWrong
  TurnsAreShownOnce
  RequestsAreAnswered
  WritableIsHeld
  CardsAreTheQuestions
  DeferralIsTransparent
PROPERTY PollKeepsLive
