SPECIFICATION ServicesSpec
CONSTANTS
  Kinds = {"initial"}
  Edits <- MCGoodEdits
  Reserved = 2
  MaxTokens = 1
  MaxCommits = 0
  MaxEvents = 2
  MaxErrors = 1
  MaxKills = 1
  MaxStrays = 0
  MayLeave = {0}
  MayOutlive = {}
  Jobs = {"status"}
  MaxTexts = 3
  MaxAttempts = 3
  MaxRestarts = 1
  MaxRetries = 1
  Browsers = {"firefox", "chromium"}
  Requests = {"r1", "r2"}
  MaxTickets = 1
  Callers = {"c1", "c2"}
  Limit = 2
  Window = 2
  MaxTime = 4
  MaxCalls = 3
  Modes = {"batch", "terminal", "confirm"}
  PipeSize = 1
  QueueSize = 2
INVARIANTS
  TraceFollowsTranscript
  StopsKeepUsage
  CommentIsCurrent
  OneSessionPerSignIn
  RefusalsAreDue
  OutputIsComplete
  NothingLeftBehind
PROPERTIES
  UsageNeverFalls
  StopsWhenRevoked
  TextsAreDecided
  TicksGoOn
CHECK_DEADLOCK FALSE
