SPECIFICATION Spec
CONSTANTS
  Kinds = {"initial"}
  Edits <- MCGoodEdits
  Reserved = 4
  MaxTokens = 0
  MaxCommits = 0
  MaxEvents = 1
  MaxErrors = 1
  MaxKills = 1
  MaxStrays = 0
  MayLeave = {0}
  MayOutlive = {}
PROPERTIES
  RetryIsAuthorised
CHECK_DEADLOCK FALSE
