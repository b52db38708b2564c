SPECIFICATION Spec
CONSTANTS
  Kinds = {"initial"}
  Edits <- MCGoodEdits
  Reserved = 4
  MaxTokens = 0
  MaxCommits = 0
  MaxEvents = 0
  MaxErrors = 0
  MaxKills = 1
  MaxStrays = 1
  MayLeave = {0}
  MayOutlive = {"kill"}
INVARIANTS
  EvidenceSurvives
CHECK_DEADLOCK FALSE
