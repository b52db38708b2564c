SPECIFICATION Spec
CONSTANTS
  Kinds = {"initial", "revision"}
  Edits <- MCEdits
  Reserved = 4
  MaxTokens = 0
  MaxCommits = 1
  MaxEvents = 1
  MaxErrors = 1
  MaxKills = 1
  MaxStrays = 1
  MayLeave = {0}
  MayOutlive = {"kill", "run"}
INVARIANTS
  WorkerTypeOK
  EvidenceIsTrue
  PhasesInStep
CHECK_DEADLOCK FALSE
