SPECIFICATION SystemSpec
CONSTANTS
  Users <- MCUsers
  Owner <- MCOwner
  Devices = {"bob1"}
  NoDevice = "none"
  UserOf <- MCUserOf
  Automatic = {"bob1"}
  Advertising = {"bob1"}
  MaxTokens <- MCMaxTokens
  DeviceLabels <- MCDeviceLabels
  InitialDevices = {"bob1"}
  InitialMembers <- MCInitialMembers
  Managed = {}
  Watchers = {}
  Suspensions = {}
  MaxWorks = 1
  MaxLeases = 2
  Labels = {}
  Private = FALSE
  Policies = {}
  Budgets = {}
  InitialPolicy <- MCPolicy
  InitialBudget = 5
  MemberSettings = {}
  IssueEvents <- MCEdited
  Usages <- MCUsages
  MaxVersion = 1
  LastPhase = 0
  OrphanAfter = 0
  OfferAfter = 0
  StaleAfter = 0
  RecoveryWindow = 0
  MaxAffinity = 0
  MaxReviews = 2
  Drifts = {}
  Losses = {}
  Closures = {}
  Mentions <- MCNoMentions
  Dispatchers = {"d1"}
  Nobody = "nobody"
  MaxAttempts = 1
  MaxCrashes = 1
  MaxLapses = 0
  Retriers = {"ann"}
INVARIANTS
  RevisingMeansInFlight
