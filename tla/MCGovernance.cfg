SPECIFICATION Spec
CONSTANTS
  Users <- MCUsers
  Owner <- MCOwner
  Devices = {"ann1", "bob1"}
  NoDevice = "none"
  UserOf <- MCUserOf
  Automatic = {"ann1", "bob1"}
  Advertising = {"ann1", "bob1"}
  MaxTokens <- MCMaxTokens
  DeviceLabels <- MCDeviceLabels
  InitialDevices = {"ann1", "bob1"}
  InitialMembers <- MCInitialMembers
  Managed = {}
  Watchers = {}
  Suspensions = {TRUE}
  MaxWorks = 1
  MaxLeases = 2
  Labels = {"hold"}
  Private = FALSE
  Policies <- MCPolicies
  Budgets = {6}
  InitialPolicy <- MCPolicy
  InitialBudget = 6
  MemberSettings <- MCSettings
  IssueEvents <- MCIssueEvents
  Usages <- MCOneUsage
  MaxVersion = 1
  LastPhase = 0
  OrphanAfter = 1
  OfferAfter = 1
  StaleAfter = 1
  RecoveryWindow = 1
  MaxAffinity = 1
INVARIANTS
  WorkShowsLease
  RunningIsAuthorised
  PublishingIsApproved
