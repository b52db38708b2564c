SPECIFICATION FairSpec
CONSTANTS
  Users <- MCUsers
  Owner <- MCOwner
  Devices = {"ann1", "ann2", "bob1"}
  NoDevice = "none"
  UserOf <- MCUserOf
  Automatic = {"ann2", "bob1"}
  Advertising = {"ann1", "ann2", "bob1"}
  MaxTokens <- MCMaxTokens
  DeviceLabels <- MCDeviceLabels
  InitialDevices = {"ann1", "bob1"}
  InitialMembers <- MCInitialMembers
  Managed = {"ann2"}
  Watchers = {}
  Suspensions = {}
  MaxWorks = 1
  MaxLeases = 2
  Labels = {"hold"}
  Private = FALSE
  Policies = {}
  Budgets = {}
  InitialPolicy <- MCPolicy
  InitialBudget = 6
  MemberSettings = {}
  IssueEvents <- MCOpenedOnly
  Usages <- MCOneUsage
  MaxVersion = 1
  LastPhase = 0
  OrphanAfter = 1
  OfferAfter = 1
  StaleAfter = 1
  RecoveryWindow = 1
  MaxAffinity = 1
PROPERTIES
  OffersAreResolved
  HandoversAreResolved
  OrphansAreReclaimed
