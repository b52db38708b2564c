SPECIFICATION Spec
CONSTANTS
  Users <- MCUsers
  Owner <- MCOwner
  Devices = {"ann1", "ann2", "bob1"}
  NoDevice = "none"
  UserOf <- MCUserOf
  Automatic = {"ann2", "bob1"}
  Advertising = {"ann1", "ann2", "bob1"}
  MaxTokens <- MCMaxTokens
  DeviceLabels <- MCDeviceLabels
  InitialDevices = {"ann1", "bob1"}
  InitialMembers <- MCInitialMembers
  Managed = {"bob1"}
  Watchers = {}
  Suspensions = {}
  MaxWorks = 2
  MaxLeases = 2
  Labels = {"hold"}
  Private = FALSE
  Policies = {}
  Budgets = {}
  InitialPolicy <- MCPolicy
  InitialBudget = 3
  MemberSettings = {}
  IssueEvents <- MCOpenedOnly
  Usages <- MCUsages
  MaxVersion = 1
  LastPhase = 0
  OrphanAfter = 1
  OfferAfter = 1
  StaleAfter = 2
  RecoveryWindow = 1
  MaxAffinity = 1
INVARIANTS
  TypeOK
  OneActivePerUser
  ActiveIsCurrent
  ReservationLedger
  SettledWhenOver
PROPERTIES
  ReviewIsFrozen
  CheckpointIsFenced
  NoEarlyHandover
  UnknownIsNotFree
  ImplementsAllocation
