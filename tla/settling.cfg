SPECIFICATION FairListsSpec
CONSTANTS
  cart = cart
  order = order
  Services <- BothServices
  DefaultServices <- OneService
  Passwords <- SixPasswords
  MaxHours = 1
  MaxDeployedAt = 0
  MaxEdits = 2
  MaxStacks = 1
  MaxFaults = 1
  BornActive <- Either
  ListLag = TRUE
  CacheLag = TRUE
  BackupEnabled = FALSE
  SilentErrors = TRUE
PROPERTIES
  DeletionCompletes
  InactiveIsParked
  ReactivationRecovers
  RunningIsServed
