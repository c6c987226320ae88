SPECIFICATION FairSpec
CONSTANTS
  cart = cart
  order = order
  Services <- BothServices
  DefaultServices <- OneService
  Passwords <- SixPasswords
  MaxHours = 3
  MaxDeployedAt = 0
  MaxEdits = 0
  MaxStacks = 1
  MaxFaults = 0
  BornActive <- Always
  ListLag = FALSE
  CacheLag = TRUE
  BackupEnabled = FALSE
  SilentErrors = FALSE
PROPERTY ExpiredIsDeactivated
