SPECIFICATION FairSpec
CONSTANTS
  cart = cart
  order = order
  Services <- BothServices
  DefaultServices <- OneService
  Passwords <- SixPasswords
  MaxHours = 2
  MaxDeployedAt = 1
  MaxEdits = 2
  MaxStacks = 1
  MaxFaults = 0
  BornActive <- Always
  ListLag = FALSE
  CacheLag = TRUE
  BackupEnabled = FALSE
  SilentErrors = FALSE
PROPERTIES
  ActiveIsServed
  RolloutHappens
