SPECIFICATION Spec
CONSTANTS
  cart = cart
  order = order
  Services <- BothServices
  DefaultServices <- OneService
  Passwords <- SixPasswords
  MaxHours = 1
  MaxDeployedAt = 0
  MaxEdits = 0
  MaxStacks = 1
  MaxFaults = 1
  BornActive <- Always
  ListLag = FALSE
  CacheLag = FALSE
  BackupEnabled = FALSE
  SilentErrors = TRUE
INVARIANT CleanedIsClean
