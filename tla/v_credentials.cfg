SPECIFICATION Spec
CONSTANTS
  cart = cart
  order = order
  Services <- BothServices
  DefaultServices <- OneService
  Passwords <- SixPasswords
  MaxHours = 1
  MaxDeployedAt = 0
  MaxEdits = 0
  MaxStacks = 1
  MaxFaults = 0
  BornActive <- Always
  ListLag = FALSE
  CacheLag = TRUE
  BackupEnabled = FALSE
  SilentErrors = FALSE
INVARIANT RecordedCredentialsWork
