SPECIFICATION Spec
CONSTANTS
  cart = cart
  order = order
  Services <- BothServices
  DefaultServices <- NoService
  Passwords <- SixPasswords
  MaxHours = 1
  MaxDeployedAt = 2
  MaxEdits = 2
  MaxStacks = 1
  MaxFaults = 2
  BornActive <- Always
  ListLag = FALSE
  CacheLag = FALSE
  BackupEnabled = FALSE
  SilentErrors = FALSE
SYMMETRY ServiceSymmetry
INVARIANTS
  CredentialsWork
  NoneLeftBehind
PROPERTIES
  RolloutReachesAll
  ImplementsLifecycle
