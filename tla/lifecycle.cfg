SPECIFICATION Spec
CONSTANTS
  cart = cart
  order = order
  Services <- BothServices
  DefaultServices <- NoService
  Passwords <- SixPasswords
  MaxHours = 1
  MaxDeployedAt = 0
  MaxEdits = 2
  MaxStacks = 2
  MaxFaults = 2
  BornActive <- Always
  ListLag = FALSE
  CacheLag = TRUE
  BackupEnabled = TRUE
  SilentErrors = FALSE
SYMMETRY ServiceSymmetry
INVARIANTS
  TypeOK
  ProvisionedBeforeDeployed
  InactiveIsScaledDown
  RunningIsComplete
  ReadyIsComplete
  CleanupSparesTheLiving
  FinalizerGuards
  SecretIsTheRecord
  CleanedIsClean
