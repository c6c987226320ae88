SPECIFICATION FairSpec
CONSTANTS
  cart = cart
  Services <- OneService
  DefaultServices <- NoService
  PasswordsA <- OddPasswords
  PasswordsB <- EvenPasswords
  MaxHours = 1
  MaxDeployedAt = 0
  MaxEdits = 0
  MaxStacks = 1
  MaxFaults = 1
  BornActive <- Always
  ListLag = FALSE
  CacheLag = FALSE
  BackupEnabled = FALSE
  SilentErrors = FALSE
INVARIANT SomeoneAnswers
PROPERTY EitherCanGo
