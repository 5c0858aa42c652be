CONSTANTS
  NPaths = 3
  Scores = {1, 2, 3}
  Primary = 2
  ReturnToPrimary = TRUE
  ImprovePct = 10
  MinHold = 1
  RecoveryHold = 2
  UpdateConfigs <- NoUpdates
  MaxTime = 3
  MaxChanges = 2
SPECIFICATION Spec
INVARIANT FailoverTriggersCounted
