CONSTANTS
  ProducerRepetitions = 2
  MaxTracked = 8
  SystemAccount = "snax"
  Schedules <- TurnSchedules
  MaxBlockNum = 14
  MaxMissed = 1
  MaxRestarts = 0
SPECIFICATION Spec
INVARIANTS NeverDoubleConfirms
CHECK_DEADLOCK FALSE
