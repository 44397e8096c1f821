CONSTANTS
  ProducerRepetitions = 1
  MaxTracked = 8
  SystemAccount = "snax"
  Schedules <- ShrinkSchedules
  MaxBlockNum = 14
  MaxMissed = 0
  MaxRestarts = 0
SPECIFICATION Spec
INVARIANTS PendingOutranksHead
CHECK_DEADLOCK FALSE
