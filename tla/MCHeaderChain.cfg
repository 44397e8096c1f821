CONSTANTS
  ProducerRepetitions = 1
  MaxTracked = 4
  SystemAccount = "snax"
  Schedules <- ShrinkSchedules
  MaxBlockNum = 11
  MaxMissed = 1
  MaxRestarts = 1
SPECIFICATION Spec
INVARIANTS TypeOK LibBehindProposed ConfirmCountAligned ProposedHasQuorum IrreversibleHasQuorum ValidatorAgrees ProposalVersionFits SomeProducerExtends
PROPERTIES LibFallsOnlyOnShrink
CHECK_DEADLOCK FALSE
