CONSTANTS
  Scenario = "isolated"
  Blocks <- MCBlocks
  Genesis = "b1"
  previous <- MCprevious
  block_num <- MCblock_num
  dpos_irreversible <- MCdpos_irreversible
  Chain <- MCChain
  Invalid = {}
  MaxRestarts = 0
  MaxCrashes = 1
  ProducerRepetitions = 1
  MaxTracked = 1024
SPECIFICATION Spec
CHECK_DEADLOCK FALSE
INVARIANTS NeverDown
