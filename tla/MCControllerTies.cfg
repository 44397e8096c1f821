CONSTANTS
  Scenario = "faulty"
  Blocks <- MCBlocks
  Genesis = "b1"
  previous <- MCprevious
  block_num <- MCblock_num
  dpos_irreversible <- MCdpos_irreversible
  Chain <- MCChain
  Invalid = {"x9"}
  MaxRestarts = 2
  MaxCrashes = 0
  ProducerRepetitions = 1
  MaxTracked = 1024
SPECIFICATION Spec
CHECK_DEADLOCK FALSE
INVARIANTS StateMatchesHead
