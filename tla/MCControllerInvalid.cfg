CONSTANTS
  Scenario = "faulty"
  Blocks <- MCBlocks
  Genesis = "b1"
  previous <- MCprevious
  block_num <- MCblock_num
  dpos_irreversible <- MCdpos_irreversible
  Chain <- MCChain
  Invalid = {"x9"}
  MaxRestarts = 0
  MaxCrashes = 1
  ProducerRepetitions = 1
  MaxTracked = 1024
SPECIFICATION FairSpec
CHECK_DEADLOCK FALSE
INVARIANTS StateMatchesHead ChainIsDurable AtRest
PROPERTIES HeadNeverWorse ComesToRest
