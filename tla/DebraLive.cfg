SPECIFICATION FairSpec
CONSTANTS
  NUM_PROCESSES = 2
  Record = {r1}
  MIN_OPS_BEFORE_READ = 2
  MaxEpoch = 2
PROPERTY
  EpochAdvances
