SPECIFICATION RetrySpec
CONSTANTS
  NUM_PROCESSES = 2
  Record = {r1}
  MIN_OPS_BEFORE_READ = 1
  MaxEpoch = 6
INVARIANT
  NodesAreProtected
