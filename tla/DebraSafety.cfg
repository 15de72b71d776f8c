SPECIFICATION Spec
CONSTANTS
  NUM_PROCESSES = 2
  Record = {r1}
  MIN_OPS_BEFORE_READ = 2
  MaxEpoch = 6
INVARIANTS
  TypeOK
  NoUseAfterFree
  EpochLag
  ScanInRange
