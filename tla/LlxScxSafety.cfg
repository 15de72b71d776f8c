SPECIFICATION Spec
CONSTANTS
  NumThreads = 2
  MaxRec = 10
  MaxNode = 20
  InitKids <- MCInitKids
  Plans <- MCPlans
INVARIANTS
  TypeOK
  Assertions
  RemovedIsUnreachable
  RetireSound
  RetireComplete
PROPERTIES
  AtomicUpdates
  FinalizedForever
