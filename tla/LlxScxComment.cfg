SPECIFICATION Spec
CONSTANTS
  NumThreads = 2
  MaxRec = 8
  MaxNode = 18
  InitKids <- MCInitKids
  Plans <- MCDeepest
INVARIANT
  RetiredAfterItsNodes
