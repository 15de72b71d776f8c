SPECIFICATION NonBlockingSpec
CONSTANTS
  NumThreads = 2
  MaxRec = 8
  MaxNode = 18
  InitKids <- MCInitKids
  Plans <- MCDeepest
PROPERTIES
  NonBlocking
