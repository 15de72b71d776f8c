SPECIFICATION NonBlockingSpec
CONSTANTS
  InitKey <- MCInitKey
  InitKids <- MCInitKids
  NumThreads = 2
  Work <- MCHelp
  MaxOps <- Once
  Fixers <- SecondFixes
PROPERTY
  Completes
