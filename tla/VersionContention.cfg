SPECIFICATION Spec
CONSTANTS
  InitKey <- MCSmallKey
  InitKids <- MCSmallKids
  NumThreads = 2
  Work <- MCContention
  MaxOps <- Twice
  Fixers <- NoFix
INVARIANTS
  UpdateIsVisible
  NeverTakenBack
  SumIsSize
  RetiredOnce
