SPECIFICATION Spec
CONSTANTS
  InitKey <- MCInitKey
  InitKids <- MCInitKids
  NumThreads = 2
  Work <- MCNeighbours
  MaxOps <- Once
  Fixers <- FirstFixes
INVARIANTS
  TypeOK
  UpdateIsVisible
  OthersUndisturbed
  VersionsSorted
  NeverTakenBack
  SumIsSize
