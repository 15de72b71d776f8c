SPECIFICATION Spec
CONSTANTS
    Key = {1, 2, 3, 4, 5, 6, 7, 8, 9}
    Bound = {3, 5, 8}
    N = 6
INVARIANTS
    StepExists
    TypeOK
    EveryKeyIsFound
    Balanced
    StepKeepsLeaves
    QueriesAnswer
PROPERTY
    NoEndlessRebalancing
