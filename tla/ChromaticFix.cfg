SPECIFICATION Spec
CONSTANTS
    Key = {1, 2, 3, 4, 5, 6, 7, 8}
    Bound = {3}
    N = 4
INVARIANT
    EverythingIsFixed
