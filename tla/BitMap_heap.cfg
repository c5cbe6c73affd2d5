SPECIFICATION Spec
CONSTANTS
    W = 3
    MapBits = 8
    Lengths = {1, 2, 4}
    Contexts = {0, 1}
INVARIANTS
    HeldIsBusy
    FreedIsFound
PROPERTIES
    LostOnlyTwoWays
    HeapSpec
