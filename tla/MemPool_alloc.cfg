SPECIFICATION Spec
CONSTANTS
    W = 2
    NBlocks = 5
    Contexts = {0, 1, 2}
PROPERTIES
    ImplementsHeap
    NullMeansFull
