SPECIFICATION Spec
CONSTANTS
    Pages = 2
    CellsPerPage = 2
    Contents = {a, b, c}
    EmptyCell = 100
    Blank = Blank
INVARIANTS
    DurableUntilErase
    VersionsDistinct
    LossBounded
PROPERTIES
    LaterPagesStay
