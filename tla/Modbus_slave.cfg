SPECIFICATION Spec
CONSTANTS
    Chunks = 5
    MaxFull = 2
    Header = 12
    ReadBytes = {5, 19}
    StaticBytes = {4, 32}
INVARIANTS
    
    AnsweredOrExcused
    
PROPERTIES
    RequestSettles
