SPECIFICATION OutputSpec
CONSTANTS
  SIZE = 2
  IndexMod = 256
  MaxItems = 5
  Items = {1, 2, 3, 4, 5}
  MayTimeOut = TRUE
INVARIANTS  BytesConserved  PromptInOrder
PROPERTY WriteUnsticks
CHECK_DEADLOCK FALSE
