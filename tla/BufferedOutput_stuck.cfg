SPECIFICATION OutputSpec
CONSTANTS
  SIZE = 2
  IndexMod = 256
  MaxItems = 4
  Items = {1, 2, 3, 4}
  MayTimeOut = FALSE
PROPERTY EveryByteSent
CHECK_DEADLOCK FALSE
