SPECIFICATION RingSpec
CONSTANTS
  SIZE = 3
  IndexMod = 4
  Items = {x, y}
  MaxItems = 7
INVARIANTS  TakenInOrder IndexedInOrder 
PROPERTY EveryItemTaken
