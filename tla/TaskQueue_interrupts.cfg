\* The main loop and two interrupt levels share a queue of three slots.
SPECIFICATION FairSpec
CONSTANTS
  TasksLen = 3
  Levels = 2
  MaxPosts = 7
INVARIANTS CountBound FifoUnlessOverrun
PROPERTIES LostOnlyByOverrun ImplementsFifo EveryTaskRuns
