\* Two slots and two tasks, one interrupt level that posts; the tick counter and the timer sequence are narrow and wrap.
SPECIFICATION DispatcherFairSpec
CONSTANTS
  TasksLen = 1
  Levels = 1
  MaxPosts = 2
  TimersLen = 2
  Work = {"blink", "resend"}
  TickMod = 3
  SeqMod = 3
  MaxClock = 4
  MaxPeriod = 2
  MaxSetTimer = 3
  MaxRestart = 1
INVARIANTS
  OneSlotPerTask
PROPERTIES
  FiresOnce
  EarlyOnlyAcrossWrap
  StaleIdHarmless
  TimerDelivered
