SPECIFICATION PollFairSpec
CONSTANTS
  SOCKETS = 2
  CAPACITY = 1
  Switchers = {t1, t2}
  MAX_SETS = 2
  MAX_DATAGRAMS = 2
  NoThread = NoThread
INVARIANTS LoopAndContextAgree
PROPERTIES SwitchesApplied StopEndsLoop OwnTokenRead
CHECK_DEADLOCK FALSE
