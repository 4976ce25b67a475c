SPECIFICATION FairSpec
CONSTANTS
  idle_gateway = idle_gateway
  start = start
  heartbeat = heartbeat
  idle_route = idle_route
  Tasks <- MCTasks
  Initial <- MCInitial
  Submits <- MCSubmits
  CAPACITY = 3
  Shutters = {listener}
  Stop = Stop
  None = None
INVARIANTS TasksKept OneTaskAfterShutdown
PROPERTIES ShutdownCompletes TasksRun
CHECK_DEADLOCK FALSE
