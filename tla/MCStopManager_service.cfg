SPECIFICATION FairSpec
CONSTANTS
  Active = {a1}
  Passive = {p1}
  Replaceable = {tun1, tun2}
  Stoppers = {user}
  Waiters = {main}
  TimedWaiters = {poller}
  NoOne = NoOne
INVARIANTS EndIsRight NoDeafWorker
PROPERTIES StopCompletes WaitersReturn ImplementsService
CHECK_DEADLOCK FALSE
