SPECIFICATION TunFairSpec
CONSTANTS
  Receivers = {tcp1, tcp2}
  TunIps = {ip1, ip2}
  MAX_DEVICES = 3
  MAX_MESSAGES = 2
  FAULTS = FALSE
  NoTunIp = NoTunIp
  NoDev = NoDev
  NoThread = NoThread
INVARIANTS NoAssertionFails
CHECK_DEADLOCK FALSE
