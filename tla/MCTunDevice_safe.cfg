SPECIFICATION TunFairSpec
CONSTANTS
  Receivers = {udp}
  TunIps = {ip1, ip2}
  MAX_DEVICES = 3
  MAX_MESSAGES = 4
  FAULTS = TRUE
  NoTunIp = NoTunIp
  NoDev = NoDev
  NoThread = NoThread
INVARIANTS OneAtATime DeviceHasCurrentIp
PROPERTIES ReplacementCompletesInService
CHECK_DEADLOCK FALSE
