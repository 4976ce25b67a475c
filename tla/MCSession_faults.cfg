SPECIFICATION FairSpec
CONSTANTS
  Secrets = {TRUE, FALSE}
  Ips = {ip1}
  Lists = {l1, l2}
  EPOCHS = 4
  MAX_CRASHES = 1
  MAX_CHANGES = 1
  MAX_LOSSES = 1
  MAX_FLIGHT = 1
  RESTARTS = TRUE
  NoIp = NoIp
  NoList = NoList
  NoMsg = NoMsg
INVARIANTS SessionSound
PROPERTIES SessionReestablished ListConverges
