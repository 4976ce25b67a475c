SPECIFICATION Spec
CONSTANTS
  Ids = {peer}
  Keys = {k1, k2, k3, k4}
  Metrics = {1, 2}
  Rts = {1}
  DEFAULT_RT = 9
  CHANNEL_NUM = 1
  FIRST_LATENCY = TRUE
  ONLY_P2P = FALSE
  READ_IDLE = 1
  Receivers = {w1}
SYMMETRY KeySymmetry
INVARIANTS ListsSound
PROPERTIES DirectRouteKept
