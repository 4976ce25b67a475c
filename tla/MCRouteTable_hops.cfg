SPECIFICATION Spec
CONSTANTS
  Ids = {peer}
  Keys = {k1, k2, k3}
  Metrics = {1, 2, 3}
  Rts = {1, 2}
  DEFAULT_RT = 9
  CHANNEL_NUM = 2
  FIRST_LATENCY = FALSE
  ONLY_P2P = FALSE
  READ_IDLE = 1
  Receivers = {w1, w2}
SYMMETRY KeySymmetry
INVARIANTS ListsSound
PROPERTIES NeverLonger
