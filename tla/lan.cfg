SPECIFICATION LanSpec
CONSTANTS
  i1 = i1
  i2 = i2
  Instances = {i1, i2}
  Interval = 2
  TTL = 6
  Slots = 1
  Buffer = 2
  Copies = 2
INVARIANTS ListIsLive
SYMMETRY Symmetry
CHECK_DEADLOCK FALSE
