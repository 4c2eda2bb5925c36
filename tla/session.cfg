SPECIFICATION Spec
CONSTANTS
  a = a
  b = b
  r1 = r1
  r2 = r2
  r3 = r3
  s1 = s1
  s2 = s2
  NoOne = NoOne
  Runs = {r1, r2}
  Servers = {s1, s2}
  Accounts = {a, b}
  MaxTries = 1
  MayFail = TRUE
INVARIANTS TypeOK Remembered OnlineIsRegistered
SYMMETRY Symmetry
CHECK_DEADLOCK FALSE
