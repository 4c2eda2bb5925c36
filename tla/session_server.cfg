SPECIFICATION Spec
CONSTANTS
  a = a
  b = b
  r1 = r1
  r2 = r2
  r3 = r3
  s1 = s1
  s2 = s2
  NoOne = NoOne
  Runs = {r1, r2}
  Servers = {s1, s2}
  Accounts = {a}
  MaxTries = 1
  MayFail = FALSE
INVARIANTS TokenForItsServer
CHECK_DEADLOCK FALSE
