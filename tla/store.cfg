SPECIFICATION Spec
CONSTANTS
  a = a
  b = b
  c = c
  w1 = w1
  w2 = w2
  o1 = o1
  k1 = k1
  k2 = k2
  i1 = i1
  t1 = t1
  NoOne = NoOne
  Workers = {w1, w2}
  Handles = {a, b, c}
  Admins = {a}
  Orgs = {o1}
  Codes = {k1}
  Items = {i1}
  Todos = {t1}
  Cost <- MCCost
  MaxEarned = 1
  StoreMayFail = TRUE
INVARIANTS IInv SeatsPaid Ledger ProfilesComplete
PROPERTIES Implements
SYMMETRY Symmetry
CHECK_DEADLOCK FALSE
