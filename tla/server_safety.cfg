SPECIFICATION Spec
CONSTANTS
  a = a
  b = b
  c1 = c1
  c2 = c2
  c3 = c3
  o1 = o1
  o2 = o2
  NoOne = NoOne
  Handles = {a, b}
  Conns = {c1, c2}
  Orgs = {o1, o2}
  Shared = FALSE
  InitMembers <- MCMembers
  OutboxSize = 1
  MaxRequests = 2
  MayHangUp = {}
  Accounts <- AnyAccount
  MayTimeOut = TRUE
  MayStall = TRUE
  StoreMayFail = TRUE
INVARIANTS IInv OneConnectionPerHandle OrgIsolation NoMissedPresence
SYMMETRY Symmetry
CHECK_DEADLOCK FALSE
