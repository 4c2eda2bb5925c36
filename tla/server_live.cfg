SPECIFICATION FairSpec
CONSTANTS
  a = a
  b = b
  c1 = c1
  c2 = c2
  c3 = c3
  o1 = o1
  o2 = o2
  NoOne = NoOne
  Handles = {a, b}
  Conns = {c1, c2, c3}
  Orgs = {o1}
  Shared = TRUE
  InitMembers <- MCMembers
  OutboxSize = 1
  MaxRequests = 1
  MayHangUp = {c2}
  Accounts <- Devices
  MayTimeOut = FALSE
  MayStall = FALSE
  StoreMayFail = FALSE
PROPERTIES RosterConverges HandleReleased
CHECK_DEADLOCK FALSE
