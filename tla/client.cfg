SPECIFICATION FairSpec
CONSTANTS
  r1 = r1
  r2 = r2
  r3 = r3
  m1 = m1
  m2 = m2
  Requests = {r1, r2}
  Relays = {m1}
  MaxPushes = 2
  EventsCap = 1
  MayTimeOut = TRUE
  MayClose = TRUE
INVARIANTS TypeOK OneInFlight PushesInOrder RepliesInStep
PROPERTIES CallsReturn PushesShown
CHECK_DEADLOCK FALSE
