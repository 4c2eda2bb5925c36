SPECIFICATION FairSpec
CONSTANTS
  NumSeats = 2
  TokensPerPlayer = 2
  TrackSquares = 4
  HomeStretchSquares = 1
  YardExitRoll = 2
  StartOffset <- StartsOfFour
  StarOffset = 3
  Modes = {TRUE, FALSE}
  MayBreak = {1}
  MinHome = 2
  MaxLag = 2
  MaxTaps = 1
  MaxMatches = 2
INVARIANTS TypeOK SomeoneActs CaptureRule Lockstep
PROPERTIES TokensAdvance TurnEnds EndReachesAll
CHECK_DEADLOCK FALSE
