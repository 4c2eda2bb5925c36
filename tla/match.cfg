SPECIFICATION FairSpec
CONSTANTS
  Cells = {0, 1, 2, 3, 4, 5}
  Lines <- SmallLines
  MayTimeOut = TRUE
  MayBreak = TRUE
INVARIANTS BoardsAgree SameOutcome
PROPERTIES PlaysTicTacToe Concluded
CHECK_DEADLOCK FALSE
