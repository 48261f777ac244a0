CONSTANTS
  None = None
  Start = 3
  Trades <- PlusMinusOne
  Transfers = {2}
  Sides = {1}
  Sec = 2
  Day = 2
  MaxTime = 4
  MaxMoves = 2
  MaxPosts = 1
  MaxFaults = 1
SPECIFICATION Spec
INVARIANTS FlowIsLedger TrustedIsDayOpen DrawdownIsReal
CHECK_DEADLOCK FALSE
