CONSTANTS
  None = None
  Start = 3
  Trades <- PlusMinusOne
  Transfers = {2}
  Sides = {}
  Sec = 2
  Day = 2
  MaxTime = 5
  MaxMoves = 1
  MaxPosts = 0
  MaxFaults = 0
SPECIFICATION Spec
INVARIANT DepositIsNotProfit
CHECK_DEADLOCK FALSE
