CONSTANTS
  usdc = usdc  weth = weth
  Coins = {usdc, weth}
  Lp = Lp
  Spender = Spender
  Err = Err
  None = None
  Funds = 1
  Amounts = {1}
  MaxActions = 3
SPECIFICATION Spec
INVARIANTS TypeOK MergedIsSequential DeltasExplainState ReducedApplies Conserved OnePerId
CHECK_DEADLOCK FALSE
