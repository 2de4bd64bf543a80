SPECIFICATION Spec
CONSTANTS
  Coins = {BTC, ETH, USDT}
  Fixed = USDT
  Amounts = {0, 1, 2}
  MaxWaiting = 4
  None = None
INVARIANTS TypeOK EstimateIsCurrent MessageAgrees
PROPERTIES EstimateComes
