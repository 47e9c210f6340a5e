SPECIFICATION PipelineSpec
CONSTANTS
  none = none
  NoHash = none
  Hash <- MCHash
  Parent <- MCParent
  Tx <- MCTx
  TxsOf <- MCTxsOf
  Chains <- MCChains
  MaxHeight <- MCMaxHeight
  MaxMissing = 1
  Confirmations = 1
  Threshold = 0
  StartBuffer = 2
  MaxDepth = 3
  MaxFaults = 0
  MaxCrashes = 0
PROPERTIES
  TxsConverge
