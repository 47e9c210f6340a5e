SPECIFICATION Spec
CONSTANTS
  none = none
  NoHash = none
  Hash <- MCHash
  Parent <- MCParent
  Tx <- MCTx
  TxsOf <- MCTxsOf
  Chains <- MCChains
  MaxHeight <- MCMaxHeight
  MaxMissing = 2
  Confirmations = 1
  Threshold = 1
  StartBuffer = 2
  MaxDepth = 2
  MaxFaults = 0
  MaxCrashes = 0
  AdapterStatus = "pending"
PROPERTIES
  RowsConverge
