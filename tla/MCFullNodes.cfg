SPECIFICATION Spec
CONSTANTS
  n1 = n1
  n2 = n2
  n3 = n3
  alice = alice
  bob = bob
  carol = carol
  None = None
  Addresses <- MCAddresses
  IdRank <- MCIdRank
  NoAddress = NoAddress
  ChainId = "bbc"
  ZeroHash = ZeroHash
  Block <- MCBlock
  MaxU64 = 30
  BlockSubsidy = 4
  RewardAddress <- MCRewardAddress
  MaximumMempoolTransactions = 4
  MaximumBlockTransactions = 2
  DirectLocatorEntries = 2
  MaximumLocatorEntries = 3
  MaximumBlocksPerSyncBatch = 2
  Node <- MCNode
  Settings <- AllSettings
INVARIANTS
  OneRequest
  SyncReportsTruth
PROPERTIES
  CatchesUpUndisturbed
  ExchangeEnds
CHECK_DEADLOCK FALSE
