SPECIFICATION DirectorySpec
CONSTANTS
  alice = alice
  bob = bob
  Addresses <- MCAddresses
  MaxU64 = 40
  BlockSubsidy = 5
  NoAddress = NoAddress
  ChainId = "bbc"
  ZeroHash = ZeroHash
  Block <- MCBlock
  MaxRecords = 5
  Workloads <- MCWorkloads
  Miner = bob
  Timestamps = {1, 2}
  None = None
  IdRank <- MCIdRank
  MaximumMempoolTransactions = 2
  MaximumBlockTransactions = 2
INVARIANTS
  AcknowledgedOnFile
  ReplayIsMemory
  PoolInStep
  PendingConsistent
  TemplateAccepted
  MinedAccepted
PROPERTIES
  ImplementsDurableLog
  NoEligibleLost
