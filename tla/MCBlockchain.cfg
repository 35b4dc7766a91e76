SPECIFICATION Spec
CONSTANTS
  alice = alice
  bob = bob
  Addresses <- MCAddresses
  MaxU64 = 11
  BlockSubsidy = 4
  NoAddress = NoAddress
  ChainId = "bbc"
  ZeroHash = ZeroHash
  Block <- MCBlock
INVARIANTS
  TreeConsistent
  FirstSeenStrongest
  SupplyConserved
PROPERTIES
  ReportIsDifference
