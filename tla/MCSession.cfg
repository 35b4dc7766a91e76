SPECIFICATION Spec
CONSTANTS
  None = None
  Settings <- MCSettings
  MaxU64 = 9
  Networks = {"devnet", "regtest"}
  Zero = "zero"
  MaximumOutboundQueueSize = 1400000
INVARIANTS
  BuiltIsTaken
  NothingLost
  BytesIdentify
  AnsweredStays
PROPERTY
  DeadPeerNoticed
CHECK_DEADLOCK FALSE
