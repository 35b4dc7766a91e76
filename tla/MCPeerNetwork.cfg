SPECIFICATION Spec
CONSTANTS
  p1 = p1
  p2 = p2
  q2 = q2
  None = None
  Process <- TwoProcesses
  Endpoint <- MCEndpoint
  HostOf <- MCHostOf
  AddressOf <- OneAddress
  Nonce <- MCNonce
  InitialTargets <- Mutual
  Settings <- MCSettings
  Connection = {1, 2, 3}
  MaxFaults = 1
INVARIANT
  OneSessionPerPeer
PROPERTIES
  TargetServed
  Settles
CHECK_DEADLOCK FALSE
