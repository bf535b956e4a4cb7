SPECIFICATION Spec
CONSTANTS
  a4 = a4
  a6 = a6
  b4 = b4
  s1 = s1
  s2 = s2
  s6 = s6
  Null = Null
  Addrs <- MCAddrs
  Norm <- MCNorm
  SNIs <- MCNames
  Cids <- RoutingCids
  LbCidLen = 2
  Configs <- RoutingConfigs
  IdleTimeout = 2
  MaxPaths = 2
  MaxPendingHandshakes = 1
  MaxPendingBytes = 1
  MaxCidsPerPath = 2
  MAX_PENDING_DATAGRAMS = 1
  MAX_HANDSHAKE_BYTES = 1
  ChanCap = 1
  ClientPackets <- AffinityClientPackets
  BackendPackets <- RoutingBackendPackets
  MaxConnectionId = 3
INVARIANTS NewCidWorksByAffinity
