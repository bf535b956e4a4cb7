SPECIFICATION FairSpec
CONSTANTS
  a4 = a4
  a6 = a6
  b4 = b4
  s1 = s1
  s2 = s2
  s6 = s6
  Null = Null
  Addrs <- MCAddrs
  Norm <- MCNorm
  SNIs <- MCNames
  Cids <- PendingCids
  LbCidLen = 2
  Configs <- PendingConfigs
  IdleTimeout = 2
  MaxPaths = 1
  MaxPendingHandshakes = 2
  MaxPendingBytes = 6
  MaxCidsPerPath = 2
  MAX_PENDING_DATAGRAMS = 3
  MAX_HANDSHAKE_BYTES = 4
  ChanCap = 1
  ClientPackets <- PendingClientPackets
  BackendPackets = {}
  MaxConnectionId = 2
INVARIANTS PendingAccounted
PROPERTIES PathsEnd PendingEnds
