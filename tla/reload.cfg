SPECIFICATION ReloadSpec
CONSTANTS
  Messages <- MCTcpMessages
  H3Messages <- MCH3Messages
  Envs <- MCEnvs
  Cids <- MCCids
  FixedMessage <- Base
  FixedEnv <- MCFixedEnv
  Names <- MCNames
  Generations = {0, 1, 2}
  Mapped <- MCMapped
  Bits4 = 2
  SniNames <- MCSniNames
  LongNames = {"long"}
  Missing = "missing"
  Matches <- MCMatches
  MaxLabels = 2
  MaxHellos = 2
  Lookups = {l1, l2}
  MaxVersion = 3
INVARIANTS AsSaid PairsMatch H3AsSaid LbKept OneVersion
PROPERTIES SeriesKept HostsReach
