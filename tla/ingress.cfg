SPECIFICATION IngressSpec
CONSTANTS
  MaxDelay = 5
  Conns = {c1, c2, c3}
  Big = {c2}
  QueueMax = 2
  FdLimit = 2
INVARIANTS Backoff OneOwner
PROPERTIES QueueMoves
