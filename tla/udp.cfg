SPECIFICATION UdpSpec
CONSTANTS
  Lens <- MCLens
  MAX_QUEUED_DATAGRAMS = 2
  MAX_QUEUED_BYTES = 6
  MaxCalls = 5
  Readers = {r1, r2}
  Capacity = 1
  MaxCached = 1
  MaxBuffers = 5
  MaxSent = 2
INVARIANTS Accounted BuffersKept
PROPERTIES Ordered CallReturns QueuedLeaves EveryDatagramHandled
CHECK_DEADLOCK FALSE
