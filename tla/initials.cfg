\* A walk that has returned and a handshake that has failed take no more
\* steps: deadlock is not an error.
SPECIFICATION InitialsSpec
CONSTANTS
  Frames <- MCFrames
  MAX_CRYPTO_FRAGMENTS = 3
  HelloLen = 6
  Cids <- MCCids
  Headers <- MCHeaders
  Inputs <- MCInputs
  Paths = {p1, p2, p3}
  None = None
INVARIANTS IndInv HelloWhenComplete FramesFound
PROPERTIES TableKept Ends
CHECK_DEADLOCK FALSE
