\* A function that has returned and a connection that has ended take no more
\* steps: deadlock is not an error.
SPECIFICATION HelloSpec
CONSTANTS
  Inputs <- MCHellos
  Clients <- MCClients
  MaxRecord = 8
  MaxHops = 1
INVARIANTS Nested RoundTrip HelloRead KernelTakesOver
PROPERTIES ParseReturns TlsProgress
CHECK_DEADLOCK FALSE
