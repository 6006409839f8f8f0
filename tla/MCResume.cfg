CONSTANTS
  h1 = h1
  h2 = h2
  alice = alice
  bob = bob
  x = x
  y = y
  Unset = Unset
  Handlers <- MCHandlers
  Keys <- MCKeys
  Payloads <- MCPayloads
  MaxWaits = 2
SPECIFICATION Spec
CHECK_DEADLOCK FALSE
INVARIANT ResumedWithEveryCall
