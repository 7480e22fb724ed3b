\* The configured seconds are taken for nanoseconds.
SPECIFICATION Spec
CONSTANTS
  Request = {r1, r2}
  Nullifier = {n1, n2}
  NoNullifier = NoNullifier
  RedisExpiration = 2592000
  MaxRetries = 1
  MaxClock = 3
INVARIANTS
  RememberedAsConfigured
CHECK_DEADLOCK FALSE
