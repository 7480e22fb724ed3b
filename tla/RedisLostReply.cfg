\* One lost reply is enough for a first redemption to be called a replay.
SPECIFICATION Spec
CONSTANTS
  Request = {r1, r2}
  Nullifier = {n1, n2}
  NoNullifier = NoNullifier
  RedisExpiration = 2592000
  MaxRetries = 1
  MaxClock = 3
INVARIANTS
  ExistsMeansReplay
CHECK_DEADLOCK FALSE
