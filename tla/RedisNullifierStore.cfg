\* Two calls for two credentials over one Redis, one retry each, under the
\* expiration the deployment guide configures (a time to live of 2 ms).
SPECIFICATION FairSpec
CONSTANTS
  Request = {r1, r2}
  Nullifier = {n1, n2}
  NoNullifier = NoNullifier
  RedisExpiration = 2592000
  MaxRetries = 1
  MaxClock = 3
INVARIANTS
  TypeOK
  WritesApart
  NewIsOwnWrite
  ExistsIsExplained
PROPERTIES
  EveryCallReturns
CHECK_DEADLOCK FALSE
