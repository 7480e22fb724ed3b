\* Two revocations or unrevocations and any number of checks and listings over
\* one Redis: an epoch's key and the class's, one retry each, two batches.
SPECIFICATION Spec
CONSTANTS
  Class = {c}
  Epoch = {e}
  AllEpochs = AllEpochs
  Forever = Forever
  Writer = {w1, w2}
  Reader = {r}
  Until = {1, Forever}
  None = None
  MaxRetries = 1
  MaxScans = 2
  MaxClock = 2
INVARIANTS
  TypeOK
  OrderStands
  UnrevokeHolds
PROPERTIES
  StandingOrderReported
  RefusalJustified
  ListOmitsOnlyUnread
SYMMETRY WritersAlike
CHECK_DEADLOCK FALSE
