\* Four addresses over a table of two, three calls at one reading of the clock,
\* a burst of two that refills in the three ticks Cleanup waits.
SPECIFICATION Spec
CONSTANTS
  Address = {a1, a2, a3, a4}
  Rate = 2
  RateLimitBurst = 2
  MaxClients = 2
  TicksPerMinute = 3
  IdleTicks = 3
  PerInstant = 3
  MaxTime = 4
INVARIANTS
  TypeOK
  TableBounded
  WithinBudget
PROPERTIES
  ForgetsOnlyForRoom
  KeepsBuckets
SYMMETRY Symmetry
CHECK_DEADLOCK FALSE
