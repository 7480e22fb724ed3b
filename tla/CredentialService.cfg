\* The memory-backed server: every interleaving of two redemptions with an
\* administrator's order, hang-ups and shutdown.
SPECIFICATION FairSpec
CONSTANTS
  c1 = c1
  c2 = c2
  e1 = e1
  e2 = e2
  t1 = t1
  Class = {c1, c2}
  Epoch = {e1, e2}
  Token = {t1}
  SupportedEpochs = {e1}
  NotAPoint = NotAPoint
  Request = {r1, r2}
  Presented <- MCPresented
  NoInput = NoInput
  AllEpochs = AllEpochs
  Forever = Forever
  MaxNow = 0
  Orders <- MCPermanent
INVARIANTS
  TypeOK
  AtMostOnce
  SpentIffAccepted
  MetricsAgree
PROPERTIES
  KeepsPromise
  EveryRequestAnswered
  GenuineSettles
CHECK_DEADLOCK FALSE
