\* An epoch order that has run out, under a class-wide order that has not.
SPECIFICATION Spec
CONSTANTS
  c1 = c1
  c2 = c2
  e1 = e1
  e2 = e2
  t1 = t1
  Class = {c1, c2}
  Epoch = {e1, e2}
  Token = {t1}
  SupportedEpochs = {e1, e2}
  NotAPoint = NotAPoint
  Request = {r1, r2}
  Presented <- MCGenuine
  NoInput = NoInput
  AllEpochs = AllEpochs
  Forever = Forever
  MaxNow = 2
  Orders <- MCLapsing
INVARIANTS
  OrdersHonoured
CHECK_DEADLOCK FALSE
