\* Two requests on any routes, with any tokens and bodies.
SPECIFICATION Spec
CONSTANTS
  Request = {r1, r2}
  None = None
INVARIANTS
  TypeOK
  
  MeteredAsAnswered
  CountedAsAnswered
  ChangesAnswered
  TicketsKept

  
CHECK_DEADLOCK FALSE
