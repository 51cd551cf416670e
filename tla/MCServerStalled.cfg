CONSTANTS
  c1 = c1  c2 = c2  c3 = c3
  Conn = {c1, c2, c3}
  Killer = {}
  Stalled = {c1}
  Nobody = Nobody
CHECK_DEADLOCK FALSE
SPECIFICATION FairSpec
PROPERTY EveryoneServed
