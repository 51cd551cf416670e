CONSTANTS
  c1 = c1  c2 = c2  c3 = c3
  Conn = {c1, c2, c3}
  Killer = {c1, c2}
  Stalled = {}
  Nobody = Nobody
CHECK_DEADLOCK FALSE
SPECIFICATION FairSpec
INVARIANT TypeOK
INVARIANT ReturnsAfterHandlers
INVARIANT ClosedOnce
INVARIANT RepliesToOwnClient
PROPERTY EveryoneServed
