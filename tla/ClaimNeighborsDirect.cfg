\* routing.py:93 against the code.
SPECIFICATION MCSpec
CONSTANTS
  o = o
  x = x
  y = y
  z = z
  Everyone = Everyone
  Routers <- MCRouters
  Observers <- MCObservers
  Packets <- MCPackets
  Links <- MCLinks
  Dist <- MCDist
  SEEN_TTL = 1
  CLEANUP_INTERVAL = 2
  MaxTime = 3
INVARIANT NeighborsAreDirect
