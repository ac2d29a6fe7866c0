\* A flood among four routers; times in half minutes: seen_ttl is shorter than the cleanup interval of a minute.
SPECIFICATION MCSpec
CONSTANTS
  o = o
  x = x
  y = y
  z = z
  Everyone = Everyone
  Routers <- MCRouters
  Observers <- MCObservers
  Packets <- MCPackets
  Links <- MCLinks
  Dist <- MCDist
  SEEN_TTL = 1
  CLEANUP_INTERVAL = 2
  MaxTime = 3
INVARIANTS
  TypeOK
  RelayedUnaltered
  FloodCovers
PROPERTIES
  RelayGap
  ImplementsFlood
  FloodEnds
