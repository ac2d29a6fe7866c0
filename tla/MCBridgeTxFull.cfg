\* The retry and LBT limits of the code, one broadcast and one unicast.
SPECIFICATION FairSpec
CONSTANTS
  b1 = b1
  u1 = u1
  u2 = u2
  NoCall = NoCall
  Calls <- MCPair
  Broadcasts <- MCBroadcasts
  MAX_RETRIES = 3
  LBT_MAX_TRIES = 3
  StartTime = 3
  IdSpace = 4
  SameMillisecond = FALSE
INVARIANTS
  TypeOK
  IInv
  TransmissionsBounded
  BroadcastOnce
PROPERTIES
  EveryCallReturns
  ImplementsDownlinkService
