\* Three calls, distinct packet ids, the socket they share.
SPECIFICATION Spec
CONSTANTS
  b1 = b1
  u1 = u1
  u2 = u2
  NoCall = NoCall
  Calls <- MCTriple
  Broadcasts <- MCBroadcasts
  MAX_RETRIES = 1
  LBT_MAX_TRIES = 2
  StartTime = 3
  IdSpace = 4
  SameMillisecond = FALSE
SYMMETRY Symmetry
INVARIANTS
  ReplyBelongsToWaiter
  PendingHasOwner
  NoFalseAck
PROPERTY
  WedgedStaysWedged
