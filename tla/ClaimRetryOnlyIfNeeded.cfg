\* bridge.py:718 against the code.
SPECIFICATION FairSpec
CONSTANTS
  b1 = b1
  u1 = u1
  u2 = u2
  NoCall = NoCall
  Calls <- MCUnicasts
  Broadcasts <- MCNobody
  MAX_RETRIES = 1
  LBT_MAX_TRIES = 2
  StartTime = 3
  IdSpace = 4
  SameMillisecond = FALSE
PROPERTY RetryOnlyIfNeeded
