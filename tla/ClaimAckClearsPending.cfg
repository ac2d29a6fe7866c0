\* bridge.py:603 against the code.
SPECIFICATION MCSpec
CONSTANTS
  n1 = n1
  n2 = n2
  NoNode = NoNode
  Nodes <- MCNodes
  OnDisk <- MCKnown
  Frames <- MCReplies
  Ids = {7}
  DUP_WINDOW = 2
  PURGE_AGE = 3
  MAX_LOG = 3
  MaxTime = 3
PROPERTY AckClearsPending
