\* Reception, the node table and the node file; times in halves of the duplicate window.
SPECIFICATION MCSpec
CONSTANTS
  n1 = n1
  n2 = n2
  NoNode = NoNode
  Nodes <- MCNodes
  OnDisk <- MCKnown
  Frames <- MCFrames
  Ids = {7}
  DUP_WINDOW = 2
  PURGE_AGE = 3
  MAX_LOG = 3
  MaxTime = 4
INVARIANTS
  TypeOK
  IInv
  NoRepeatWithinWindow
  NodesCoverLog
  LogAndCacheBounded
  NodeFileKept
