SPECIFICATION FairSpec
CONSTANTS
  r1 = r1
  r2 = r2
  Record <- MCRecord
  Garbled = Garbled
  Fragment = Fragment
  NoTail = NoTail
  NoSnap = NoSnap
  BatchLimit = 2
  CompactAfter = 1
  MaxAppendLen = 2
  MaxAppends = 2
  MaxFaults = 2
  Windows = {"unsaved", "unremoved"}
INVARIANTS
  NoLoss
PROPERTIES
  EventuallySettled
  ImplementsDurableQueue
