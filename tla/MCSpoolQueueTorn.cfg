SPECIFICATION Spec
CONSTANTS
  r1 = r1
  r2 = r2
  Record <- MCRecord
  Garbled = Garbled
  Fragment = Fragment
  NoTail = NoTail
  NoSnap = NoSnap
  BatchLimit = 2
  CompactAfter = 2
  MaxAppendLen = 2
  MaxAppends = 3
  MaxFaults = 2
  Windows = {"torn"}
SYMMETRY Symmetry
INVARIANTS
  PendingExact
  BehindCursor
  ReclaimedWhenEmpty
PROPERTY
  CorruptLineHolds
