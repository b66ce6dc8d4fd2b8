SPECIFICATION FairSpec
CONSTANTS
  r1 = r1
  r2 = r2
  a = a
  b = b
  NoRoute = NoRoute
  Route <- Two
  Label = {a, b}
  LabelOf <- Apart
  Full = 7
  Floor = 2
  Batch = 3
  Load <- Wide
  Limit = {1, 8}
  MaxQueue = 3
CHECK_DEADLOCK FALSE
INVARIANTS
  NothingSkipped
  OnlyUnsendable
  FewRefusals
  EmptiedUnlessStopped
  FairTurns
  ReasonRecorded
PROPERTY
  DrainFinishes
