SPECIFICATION Spec
CONSTANTS
  a = a
  b = b
  o1 = o1
  o2 = o2
  k1 = k1
  k2 = k2
  orgA = orgA
  orgB = orgB
  old = old
  r2 = r2
  r1 = r1
  NoKey = NoKey
  NoOrg = NoOrg
  NoFile = NoFile
  NoQueue = NoQueue
  Checkout <- TwoCheckouts
  Origin <- TwoOrigins
  Key <- TwoKeys
  Org <- TwoOrgs
  OrgOf <- Owners
  Dest <- Pasted
  Old <- OneOld
  OldRoute <- OldRoutes
  Record <- TwoRecords
  MaxEdits = 0
  Windows = {}
INVARIANT
  DeclaredOrgKept
CHECK_DEADLOCK FALSE
