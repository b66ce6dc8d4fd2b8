SPECIFICATION FairSpec
CONSTANTS
  a = a
  b = b
  o1 = o1
  o2 = o2
  k1 = k1
  k2 = k2
  orgA = orgA
  orgB = orgB
  old = old
  r1 = r1
  r2 = r2
  NoKey = NoKey
  NoOrg = NoOrg
  NoFile = NoFile
  NoQueue = NoQueue
  Checkout <- TwoCheckouts
  Origin <- TwoOrigins
  Key <- TwoKeys
  Org <- TwoOrgs
  OrgOf <- Owners
  Dest <- Contents
  Old <- OneOld
  OldRoute <- OldRoutes
  Record <- TwoRecords
  MaxEdits = 1
  Windows = {}
INVARIANTS
  QueuesApart
  OneOrgPerQueue
PROPERTIES
  KeyStaysHome
  SiblingDelivers
CHECK_DEADLOCK FALSE
