SPECIFICATION FairSpec
CONSTANTS
  r1 = r1
  again = again
  r2 = r2
  elsewhere = elsewhere
  fa = fa
  fb = fb
  k1 = k1
  k2 = k2
  Record <- Lines
  Key = {k1, k2}
  KeyOf <- Keyed
  File = {fa, fb}
  NoFile = NoFile
  FileOf <- Filed
  Rank <- Dated
  Walk <- Walked
  Client = {c1, c2}
  Request <- Requests
  NoRequest = NoRequest
  NoClient = NoClient
  Cut = Cut
  SplitChar = SplitChar
  Limit = 2
  MaxFaults = 2
INVARIANTS
  TypeOK
  StoredOnce
  NothingDropped
  LossBounded
PROPERTIES
  ShownUntilOutrun
  EventuallyAnswered
