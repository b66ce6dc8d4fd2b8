SPECIFICATION FairSpec
CONSTANTS
  Terminal = {t1}
  Agent = {a1, a2}
  NoProc = NoProc
  Version = {v1}
  Corrupt = Corrupt
  Missing = Missing
  Partial = Partial
  Attempts = 2
  Offered = {"start"}
  Apart = {}
  MaxCommands = 1
  MaxKills = 0
PROPERTY
  StartedRuns
CHECK_DEADLOCK FALSE
