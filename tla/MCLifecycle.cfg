SPECIFICATION FairSpec
CONSTANTS
  Terminal = {t1, t2}
  Agent = {a1, a2}
  NoProc = NoProc
  Version = {v1, v2}
  Corrupt = Corrupt
  Missing = Missing
  Partial = Partial
  Attempts = 2
  Offered = {"run", "once", "start", "stop", "uninstall", "update"}
  Apart = {{"start", "uninstall"}}
  MaxCommands = 3
  MaxKills = 1
INVARIANTS
  OneObserver
  BinaryWhole
PROPERTIES
  EveryCommandEnds
  SettlesDown
CHECK_DEADLOCK FALSE
