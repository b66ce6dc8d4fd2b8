SPECIFICATION FairSpec
CONSTANTS
  f1 = f1
  File <- OneFile
  EOL = EOL
  Char = Char
  NotRead = NotRead
  Window = 3
  MaxLine = 3
  MaxLen = 4
  MaxRewrites = 1
  MaxFaults = 1
  Hazards = {"blanked"}
INVARIANTS
  OffsetsCovered
  WholeLines
  OrderKept
PROPERTIES
  DeclinedStaysOut
  EveryLineSettles
