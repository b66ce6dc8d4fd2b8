SPECIFICATION Spec
CONSTANTS
  code = code
  work = work
  foo = foo
  foo2 = foo2
  bar = bar
  BAR = BAR
  wt = wt
  src = src
  gone = gone
  key = key
  Dir <- Dirs
  NoDir = NoDir
  Parent <- Tree
  Name <- Names4
  Leaf <- Leaves
  Lower <- Caseless
  Git <- Markers
  Gone = {gone}
  Skipped = {src}
  Root = {code, work}
  MaxDepth = 2
  RowOrder <- Rows
  Encoded <- Slugs
  Origin = {"https"}
  Key = {key}
  Org = {}
  Absent = Absent
  Conflict = Conflict
  Blank = Blank
  Chat <- Chats
  Terminal = {"t1", "t2"}
  Interactive = {"t1"}
  Letter <- Letters
  Matching <- Found
  Chunk <- Typed
  Window = 2
  Flags <- Options
  FirstFiles <- Files
  FirstLists <- Lists
  Edits <- Written
  MaxCommands = 1
  MaxFaults = 1
  MaxFilter = 1
  NoId = NoId
INVARIANTS
  TypeOK
  CursorOnScreen
  SavedAsAsked
  TickedIsSent
  BlockedSaysWhy
  OneScanBehind
  StableAlone
CHECK_DEADLOCK FALSE
