SPECIFICATION ComponentsSpec
CONSTANTS
  MaxNlb = 17
  MaxDepth = 5
  MaxBuffer = 4
  Jobs <- MCJobs
  PageUnits = 2
  Entries = 3
  SmallEntries = 2
  Transfers <- IodTransfers
  MaxRetries = 1
  MaxRequests = 2
  MaxPages = 4
  ReportLimited = 4
  MaxAnswer = 3
  Boots <- MenuBoots
  Plans <- EditorPlans
  Buffer = 7
  RingDepth = 2
  ListDepth = 2
  Typed <- EditorTyped
  Strokes <- KeysStrokes
  EndBytes = {"A", "~"}
  ScDepth = 8
  KeyDepth = 4
  IdentifyMs = 2
  Slots <- KeysSlots
  Interval = 3
  Burst = 7
  MaxStrokes = 3
  n1 = n1
  Namespaces = {n1}
  Commands <- FormCommands
  FirstCommand = "create_sq"
  Library <- FormLibrary
  FeatureTags <- FormTags
  LbaRange = 2
  Frames = 3
  Bits = 5
  FidBits = 2
  m1 = m1
  m2 = m2
  NodeList <- NgdNodes
  Elpe <- NgdElpe
  LrtTyped = {0, 64}
INVARIANTS
  PlansTileRange
  DeviceReadsTransfer
  GivesBack
  TasksFindWhatTheyNeed
  KeysAsPressed
  ScriptEndsReady
  OfferedFitsDevice
  FieldsFitCommand
  DevicesKeptApart
PROPERTIES
  ImplementsLine
  KeysArrive
CHECK_DEADLOCK FALSE
