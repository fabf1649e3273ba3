\* Editing, looking and listening, each with some of the others.
SPECIFICATION FairEditingSpec
CONSTANTS
  BeatUnits = 8
  Groups <- MCGroups
  AudioLane = 432
  GroupRow = 264
  MidiRow = 168
  Duration = 2
  MinSpan = 1
  DefaultSpan = 2
  Wide = 3
  MaxVel = 2
  MidVel = 2
  VelStep = 1
  DefaultVel = 2
  FineNudge = 1
  CoarseNudge = 1
  DefaultBar = 2
  HistoryLimit = 1
  Documents <- MCDocuments
  Grids <- MCGrids
  Divisions = {2}
  Times = {0, 2}
  Vels = {1}
  MaxHits = 3
  Sounds = {"hho"}
  RingFrames = 4
  MinLoop = 1
  WordHalf = 8
  Total = 2
  Lookahead = 2
  Late = 1
  Regions <- MCRegions
  Budgets <- MCBudgets
  Tabs = {1, 2}
  MaxEdits <- TwoAndOne
  MaxLoads = 2
  MaxExports <- OneAndNone
  FaultKinds = {"put", "load"}
  MaxFaults = 1
CHECK_DEADLOCK FALSE
INVARIANTS EditorInv DrumInv
PROPERTIES HistoryIsKept LineNeverForks EditsAreSaved
