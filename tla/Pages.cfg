SPECIFICATION PagesSpec
CONSTANTS
  Stages <- MCStages
  EndsAt <- MCEndsAt
  Uncancellable = {"packaging"}
  Marks = {0, 60}
  Retries = 1
  Mine = {j1}
  AudioFiles = {"f1"}
  BadFiles = {"bad"}
  Videos = {"v1", "v2"}
  SixStems = {"high6"}
  Offers6 = {"owner"}
  Jobs = {1, 2}
  Matching = {2}
  PageSize = 1
  Moves = 3
  Me = "me"
  Users = {"me", "ann"}
  Changed = 3
  Names = {"old", "new"}
  Refusals = {"bad"}
  MaxVisible = 3
  MaxQueue = 2
  VisitFaults <- MCVisitFaults
  FaultKinds = {"network", "server", "split", "auth", "gone", "gis"}
  MaxFaults = 2
CHECK_DEADLOCK FALSE
INVARIANTS  QuietPagesAreTrue AdminRemains
PROPERTIES AskedAsShown
