\* An honest write root, a lagging mirror, every kind of failure.
CONSTANTS
  c1 = c1  c2 = c2  c3 = c3  c4 = c4  c5 = c5  c6 = c6  c7 = c7
  None = None  Human = Human  Bot = Bot  NewKey = NewKey
  ForgejoMerge = ForgejoMerge
  Key <- MCKey
  WriteRoot = "forgejo"
  Master = "master"
  Commit = {c1, c2, c3, c4, c5}
  Object <- HistoryA
  Reach <- ReachA
  Origins <- ForgejoAndMirror
  Mirrors = {"github"}
  KeyDiscipline = TRUE
  Run = {nightly}
  Options <- NightlyOnly
  Moves <- ForwardOnly
  Installed = {c1}
  Bypass = {}
  Tolerates = {}
  MaxAge = 1
  MaxTime = 0
  Branch = {"master"}
SPECIFICATION FairSpec
PROPERTIES CatchesUp
