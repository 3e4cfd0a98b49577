\* One invocation at a time, replayed heartbeats, a clock, dry runs.
CONSTANTS
  c1 = c1  c2 = c2  c3 = c3  c4 = c4  c5 = c5  c6 = c6  c7 = c7
  None = None  Human = Human  Bot = Bot  NewKey = NewKey
  ForgejoMerge = ForgejoMerge
  Key <- MCKey
  WriteRoot = "forgejo"
  Master = "master"
  Commit = {c1, c2, c3, c4, c6, c7}
  Object <- HistoryB
  Reach <- ReachB
  Origins <- Forgejo
  Mirrors = {}
  KeyDiscipline = FALSE
  Run = {nightly}
  Options <- WithDryRun
  Moves <- AnyMove
  Installed = {c1}
  Bypass = {}
  Tolerates = {}
  MaxAge = 1
  MaxTime = 3
  Branch = {"master"}
SPECIFICATION Spec
INVARIANTS FreshnessAuthentic AnchorFollowsRunning
PROPERTIES FreshnessNeverRegresses
