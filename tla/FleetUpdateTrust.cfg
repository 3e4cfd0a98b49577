\* Two invocations, hostile forges, unversioned activations.
CONSTANTS
  c1 = c1  c2 = c2  c3 = c3  c4 = c4  c5 = c5  c6 = c6  c7 = c7
  None = None  Human = Human  Bot = Bot  NewKey = NewKey
  ForgejoMerge = ForgejoMerge
  Key <- MCKey
  WriteRoot = "forgejo"
  Master = "master"
  Commit = {c1, c2, c3, c6, c7}
  Object <- HistoryA
  Reach <- ReachA
  Origins <- Forgejo
  Mirrors = {}
  KeyDiscipline = FALSE
  Run = {nightly, manual}
  Options <- NightlyOnly
  Moves <- AnyMove
  Installed = {c1}
  Bypass = {c2}
  Tolerates = {}
  MaxAge = 1
  MaxTime = 0
  Branch = {"master"}
SPECIFICATION Spec
INVARIANTS TypeOK OnlyTrustedHistory
