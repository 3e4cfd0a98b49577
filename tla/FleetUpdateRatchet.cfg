\* One invocation at a time, a hostile forge and a hostile second origin.
CONSTANTS
  c1 = c1  c2 = c2  c3 = c3  c4 = c4  c5 = c5  c6 = c6  c7 = c7
  None = None  Human = Human  Bot = Bot  NewKey = NewKey
  ForgejoMerge = ForgejoMerge
  Key <- MCKey
  WriteRoot = "forgejo"
  Master = "master"
  Commit = {c1, c2, c3, c4, c5}
  Object <- HistoryA
  Reach <- ReachA
  Origins <- ForgejoAndMirror
  Mirrors = {}
  KeyDiscipline = FALSE
  Run = {nightly}
  Options <- WithReroot
  Moves <- AnyMove
  Installed = {c1}
  Bypass = {}
  Tolerates = {}
  MaxAge = 1
  MaxTime = 0
  Branch = {"master"}
SPECIFICATION Spec
PROPERTIES NoRollback SwitchUnderCurrentTrust ImplementsRatchet
