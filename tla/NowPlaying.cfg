SPECIFICATION Spec
CONSTANTS
  early = early
  late = late
  t1 = t1
  t2 = t2
  NoShow = NoShow
  NoTrack = NoTrack
  Show <- MCShow
  Start <- MCStart
  End <- MCEnd
  PathOf <- MCPathOf
  Track <- MCTrack
  Poll = 2
  Lookup = 1
  LastTime = 8
  Budgets <- MCBudgets
INVARIANTS ListsSound ShowIsRight AnswerHasThePast
CHECK_DEADLOCK FALSE
