\* A forge that serves unsigned commits and rewrites master.
CONSTANTS
  Groups <- TwoGroups
  Core = "core"
  Held = "held"
  Bot = "bot"
  ForgejoMerge = "forgejo"
  Trusted = {"bot", "forgejo", "human"}
  Green <- MCGreen
  Seed <- Fresh
  Pushes <- Hostile
  Rewrites = TRUE
  None = None
  MaxRuns = 2
  MaxFaults = 1
  MaxPushes = 2
  MaxTime = 0
SPECIFICATION Spec
PROPERTIES PushesOnlySigned
CHECK_DEADLOCK FALSE
