\* Two nights and one fault: what builds lands.
CONSTANTS
  Groups <- CoreFirst
  Core = "core"
  Held = "held"
  Bot = "bot"
  ForgejoMerge = "forgejo"
  Trusted = {"bot", "forgejo", "human"}
  Green <- MCGreen
  Seed <- Fresh
  Pushes <- OneFix
  Rewrites = FALSE
  None = None
  MaxRuns = 2
  MaxFaults = 1
  MaxPushes = 1
  MaxTime = 0
SPECIFICATION FairSpec
PROPERTIES GreenGroupsLand
CHECK_DEADLOCK FALSE
