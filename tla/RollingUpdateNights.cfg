\* Two nights, an honest forge, two faults, one other push.
CONSTANTS
  Groups <- MCGroups
  Core = "core"
  Held = "held"
  Bot = "bot"
  ForgejoMerge = "forgejo"
  Trusted = {"bot", "forgejo", "human"}
  Green <- MCGreen
  Seed <- MaybeHeld
  Pushes <- Signed
  Rewrites = FALSE
  None = None
  MaxRuns = 2
  MaxFaults = 2
  MaxPushes = 1
  MaxTime = 1
SPECIFICATION Spec
INVARIANTS TypeOK AnchorOnMaster
PROPERTIES RedGroupStaysOut LandsWhatItBuilt HeartbeatAdvances
CHECK_DEADLOCK FALSE
