CONSTANTS
  Refused = Refused
  Symlink = Symlink
  Torn = Torn
  NoOne = NoOne
  NoFile = NoFile
  Generation = {0, 1, 2}
  Activation = {1, 2}
  Managed <- MCManaged
  Retired <- MCRetired
  NotifyKey = "notify"
  Retirement = "retired"
  Scenarios <- MCScenarios
  Rollouts = {"rollout"}
  Transcripts = {"transcript"}
  Jobs = {"job"}
  Days = 3
  Ahead = 2
  Limits <- MCLimits
SPECIFICATION Spec
INVARIANTS FilesSound MarkdownRight MergedRight UsageKept
PROPERTIES PowerCutKeepsWhole RecentPromptsStay
CHECK_DEADLOCK FALSE
