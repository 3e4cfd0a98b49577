\* Two threads, one slot of each kind, and many books.
CONSTANTS
  TrackTime = 6  TrackBytes = 8  CardTime = 12  CardBytes = 16  CardTracks = 3
  CardMargin = 1  ShareTrackBytes = 6  ShareCardBytes = 13
  SliceTime = 3  Sliver = 2
  Thread = {t1, t2}
  DownloadSlots = 1
  PlannerSlots = 1
  Root = {"Audiobooks", "Music"}
  Books <- MCBooks
  Budgets <- MCBudgets
  None = None
SPECIFICATION FairSpec
INVARIANTS PlanRight ServingSound SkipsOnlyPrepared
PROPERTIES CacheNeverGoesBack SlotsComeBack
CHECK_DEADLOCK FALSE
