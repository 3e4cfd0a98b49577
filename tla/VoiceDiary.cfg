CONSTANTS
  Name = {"a", "b", "c"}
  Recording = {"r1", "r2", "r3", "mute", "tail"}
  Second = {0, 1, 2, 3}
  Kind = {"m4a", "ogg"}
  Mp4 = {"m4a"}
  Wordless <- MCWordless
  Unfoldable <- MCUnfoldable
  Truncated = Truncated
  Half = Half
  Nothing = Nothing
  Mark = Mark
  Window = 2
  EchoLength = 2
  MinWords = 3
  MaxWords = 5
  TailWords = 2
SPECIFICATION MCSpec
INVARIANTS TranscriptHasAudio PairSound StampNamesIt EntryReadsWell
PROPERTIES EveryRecordingArchived
CHECK_DEADLOCK FALSE
