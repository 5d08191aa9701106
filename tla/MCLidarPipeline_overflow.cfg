SPECIFICATION MCSpec
CONSTANTS
  Casts = {"pipeline"}
  MaxPackets = 4
  MaxHandlers = 2
  BufferSize = 4
  Overflowing = TRUE
  SleepCovers = FALSE
  Circle = 13
  Gaps = {2}
  MaxFramePackets = 8
  RotationLimit = 5
  RotationShare = 2
  SeqRange = 8
  MaxSent = 13
  MaxLost = 2
  MaxRepeated = 1
  MaxOvertaken = 1
  MaxReopened = 1
  MaxBroken = 1
INVARIANTS CompleteMeansParsed
CHECK_DEADLOCK FALSE
