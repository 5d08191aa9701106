SPECIFICATION MCSpec
CONSTANTS
  Casts = {"pipeline", "split", "ptc"}
  MaxPackets = 4
  MaxHandlers = 3
  BufferSize = 4
  Overflowing = TRUE
  SleepCovers = TRUE
  Circle = 13
  Gaps = {2}
  MaxFramePackets = 8
  RotationLimit = 5
  RotationShare = 2
  SeqRange = 8
  MaxSent = 13
  MaxLost = 2
  MaxRepeated = 1
  MaxOvertaken = 1
  MaxReopened = 1
  MaxBroken = 1
INVARIANTS
  TypesOK Accounting CompleteMeansParsed
  OneTurn DirectionLearnt IndexMatches LossExact AnswerTrue
PROPERTIES FrameCompletes HandlersExit SplitExact QueryReturns
CHECK_DEADLOCK FALSE
