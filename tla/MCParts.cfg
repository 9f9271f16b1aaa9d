SPECIFICATION Spec
CONSTANTS
  Nodes <- AllNodes
  Leaves <- Level3
  Goes <- Table
  Root <- TheRoot
  Sentinel <- None
  Home <- GroupD
  Tests <- TestPages
  DoneAtOnce <- EndAtOnce
  LineBytes = {0, 1, 15}
  FRAME_STAR = 15
  FRAME_END = 0
  DataLen = 2
  Wrap = 12
  Interval = 4
  Settle = 2
  Speeds <- SomeSpeeds
  MaxLost = 4
  Max = 3
  Bytes = {0, 1}
  Zero = 0
INVARIANTS
  FreshEntry
  ScreenFollows
  ParsesWhatItChecked
  IntactFrameArrives
  BackInStep
PROPERTIES
  DisplayCatchesUp
  NoSentenceStarves
  IntervalKeptOnOneClock
  RefusedOnlyEarly
  OneFrameTaken
  ImplementsQueue
