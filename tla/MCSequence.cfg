SPECIFICATION HistoryFairSpec
CONSTANTS
  Settle = 1
  Ramp = 1
  DefaultTicks <- DefaultPhases
  StairTicks <- StairPhaseTicks
  Tilts <- UpAndDown
  Pages = {"D2", "D6"}
  PageChanges = FALSE
  Preemptions = 1
  JumpRunup = 2
  SingleRunup = 1
  Interval = 3
  Grace = 1
  JumpTimeout = 12
  StopTimeout = 1
  BrakeTime = 1
  TotalJumps = 2
  Rolls <- Level
  EntryStable = 1
  ExitStable = 2
  MaxActive = 4
  ExitTime = 2
  Cooldown = 2
  RotationTime = 2
  RotationBrake = 2
  Frames <- NoFrames
  FrameTimeout = 2
INVARIANTS
  SequenceCounts
  ParametersReturned
  NoJumpTimeout
PROPERTIES
  StairEnds
  RotationEnds
