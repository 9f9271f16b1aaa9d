SPECIFICATION FairSpec
CONSTANTS
  Settle = 1
  Ramp = 1
  DefaultTicks <- DefaultPhases
  StairTicks <- StairPhaseTicks
  Tilts <- Down
  Pages = {"D2", "D3", "D4", "D6"}
  PageChanges = FALSE
  Preemptions = 1
  JumpRunup = 1
  SingleRunup = 1
  Interval = 2
  Grace = 1
  JumpTimeout = 10
  StopTimeout = 1
  BrakeTime = 1
  TotalJumps = 2
  Rolls <- Level
  EntryStable = 1
  ExitStable = 2
  MaxActive = 4
  ExitTime = 2
  Cooldown = 2
  RotationTime = 2
  RotationBrake = 2
  Frames <- JumpFrames
  FrameTimeout = 1
INVARIANTS
  OnlyOpeningKeeps
PROPERTIES
  StairEnds
