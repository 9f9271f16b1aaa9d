SPECIFICATION FairSpec
CONSTANTS
  Settle = 1
  Ramp = 2
  DefaultTicks <- DefaultPhases
  StairTicks <- StairPhaseTicks
  Tilts <- UpAndDown
  Pages = {"A3"}
  PageChanges = TRUE
  Preemptions = 1
  JumpRunup = 2
  SingleRunup = 1
  Interval = 3
  Grace = 1
  JumpTimeout = 18
  StopTimeout = 3
  BrakeTime = 2
  TotalJumps = 2
  Rolls <- Level
  EntryStable = 1
  ExitStable = 2
  MaxActive = 4
  ExitTime = 2
  Cooldown = 2
  RotationTime = 2
  RotationBrake = 2
  Frames <- AllFrames
  FrameTimeout = 2
INVARIANTS
  TypeOK
  GainsRestored
  RampHoldsGains
  RecoveryWaits
  FailsafeStops
  NoRestartUncentred
PROPERTIES
  StickObeyed
  JumpOnPress
  JumpEnds
