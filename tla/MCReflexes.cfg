SPECIFICATION ReflexesSpec
CONSTANTS
  Dots <- MCDots
  Rooms = {r1, r2}
  MaxEscapeRungs = 6
  Polls <- MCPolls
  Situations <- MCSituations
  LatchHold = 3
  Lag = 1
  Glances <- MCGlances
  StallTimeout = 3
  KeyGap = 4
  MaxAttempts = 3
  Grace = 1
  FastGap = 2
  SlowGap = 4
  FlapWindow = 4
  Fast = 2
  GrabWindow = 2
  MaxGrabFailures = 3
PROPERTIES
  LostIsGivenUp
  LaddersLetGo
  DrivingAnswers
  SurvivalActs
  RefusalsLetHimAct
  ScreenIsMinded
CHECK_DEADLOCK FALSE
