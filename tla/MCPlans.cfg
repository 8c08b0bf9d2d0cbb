SPECIFICATION PlansSpec
CONSTANTS
  MissionsEnabled = TRUE
  Moments <- MCMoments
  MaxJobs = 2
  Goals <- MCGoals
  Scenes <- MCScenes
  Level = 3
  Budget = 2
  OfferAfter = 2
  Threads = {t1, t2}
  QueueLimit = 1
  MaxIds = 2
  Mishaps = 2
  Lost = 2
  Clips = 1
  Parts = 3
  Cap = 3
  MaxDeaths = 1
  EventKinds = {"asked", "other"}
  Question = "asked"
  Horizon = 7
  History = 4
  LockDelay = 1
  Window = 1
  Round = 1
  MaxSeen = 3
  Instants <- MCInstants
  Asking <- MCAsking
  MaxOpen = 2
  RoundEvery = 3
  EventEvery = 8
  FailureLimit = 3
  HourLong = 2
  HourlyCap = 10
  CallCosts = {4}
  ReadCost = 1
  MaxReads = 1
INVARIANTS
  OneRowPerStart
  NothingOutlivesTheGoal
  StepsEndOnTheirOwn
  QueueIsBounded
  SpendIsRemembered
  OddsAreOfWhatHappened
PROPERTIES
  EveryGoalEnds
  LateCommandsDoNoHarm
  AskedInMeasure
  SpendIsBounded
CHECK_DEADLOCK FALSE
