SPECIFICATION HarnessSpec
CONSTANTS
  Scenes <- MCScenes
  Survival = {"water", "threat"}
  PhoneEnabled = TRUE
  MissionsEnabled = TRUE
  MaxSpells = 2
  Wedged = 1
  Ladder = 3
  Cooldown = 2
  MaxNudges = 2
  MaxTime = 4
  WaterTimeout = 2
  EscapeWindow = 3
  JackGrace = 2
  RetryGap = 2
INVARIANT OneMover
INVARIANT ClaimsAreHeld
INVARIANT StandAside
INVARIANT DeathsAreTold
INVARIANT EmergenciesAreMeasured
