SPECIFICATION FairSpec
CONSTANTS
  N = 2
  RunModes = {"run"}
  Wanted = {"idle", "run", "unknown"}
  Startups = {"s"}
  WaitConfig = TRUE
  Supplies = {"fine", "over", "low"}
  Temps = {"cool", "warm", "hot"}
  Overcurrent = TRUE
INVARIANT ConfigHeld
INVARIANT ReadyIsConfigured
INVARIANT FaultHolds
PROPERTY ConfigKept
PROPERTY StartsReleased
PROPERTY ConfigurationEnds
PROPERTY DevicesReleased
