SPECIFICATION FairSpec
CONSTANTS
  N = 1
  RunModes = {"run"}
  Wanted = {"run"}
  Startups = {}
  WaitConfig = FALSE
  Supplies = {"fine"}
  Temps = {"cool"}
  Overcurrent = FALSE
PROPERTY PanicStops
