SPECIFICATION FairSpec
CONSTANTS
  app = app
  bus = bus
  agent = agent
  board = board
  driver = driver
  port = port
  Nodes <- MCNodes
  Root = app
  Parent <- MCParent
  NoNode = NoNode
  EarlyStop = FALSE
INVARIANT SubtreeRuns
INVARIANT NoneOutlivesOwner
INVARIANT AllStopped
INVARIANT SystemOutlives
PROPERTY StopEnds
PROPERTY StartSettles
