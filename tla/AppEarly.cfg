SPECIFICATION Spec
CONSTANTS
  app = app
  bus = bus
  agent = agent
  board = board
  driver = driver
  port = port
  Nodes <- MCNodes
  Root = app
  Parent <- MCParent
  NoNode = NoNode
  EarlyStop = TRUE
INVARIANT AllStopped
