SPECIFICATION FairSpec
CONSTANTS
  RunModes = {"dirrect"}
  Remotes = {"configure", "panic", "ready"}
  MayRefuse = TRUE
PROPERTY FromStopped
PROPERTY DrivesController
PROPERTY WaitsEnd
PROPERTY PanicNoticed
PROPERTY CommandTaken
