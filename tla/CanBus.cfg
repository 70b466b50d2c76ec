SPECIFICATION FairSpec
CONSTANTS
  N = 2
  BoardOf <- OwnBoards
  Sizes = {1}
  MaxRx = 1
  Watchdog = TRUE
  OwnView = FALSE
  StrayKinds = {"slave", "user"}
  NoFrame = NoFrame
INVARIANT PacketMatches
INVARIANT LayersAgree
INVARIANT OneOwed
INVARIANT AnswerIsFresh
PROPERTY EveryMessageReturns
PROPERTY EveryAgentServed
PROPERTY ImplementsTransactions
