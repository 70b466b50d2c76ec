SPECIFICATION FairSpec
CONSTANTS
  Sizes = {2, 3, 4}
  Max = 3
  Word = 16
  Pool = 3
  Versions = {1, 2, 3, 4, 5, 6}
  Nothing = Nothing
INVARIANT MessagesKept
PROPERTY SnapshotIsWhole
PROPERTY DeliveredOnce
PROPERTY FallsSilent
PROPERTY KeepsDelivering
