SPECIFICATION FairSpec
CONSTANTS
  Names = {a, b}
  Known = {a, b}
  Length <- TwoBytes
  Pool = 2
  Repeats = 1
  Requeries = 0
  Lookups = 2
  Lossy = TRUE
  NoName = NoName
  Nothing = Nothing
INVARIANT Conserved
INVARIANT OnePlace
PROPERTY ReadsOwn
PROPERTY AckIsPerformed
PROPERTY RequestsEnd
CHECK_DEADLOCK FALSE
