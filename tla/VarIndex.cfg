SPECIFICATION Spec
CONSTANTS
  Names = {a, b}
  Known = {a, b}
  Length <- TwoBytes
  Pool = 2
  Repeats = 0
  Requeries = 0
  Lookups = 2
  Lossy = FALSE
  NoName = NoName
  Nothing = Nothing
INVARIANT NameIsItsIndex
CHECK_DEADLOCK FALSE
