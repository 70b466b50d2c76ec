SPECIFICATION Spec
CONSTANTS
  v1 = v1
  v2 = v2
  garbage = garbage
  Values = {v1, v2}
  Garbage = garbage
  Size = 4
  Word = 16
  MaxBlock = 3
  TryPutFull = FALSE
PROPERTY IsFifo
