SPECIFICATION FairSpec
CONSTANTS
  n1 = n1
  n2 = n2
  n3 = n3
  p1 = p1
  p2 = p2
  Nodes = {n1, n2, n3}
  Processes = {p1, p2}
  NoTask = NoTask
  LeaveWaits = {n3}
  Repeating = {p2}
INVARIANT OnlyOneActive
INVARIANT PendingStops
PROPERTY HandOver
PROPERTY NodesYield
