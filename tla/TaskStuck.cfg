SPECIFICATION FairSpec
CONSTANTS
  n1 = n1
  n2 = n2
  n3 = n3
  p1 = p1
  p2 = p2
  Nodes = {n1}
  Processes = {p1}
  NoTask = NoTask
  LeaveWaits = {}
  Repeating = {}
PROPERTY SelectedRuns
