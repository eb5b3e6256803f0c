SPECIFICATION Spec
CONSTANTS
  Proc = {p1, p2}
  p1 = p1
  p2 = p2
  NFiles = 1
  Version = {"open"}
  Unparsable = {}
  Graphs = {{1}}
  Reads <- MCReads
  Governed = FALSE
  Truth <- MCTruth
  Unresolved <- MCUnresolved
  MaxEdits = 0
  MaxFaults = 2
INVARIANTS ExitZeroMeansSafe
SYMMETRY Perms
CHECK_DEADLOCK FALSE
