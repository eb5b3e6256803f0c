SPECIFICATION Spec
CONSTANTS
  Proc = {p1, p2}
  p1 = p1
  p2 = p2
  NFiles = 2
  Version = {"safe", "open"}
  Unparsable = {}
  Graphs = {{1, 2}}
  Reads <- MCReads
  Governed = FALSE
  Truth <- MCTruth
  Unresolved <- MCUnresolved
  MaxEdits = 1
  MaxFaults = 0
INVARIANTS VerdictsAreTrue IncrementalCovers
SYMMETRY Perms
CHECK_DEADLOCK FALSE
