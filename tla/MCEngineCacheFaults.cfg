SPECIFICATION Spec
CONSTANTS
  Proc = {p1, p2}
  p1 = p1
  p2 = p2
  NFiles = 1
  Version = {"safe", "open", "dangling", "broken"}
  Unparsable = {"broken"}
  Graphs = {{1}}
  Reads <- MCReads
  Governed = TRUE
  Truth <- MCTruth
  Unresolved <- MCUnresolved
  MaxEdits = 0
  MaxFaults = 2
INVARIANTS TypeOK VerdictsAreTrue ExitCodeIsSound
SYMMETRY Perms
CHECK_DEADLOCK FALSE
