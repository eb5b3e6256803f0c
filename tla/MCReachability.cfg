SPECIFICATION Spec
CONSTANTS
  r1 = r1
  r2 = r2
  r3 = r3
  a1 = a1
  Outsider = Outsider
  None = None
  Role <- MCRole
  Account <- MCAccount
  Candidate <- MCCandidate
  MaxCap = 4
SYMMETRY RoleSymmetry
INVARIANTS TypeOK CompleteProof BoundedProof ShortestWitness IInv
CHECK_DEADLOCK FALSE
