SPECIFICATION PatchSpec
CONSTANTS
  N <- MCN
  Cases <- MCCases
  Files <- MCFiles
INVARIANTS TypeOK FixIsMinimal FixIsFirst UnremediableIsExhaustive PatchIsFix
PROPERTY Terminates
CHECK_DEADLOCK FALSE
