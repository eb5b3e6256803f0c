SPECIFICATION Spec
CONSTANTS
  q1 = q1
  q2 = q2
  NoPayload = NoPayload
  Request <- MCRequest
  Payload <- MCPayload
  Carries <- MCCarries
  PoolSize = 2
  MaxCrashes = 1
INVARIANTS TypeOK GateIsSound
PROPERTY NoWastedStart
CHECK_DEADLOCK FALSE
