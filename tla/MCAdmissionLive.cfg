SPECIFICATION Spec
CONSTANTS
  q1 = q1
  q2 = q2
  NoPayload = NoPayload
  Request <- MCRequest
  Payload <- MCFewPayload
  Carries <- MCFewCarries
  PoolSize = 1
  MaxCrashes = 1
PROPERTIES ThreadsReturn ImplementsPromise
CHECK_DEADLOCK FALSE
