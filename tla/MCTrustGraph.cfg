SPECIFICATION CheckSpec
CONSTANTS
  ra = ra  rb = rb  user = user
  i1 = i1  i2 = i2  vm = vm  grp = grp  team = team
  custom = custom  idle = idle  app = app
  as1 = as1  as2 = as2
  acct = acct  ext = ext
  None = None
  StartsWith <- MCStartsWith
  Short <- MCShort
  Configs <- MCConfigs
  Governed <- MCGoverned
  Keys <- MCKeys
  Meant <- MCMeant
  Occurs <- MCOccurs
  Depth <- MCDepth
  AccountId <- MCAccountId
  AccountNode <- MCAccountNode
INVARIANTS
  TypeOK
  FeedsReachability
  BothSidesAgree
  UnresolvedIsReported
  ScopesIsolate
  ControlIsFound
  ViolationsAreFound
  NoFalseViolation
CHECK_DEADLOCK FALSE
