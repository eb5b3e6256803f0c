SPECIFICATION Spec
CONSTANTS
  None = None
  ListText = "list"
  Everywhere = "any"
  Around <- MCAround
  Width <- MCWidth
  Cidr <- MCCidr
  PrivateNets <- MCPrivateNets
  ProbeNets <- MCProbeNets
  SensitivePorts <- MCSensitivePorts
  Number <- MCNumber
  Actions <- MCActions
  Resources <- MCResources
  Matches <- MCMatches
  WildActions <- MCWildActions
  WildResources <- MCWildResources
  Globs <- MCGlobs
  ArmExprs <- MCArmExprs
  Joined <- MCJoined
  Clean <- MCClean
  RecursionLimit = 8
  Short <- MCShort
  ManagedArns <- MCManagedArns
  Configs <- MCConfigs
INVARIANTS
  TypeOK
  LocalsSettle
  RulesAreKept
  NoFalseSafe
  NoFalseAlarm
  TemplateNoFalseSafe
  TemplateNoFalseAlarm
CHECK_DEADLOCK FALSE
