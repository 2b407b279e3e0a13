SPECIFICATION RealmSpec
CHECK_DEADLOCK FALSE
CONSTANTS
  Preparers = {p1, p2}
  Installers = {q1, q2}
  Infos <- MCInfos
  DiskSizes = {0, 1}
  Settings <- MCSettings
  MaxMemory = 4
  Allowances <- MCAllowances
INVARIANTS
  RealmTypeOK
  ShowsTheMachine
  BundlesCanBeTrusted
PROPERTIES
  SuspensionsAreSound
  BundlesAreKept
  LifecycleEnds
