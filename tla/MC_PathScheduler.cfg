CONSTANTS
  c1 = c1
  c2 = c2
  c3 = c3
  s1 = s1
  s2 = s2
  ClientLocal0 <- MCClientLocal0
  ServerLocal0 <- MCServerLocal0
  LateClientAddrs <- MCLateClientAddrs
  LateServerAddrs <- MCLateServerAddrs
  IPVersion <- MCIPVersion
  PingMayFail <- MCPingMayFail
SPECIFICATION PathsSpec
INVARIANT TypeOK
INVARIANT NoDuplicatePaths
INVARIANT ClientPathsAccepted
INVARIANT SchedTypeOK
INVARIANT LowLatencyMatchesReference
INVARIANT ChoosePathsConservesSize
INVARIANT ChoosePathsEqualFinish
PROPERTY PathsNeverReplaced
CHECK_DEADLOCK FALSE
