SPECIFICATION Spec
CONSTANTS
  A = A
  B = B
  Hosts = {A, B}
  NoHost = NoHost
  Slots <- MCSlots
  Setups <- MCSetups
  PairingWindow = 2
  StuckHostGrace = 1
  KickMemory = 4
  ReregisterCooldown = 2
  EvictCooldown = 2
INVARIANTS
  TypeOK
  PairableOnlyInWindow
  VisibleOnlyInWindow
  RecordedIfLive
  OneReregistration
PROPERTIES
  OnlyDeadUnbound
  ReregisterAlone
  HostsLeaveFirst
  StuckHandled
  ExpectedHeard
  PairingSpec
CHECK_DEADLOCK FALSE
