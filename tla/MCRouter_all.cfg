CONSTANTS
  a = a
  b = b
  Hosts = {a, b}
  RouterIp <- MCRouterIp
  Own = Own
  Unset = Unset
  Bits = 4
  RTable <- MCRTable
  Before = 2
  Word = 7
  Packets <- AllPackets
  MaxReceived = 4
  Questions <- ForAnother
  MaxLost = 1
  Announcers = {b}
SPECIFICATION FairSpec
INVARIANTS
  OnePlace
  QueueAccounting
  LearnedRight
  MisdirectedOnlyIf
  LongestMatch
  CheckKept
PROPERTY Drained
CHECK_DEADLOCK FALSE
