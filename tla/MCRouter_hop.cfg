CONSTANTS
  a = a
  b = b
  Hosts = {a, b}
  RouterIp <- MCRouterIp
  Own = Own
  Unset = Unset
  Bits = 4
  RTable <- MCRTable
  Before = 2
  Word = 7
  Packets <- TwoHops
  MaxReceived = 4
  Questions <- ForTheRouter
  MaxLost = 0
  Announcers = {}
SPECIFICATION Spec
INVARIANT SentToNextHop
CHECK_DEADLOCK FALSE
