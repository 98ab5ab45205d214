SPECIFICATION FairSpec
CONSTANTS
  Nets = {home, away}
  Reachable = {home}
  None = None
  STA_MAX_RETRY = 2
  MaxRequests = 3
  MaxBoots = 2
  MaxDrops = 3
  MaxEvents = 3
INVARIANTS TypeOK ConnectNotForgotten ShownStateIsReal ApRaisedOnce ConfigIsStored
PROPERTY FallbackRaised
CHECK_DEADLOCK FALSE
