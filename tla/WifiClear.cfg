SPECIFICATION Spec
CONSTANTS
  Nets = {home, away}
  Reachable = {home}
  None = None
  STA_MAX_RETRY = 1
  MaxRequests = 2
  MaxBoots = 2
  MaxDrops = 2
  MaxEvents = 3
INVARIANT ClearedStaysOff
CHECK_DEADLOCK FALSE
