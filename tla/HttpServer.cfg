\* Three clients for two sockets, so that the oldest session is closed and an
\* upload keeps two others waiting; driver fields of two characters, stored
\* names of up to three at boot, and forms that fit, fill or exceed them.
CONSTANTS
  Clients = {c1, c2, c3}
  Nobody = Nobody
  MaxSockets = 2
  Forms <- MCForms
  Heard <- MCHeard
  Unreserved = {"g", "2", "5", "B"}
  BODY_BUF = 13
  SSID_FIELD = 8
  PASS_FIELD = 6
  DRV_SSID = 3
  DRV_PASS = 3
  SHOWN_SSID = 4
  LOAD_PASS = 4
  ESC_BUF = 20
  MAX_SCAN_APS = 3
SPECIFICATION FairSpec
INVARIANTS TypeOK FormTakenAsTyped BootKeepsNetwork StatusNamesNetwork
INVARIANTS ScanListsEachOnce
PROPERTIES EveryAskEnds EveryoneGetsIn
