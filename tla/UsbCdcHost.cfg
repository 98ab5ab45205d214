SPECIFICATION FairSpec
CONSTANTS
  BUF_SIZE = 2
  MaxFed <- MCMaxFed
  id1 = id1
  id2 = id2
  VcpIds <- MCVcpIds
  OtherIds = {x}
  NoId = NoId
  USB_CHUNK = 2
  MaxPlugs = 2
INVARIANTS TypeOK SearchFromClean OpenHandleKept CleanOpen
PROPERTIES ToUsbOrdered EventuallyConnected
