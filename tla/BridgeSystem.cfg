SPECIFICATION Spec
CONSTANTS
  BUF_SIZE = 1
  MaxFed <- MCMaxFed
  Fds = {f1}
  NoFd = NoFd
  TX_CHUNK = 1
  MaxSessions = 2
  id1 = id1
  VcpIds <- MCVcpIds
  OtherIds = {}
  NoId = NoId
  USB_CHUNK = 1
  MaxPlugs = 2
PROPERTIES DiscardedForGood ImplementsTcp ImplementsUsb
