SPECIFICATION FairSpec
CONSTANTS
  BUF_SIZE = 2
  MaxFed <- MCMaxFed
  Fds = {f1, f2}
  NoFd = NoFd
  TX_CHUNK = 2
  MaxSessions = 2
INVARIANTS TypeOK SClientOpen CleanStart InOrder
PROPERTIES ToNetOrdered SlotFreed
