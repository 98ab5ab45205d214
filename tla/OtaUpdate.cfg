SPECIFICATION FairSpec
CONSTANTS
  Boards = {zero, freenove}
  Mine = zero
  NoImage = NoImage
  Chunks = 2
  MaxUploads = 3
  MaxResets = 2
INVARIANTS TypeOK BootsOwnImage FallbackKept
PROPERTIES ComesUpAgain ImplementsAB
CHECK_DEADLOCK FALSE
