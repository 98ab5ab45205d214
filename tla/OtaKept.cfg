SPECIFICATION Spec
CONSTANTS
  Boards = {zero, freenove}
  Mine = zero
  NoImage = NoImage
  Chunks = 2
  MaxUploads = 3
  MaxResets = 2
INVARIANT KeptImageServes
CHECK_DEADLOCK FALSE
