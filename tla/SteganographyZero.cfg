CONSTANTS
  Width = 2
  Carriers = {7}
  MaxSize = 6
  Memory = 2
  MaxLen = 3
SPECIFICATION SteganographySpec
INVARIANT MessageIsReconstructed
CHECK_DEADLOCK FALSE
