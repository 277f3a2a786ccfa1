\* Bytes of two bits; a ciphertext of up to three bytes, which then fills the buffers, and
\* old memory behind a shorter one; pictures from none to one byte more than the longest
\* string needs with its terminator.
CONSTANTS
  Width = 2
  Carriers = {4, 7}
  MaxSize = 9
  Memory = 3
  MaxLen = 3
SPECIFICATION SteganographySpec
INVARIANTS
  SteganographyTypeOK
  RecoversMessage
  StaysInside
  PictureIsKept
  ReconstructedUnlessZeroOrFull
CHECK_DEADLOCK FALSE
