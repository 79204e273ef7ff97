\* A head of two bytes, a body of two, at most three bytes readable at once.
CONSTANTS
  kCheapPrepend = 2
  kInitialSize = 2
  ExtraSize = 2
  Data = {a, b}
  Zero = zero
  Uninit = uninit
  MaxReadable = 3
SPECIFICATION Spec
SYMMETRY ByteSymmetry
INVARIANT TypeOK
INVARIANT GrowthBounded
PROPERTY ByteQueueRefined
