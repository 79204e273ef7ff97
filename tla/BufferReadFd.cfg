\* One byte received is enough.
CONSTANTS
  kCheapPrepend = 2
  kInitialSize = 2
  ExtraSize = 2
  Data = {a, b}
  Zero = zero
  Uninit = uninit
  MaxReadable = 3
SPECIFICATION Spec
PROPERTY ReadFdAppends
