SPECIFICATION Spec
CONSTANTS
  Bytes = {0, 1, 2}
  Zero = 0
  kCheapPrepend = 1
  kInitialSize = 1
  ExtraSize = 2
  Inputs <- InputsUpTo3
  MaxReadable = 4
INVARIANTS
  TypeOK
PROPERTIES
  ImplementsByteQueue
