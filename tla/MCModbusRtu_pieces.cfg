SPECIFICATION Spec
CONSTANTS
  Addr <- MCAddr
  Kind <- MCKind
  InitRelays <- MCInitRelays
  Calls <- MCFew
  Faults = {}
  Chunks = {3, 8}
  RxSize = 8
  MaxUnderWay = 0
PROPERTIES WholeAnswerAccepted
