SPECIFICATION Spec
CONSTANTS
  Addr <- MCAddr
  Kind <- MCKind
  InitRelays <- MCInitRelays
  Calls <- MCLate
  Faults = {"late", "loss", "hangup", "ioerror"}
  Chunks = {8}
  RxSize = 8
  MaxUnderWay = 0
INVARIANTS SuccessIsRight
