SPECIFICATION MCSpec
CONSTANTS
  BUF_SIZE = 4
  Drivers = {"buffered", "polling", "usb"}
  KVP_ALIGN = 3
  Prints <- MCPrints
  MaxOut = 12
  MaxIn = 5
  MaxBytes = 7
  Size = 3
  MaxReq = 4
  DmaLate = FALSE
INVARIANTS PointersAgree
PROPERTIES EveryBufferIsQueue AllIsSent
