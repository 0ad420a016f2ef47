SPECIFICATION MCSpec
CONSTANTS
  Requests = {r1}
  MaxBuffer = 3
  MaxPacket = 2
  MaxPackets = 3
  Conversion = 2
  Delay = 3
  Data <- MCData
  Notes <- MCNotes
  MaxChunks = 2
  LongMax = 255
INVARIANTS MemoryIsRight AnswerIsTold ReadsDoneConversion
PROPERTIES SleepsAgain
CHECK_DEADLOCK FALSE
