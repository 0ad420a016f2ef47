SPECIFICATION MCSpec
CONSTANTS
  Relays = 8
  Inputs = 3
  MaxCoil = 8
  Coils = {0, 7, 8, 9}
  Data = {0, 255}
  MaxOptions = 4
  Groups <- MCGroups
  Room = 2
  Numbers <- MCNumbers
  Bytes = {1, 2}
  MaxBytes = 4
  MaxDepth = 2
  MaxElements = 2
  NumChannels = 2
  Length <- MCLength
  Colours <- MCColours
  Pixels = {0, 1}
INVARIANTS InputsFresh AckedIsDone AckedIsShown CommasRight ProgramsTellTruth
