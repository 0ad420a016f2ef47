SPECIFICATION MCSpec
CONSTANTS
  main = main
  options = options
  list = list
  NoMenu = NoMenu
  Menus <- MCMenus
  Root = main
  nMenuItems <- MCItems
  Disabled <- MCDisabled
  pSubMenu <- MCSub
  Startup <- MCStartup
  Kind <- MCKind
  PerScreen = 2
  NoText = NoText
  LineTexts <- MCTexts
  LineChars = {19, 49}
  LineColumns = {0, 17}
  LineShapes <- MCShapes
  MaxDraws = 2
  MaxRuns = 2
  Base = 3
  PerSleep = 1
  PerBase = 2
  Work = 1
  Width = 8
  Half = 4
  Long = 16
  RunSteps = {2}
  SleepSteps = {1, 5}
  NapLimit = 6
  Counts = {7}
  Timeouts = {2}
  MaxCalls = 3
  Durations = {2, 3}
  Slack = 1
  Banks = 2
  PagesPerBank = 2
  HighUnit = 2
  NamedPages = 2
  Ones = {0, 1}
  Buffers <- MCBuffers
  FlashCalls = 2
INVARIANTS MenusLead TransferIsTaken AlarmsInTime SensorsTellTruth ShownIsMeasured
PROPERTIES DisplayIsAsCalled NapIsCounted FlashIsAsCalled
