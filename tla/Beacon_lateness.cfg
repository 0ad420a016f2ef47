\* As Beacon_beacon.cfg: the timer wraps after two advertisements.
SPECIFICATION FairSpec
CONSTANTS
  N = 48
  L = 4
  ST_SCHEDULE_MARGIN = 2
  MinLoad = 1
  Guard = 3
  Delays = {3, 4}
  ActiveChannels = {37, 38, 39}
  Late = 1
  Work = 1
  Air = 1
  Initial = 5
  Read = 11
  Measure = 40
  Adv = 21
PROPERTIES LatenessIsCounted
