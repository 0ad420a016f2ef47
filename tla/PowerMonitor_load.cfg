\* Three cycles of delay and up to three polls under way are enough for a wait
\* that old polls shorten, wholly or in part; two commands under way for one that
\* overtakes another.  The miners do not know of each other: one is enough.
SPECIFICATION FairPowerSpec
CONSTANTS
  Miners = {m1}
  DelayCycles = 3
  MaxOutstanding = 3
  MaxCommands = 2
INVARIANTS LatestCommandRules
PROPERTIES EnableWaits SteadyLoadDecides
