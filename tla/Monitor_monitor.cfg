\* One beacon with two sequence numbers among strangers, and an activity that a
\* second one replaces.
SPECIFICATION Spec
CONSTANTS
  Activities = {1, 2}
  Sensors = {s1}
  Strangers = {x1}
  SeqLimit = 2
  MaxPosted = 2
  MaxQueue = 1
INVARIANTS NoRepeat ListIsRight
PROPERTIES UploadsForEver
