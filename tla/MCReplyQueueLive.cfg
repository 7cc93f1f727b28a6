CONSTANTS
  a = a
  b = b
  Events = {a}
  NoEvent = none
  Predecessor <- NoBurst
  Questions = {}
  Texts = {t1}
  NoText = empty
  MaxAttempts = 3
  MaxChatter = 0
  MaxCrashes = 1
  MaxStalls = 1
  MaxEvictions = 1
SPECIFICATION FairSpec
PROPERTIES EventuallyClosed
CHECK_DEADLOCK FALSE
