CONSTANTS
  a = a
  b = b
  Events = {a}
  NoEvent = none
  Predecessor <- NoBurst
  Questions = {}
  Texts = {t1}
  NoText = empty
  MaxAttempts = 3
  MaxChatter = 0
  MaxCrashes = 0
  MaxStalls = 0
  MaxEvictions = 0
SPECIFICATION Spec
INVARIANTS SkippedNeverComposed
CHECK_DEADLOCK FALSE
