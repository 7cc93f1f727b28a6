CONSTANTS
  a = a
  b = b
  Events = {a}
  NoEvent = none
  Predecessor <- NoBurst
  Questions = {}
  Texts = {t1}
  NoText = empty
  MaxAttempts = 3
  MaxChatter = 0
  MaxCrashes = 0
  MaxStalls = 0
  MaxEvictions = 1
SPECIFICATION Spec
INVARIANTS AtMostOnePost
CHECK_DEADLOCK FALSE
