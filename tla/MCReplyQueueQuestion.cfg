CONSTANTS
  a = a
  b = b
  Events = {a}
  NoEvent = none
  Predecessor <- NoBurst
  Questions = {a}
  Texts = {t1}
  NoText = empty
  MaxAttempts = 3
  MaxChatter = 0
  MaxCrashes = 1
  MaxStalls = 0
  MaxEvictions = 1
SPECIFICATION Spec
INVARIANTS QuestionNotDropped
CHECK_DEADLOCK FALSE
