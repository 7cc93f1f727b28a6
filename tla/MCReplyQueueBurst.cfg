CONSTANTS
  a = a
  b = b
  Events = {a, b}
  NoEvent = none
  Predecessor <- Burst
  Questions = {}
  Texts = {t1}
  NoText = empty
  MaxAttempts = 3
  MaxChatter = 0
  MaxCrashes = 0
  MaxStalls = 1
  MaxEvictions = 0
SPECIFICATION Spec
CONSTRAINTS NoExpiry NoArchive NoHold FewAttempts StallAfterReady
INVARIANTS WithdrawnNeverPosted
PROPERTIES ImplementsLicence
CHECK_DEADLOCK FALSE
