CONSTANTS
  a = a
  b = b
  Events = {a, b}
  NoEvent = none
  Predecessor <- Burst
  Questions = {}
  Texts = {t1}
  NoText = empty
  MaxAttempts = 3
  MaxChatter = 0
  MaxCrashes = 0
  MaxStalls = 0
  MaxEvictions = 0
SPECIFICATION StoreFairSpec
CONSTRAINTS NoSend FirstOnly NoArchive NoHold
PROPERTIES WithdrawnIsClosed
CHECK_DEADLOCK FALSE
