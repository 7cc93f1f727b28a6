CONSTANTS
  a = a
  b = b
  Events = {a}
  NoEvent = none
  Predecessor <- NoBurst
  Questions = {a}
  Texts = {t1, t2}
  NoText = empty
  MaxAttempts = 3
  MaxChatter = 1
  MaxCrashes = 1
  MaxStalls = 1
  MaxEvictions = 0
SPECIFICATION Spec
INVARIANTS AtMostOnePost SentIsInRoom SkippedPostIsExhausted AuditSentIsInRoom OpenIsUnsent QuestionNotDropped
PROPERTIES ClosedStaysClosed
CHECK_DEADLOCK FALSE
