CONSTANTS
  r1 = r1
  r2 = r2
  main = main
  spare = spare
  luna = luna
  Rooms = {r1}
  Probe = probe
  NoCaller = nobody
  Models = {main, spare, luna}
  NoModel = nomodel
  Primary = main
  ProbeRow = luna
  Chain <- TwoModels
  Questions = {}
  Classes = {"usage_limit", "runner_timeout", "invalid_output"}
  Resetting = {"usage_limit"}
  ChainOn = {"usage_limit", "runner_timeout"}
  Base <- FirstDelay
  Cap <- LongestDelay
  Hints = {0}
  Jitter = 0
  Lease = 2
  Budget = 1
  MinDefer = 1
  Pause = 1
  Recovery = 2
  Window = 2
  MaxFailures = 2
  MaxLate = 0
  MaxErrors = 0
  MaxCrashes = 0
  MaxProbes = 1
SPECIFICATION Spec
INVARIANTS CallsAreLeased
CHECK_DEADLOCK FALSE
