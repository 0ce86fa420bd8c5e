SPECIFICATION Spec
CONSTANTS
  Messages = {m1, m2}
  Answers = {"reply"}
  Correctors = {c1}
  MaxAttempts = 1
  Cap = 1
  Overlap = 1
  Day = 2
  Zone = 1
  Lookback = 4
  Reach = 3
  LongestRun = 2
  MaxTime = 4
  MaxCorrections = 0
  MaxFaults = 1
  MaxCrashes = 1
  MaxReindexes = 0
INVARIANTS NothingBehindTheWindow
CHECK_DEADLOCK FALSE
