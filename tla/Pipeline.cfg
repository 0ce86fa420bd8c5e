SPECIFICATION FairSpec
CONSTANTS
  Messages = {m1}
  Answers = {"fyi", "asked", "reply"}
  Correctors = {c1}
  MaxAttempts = 2
  Cap = 1
  Overlap = 1
  Day = 2
  Zone = 1
  Lookback = 4
  Reach = 4
  LongestRun = 2
  MaxTime = 0
  MaxCorrections = 2
  MaxFaults = 1
  MaxCrashes = 1
  MaxReindexes = 1
INVARIANTS TypeOK DecisionsKept DraftedIsSearchable
PROPERTIES EverySettles
CHECK_DEADLOCK FALSE
