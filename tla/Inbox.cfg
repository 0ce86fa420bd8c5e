SPECIFICATION FairSpec
CONSTANTS
  Names <- Apart
  Contents = {x, y, bad}
  Corrupt = {bad}
  InCorpus = {x}
  MaxDrops = 3
  MaxRemovals = 1
  MaxFaults = 1
  MaxCrashes = 2
  Tidy = TRUE
INVARIANTS TypeOK NothingOverwritten RecordedOnce EveryDropAccounted ReasonBeside
PROPERTIES PendingClears
