SPECIFICATION FairSpec
CONSTANTS
  Sources = {s1}
  Texts = {t1}
  Broken = {}
  MaxAttempts = 2
  MaxBackoff = 2
  LeaseTime = 1
  MaxGap = 1
  MaxCrashes = 1
INVARIANTS TypeOK NoTightLoop GivesUpExactly ExcludedNeverIndexed
PROPERTIES SettledOnlyWhenCurrent KeepsPromise NothingStranded
