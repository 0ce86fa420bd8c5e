SPECIFICATION Spec
CONSTANTS
  Maintainer = m
  Sources = {s1}
  Submitted = {t1}
  Relayed = {}
  Subjects = {s1, t1}
  Clients = {c1, c2}
  Threads = {c1, c2, m}
  MaxVersion = 2
  MaxCrashes = 0
  MaxLosses = 0
  MaxFaults = 0
INVARIANTS TypeOK CountedIsFindable RestIsDurable ForgottenNeverReturned EarlierRetired
SYMMETRY Symmetry
