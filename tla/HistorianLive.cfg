SPECIFICATION FairSpec
CONSTANTS
  Maintainer = m
  Sources = {s1}
  Submitted = {}
  Relayed = {}
  Subjects = {s1}
  Clients = {}
  Threads = {m}
  MaxVersion = 2
  MaxCrashes = 2
  MaxLosses = 0
  MaxFaults = 2
PROPERTIES ScanRepairs ComesToLight
