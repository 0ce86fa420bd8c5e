SPECIFICATION Spec
CONSTANTS
  Maintainer = m
  Sources = {s1}
  Submitted = {}
  Relayed = {}
  Subjects = {s1}
  Clients = {}
  Threads = {m}
  MaxVersion = 1
  MaxCrashes = 2
  MaxLosses = 1
  MaxFaults = 0
INVARIANTS CountedIsFindable
