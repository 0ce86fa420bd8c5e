SPECIFICATION Spec
CONSTANTS
  Maintainer = m
  Sources = {}
  Submitted = {}
  Relayed = {r1}
  Subjects = {r1}
  Clients = {c1,c2}
  Threads = {c1,c2,m}
  MaxVersion = 2
  MaxCrashes = 1
  MaxLosses = 1
  MaxFaults = 0
PROPERTIES RebuildIsExact
SYMMETRY Symmetry
