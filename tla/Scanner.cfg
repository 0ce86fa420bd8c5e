SPECIFICATION Spec
CONSTANTS
  Roots = {1, 2}
  Places <- Uneven
  Contents = {x, y}
  MaxFiles = 3
  MaxVersions = 2
  MaxChanges = 2
  Reuse = FALSE
SYMMETRY Symmetry
INVARIANTS TypeOK OwnIdentity
PROPERTIES SettledAddsNothing NothingMissed SeenIsReadable
