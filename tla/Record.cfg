SPECIFICATION MCSpec
CONSTANTS
  SchemaVersion = 2
  Migrations = {2}
  Files = {f}
  Texts = {t}
  MaxVersion = 1
  MaxConfirms = 1
  MaxFailures = 1
  MaxLength = 7
  Limits = {1, 2, 3, 4, 5, 6}
INVARIANTS TypeOK OpensWhole CompleteWasTrue ChunksSound
CHECK_DEADLOCK FALSE
