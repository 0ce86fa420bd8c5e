SPECIFICATION Spec
CONSTANTS
  SchemaVersion = 2
  Migrations = {2}
  Files = {}
  Texts = {t1, t2}
  MaxVersion = 1
  MaxConfirms = 0
  MaxFailures = 1
INVARIANTS NeverLooksComplete
CHECK_DEADLOCK FALSE
