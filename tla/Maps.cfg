SPECIFICATION Spec
CONSTANTS
  Keys <- MixedKeys
  Values = {v}
  Cursors = {c1, c2}
  MaxRecords = 5
  None = None
  Done = Done
INVARIANT RecordsExact
INVARIANT NoDangling
PROPERTY IsOrderedMap
