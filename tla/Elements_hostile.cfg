SPECIFICATION Spec
CONSTANTS
  top = top
  box = box
  x1 = x1
  x2 = x2
  y1 = y1
  slot = slot
  b1 = b1
  b2 = b2
  None = None
  Ids = {top, x1, slot, b1}
  Top = top
  Fragments = {slot}
  Parent <- ParentOf
  Single = {top}
  MaxElements = 2
  ScriptWaits = "never"
  ReuseIds = TRUE
  Reshapes = TRUE
  EmptyLists = TRUE
  ManyForOne = TRUE
  DistinctMillis = TRUE
INVARIANT NeverOlder
CHECK_DEADLOCK FALSE
