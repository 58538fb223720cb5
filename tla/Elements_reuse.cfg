SPECIFICATION Spec
CONSTANTS
  top = top
  box = box
  x1 = x1
  x2 = x2
  y1 = y1
  slot = slot
  b1 = b1
  b2 = b2
  None = None
  Ids = {top, box, x1}
  Top = top
  Fragments = {}
  Parent <- ParentOf
  Single = {}
  MaxElements = 2
  ScriptWaits = "painted"
  ReuseIds = TRUE
  Reshapes = FALSE
  EmptyLists = FALSE
  ManyForOne = FALSE
  DistinctMillis = TRUE
INVARIANT ShownRegistered
CHECK_DEADLOCK FALSE
