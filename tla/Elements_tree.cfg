SPECIFICATION FairSpec
CONSTANTS
  top = top
  box = box
  x1 = x1
  x2 = x2
  y1 = y1
  slot = slot
  b1 = b1
  b2 = b2
  None = None
  Ids = {top, box, y1, x1, slot, b1, b2}
  Top = top
  Fragments = {slot}
  Parent <- ParentOf
  Single = {top}
  MaxElements = 1
  ScriptWaits = "registered"
  ReuseIds = FALSE
  Reshapes = FALSE
  EmptyLists = FALSE
  ManyForOne = FALSE
  DistinctMillis = TRUE
INVARIANT ShownRegistered
INVARIANT ScreenMatches
INVARIANT NoOrphans
PROPERTY EventuallyPainted
CHECK_DEADLOCK FALSE
