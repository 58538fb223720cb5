SPECIFICATION Spec
CONSTANTS
  MaxCells = 3
  MaxSlots = 1
  MaxHost = 1
  MaxWeak = 1
  None = None
INVARIANT NoUseAfterFree
INVARIANT CountsExact
INVARIANT CollectsGarbage
INVARIANT AssertsHold
