SPECIFICATION GenSpec
CONSTANTS
  MaxPromises = 5
  MaxThens = 3
  MaxFollows = 1
  Scripts <- Some
  Plain = {Undefined, Error, List, Result}
  Thenable = Thenable
  Trap = Trap
  Undefined = Undefined
  Error = Error
  List = List
  None = None
  Result = Result
  Getters = FALSE
  MaxDepth = 2
  MaxAwaits = 2
INVARIANT SoleAuthority
INVARIANT Mirrors
INVARIANT ResumesOnce
INVARIANT GroupsSound
INVARIANT WokenOnce
PROPERTY KeepsContract
PROPERTY DueRuns
PROPERTY GroupsSettle
PROPERTY AnswersInOrder
PROPERTY AnsweredOneByOne
CHECK_DEADLOCK FALSE
