SPECIFICATION GenSpec
CONSTANTS
  MaxPromises = 5
  MaxThens = 3
  MaxFollows = 1
  Scripts <- Iterating
  Plain = {Undefined, Error, List, Result}
  Thenable = Thenable
  Trap = Trap
  Undefined = Undefined
  Error = Error
  List = List
  None = None
  Result = Result
  Getters = FALSE
  MaxDepth = 2
  MaxAwaits = 2
PROPERTY Answered
CHECK_DEADLOCK FALSE
